------------------------------ MODULE SleRadio ------------------------------
(***************************************************************************)
(* The radio side of the SLE bridge: the callbacks that the SLE stack      *)
(* calls, on a G node (sle_conn_client.c) and on a T node                  *)
(* (sle_simple_ota_*.c), and the SLE handlers of                           *)
(* wtsl_core_node_callback.c.  The stack is external; it runs the          *)
(* callbacks in a thread of its own, the handlers run in the thread of the *)
(* HTTP server, and the data to send comes from the threads of             *)
(* SleTransport.  No lock guards any of the state.                         *)
(***************************************************************************)
EXTENDS Naturals, Sequences, FiniteSets

CONSTANTS
    SleAddresses,   \* devices that can be found
    ConnIds,        \* connection identifiers: 0 .. SLE_MAX_CONN - 1
    MaxRadioCalls   \* bound: requests that change something

ASSUME RadioAssumption ==
    /\ ConnIds \subseteq Nat /\ IsFiniteSet(ConnIds)
    /\ MaxRadioCalls \in Nat

VARIABLES
    radio,          \* basic_info: [enable, type]; whether the program has started
                    \* SLE (up), or has ended (exit)
    stack,          \* (external) the SLE stack: which callbacks are registered (dev,
                    \* seek, conn, write), what it is doing and has to report
    found,          \* seek_result_info[0 .. scan_num - 1]
    seeker,         \* the device the stack is reporting, or "none"
    links,          \* connect_manage[].server_info.state
    announce,       \* announce_id_num and announce_id
    sender,         \* a thread with data: [at, to], the connections it went to
    shown,          \* the last answer that lists devices or connections
    radioCall,      \* where the handler is
    radioCalls      \* requests so far

radioVars == <<radio, stack, found, seeker, links, announce, sender, shown,
               radioCall, radioCalls>>

Up == radio.at = "up"
Alive == radio.at # "exit"

(***************************************************************************)
(* The start                                                               *)
(***************************************************************************)
\* (external) What enable_sle and disable_sle do; the callback comes later.
enable_sle(s) == [s EXCEPT !.on = TRUE, !.enabled = TRUE]
disable_sle(s) == [s EXCEPT !.on = FALSE, !.announces = FALSE]

\* Callbacks are registered one kind at a time: those of a device, of the search, ...
sle_sample_dev_cbk_register(s) == [s EXCEPT !.dev = "client"]
sle_sample_seek_cbk_register(s) == [s EXCEPT !.seek = TRUE]
sle_sample_connect_cbk_register(s) == [s EXCEPT !.conn = TRUE]

\* ... and, on a T node, those of the device, of the service and of the announcement,
\* which take the place of those of the search.
sle_simple_ota_init(s) == [s EXCEPT !.dev = "server"]
sle_ssaps_register_cbks(s) == [s EXCEPT !.write = TRUE]
sle_uart_announce_register_cbks(s) == [s EXCEPT !.seek = FALSE]

\* A G node: all callbacks are registered before the stack is enabled.
sle_client_init ==
    enable_sle(sle_sample_connect_cbk_register(
                  sle_sample_seek_cbk_register(sle_sample_dev_cbk_register(stack))))

\* A T node: the rest is done when the stack reports that it is enabled.
sle_server_init == enable_sle(sle_simple_ota_init(stack))

\* wtsl_core_sle, once SLE is enabled.  With any other type it starts nothing.
SleStart ==
    /\ radio.at = "waits"
    /\ radio.enable
    /\ radio' = [radio EXCEPT !.at = "up"]
    /\ stack' = CASE radio.type = "G" -> sle_client_init
                  [] radio.type = "T" -> sle_server_init
                  [] OTHER -> stack
    /\ UNCHANGED <<found, seeker, links, announce, sender, shown, radioCall,
                   radioCalls>>

\* sle_uart_server_add: the service with its property and its descriptor, taken
\* back when one of them cannot be added, but not when it cannot be started.
sle_uart_server_add == {"none", "added", "started"}

\* sle_uart_server_init stops at the first failure.  The call that registers the
\* callbacks of a connection has no result (the function is void, and declared
\* nowhere in that file): whatever is found in its place is tested.
sle_uart_server_init(s) ==
    LET conn == sle_sample_connect_cbk_register(s)
        ssaps == sle_ssaps_register_cbks(conn)
    IN  {s, conn, ssaps, sle_uart_announce_register_cbks(ssaps)}

sle_set_adv_data == {"discovery level", "access mode"}
sle_set_scan_response_data == {"power", "name"}

\* What the stack is given; that it refuses the parameters or the data is only printed.
sle_set_default_announce_param(s) == [s EXCEPT !.param = TRUE]
sle_set_default_announce_data(s) ==
    [s EXCEPT !.data = sle_set_adv_data \cup sle_set_scan_response_data]

sle_uart_server_adv_init(s) ==
    LET prepared == sle_set_default_announce_data(sle_set_default_announce_param(s))
    IN  {prepared, [prepared EXCEPT !.announces = TRUE]}

\* sle_sample_sle_enable_cbk only reports; sle_enable_cbk makes the server, whatever
\* the status says and whichever part fails, each time the stack is enabled.
EnableCallback ==
    /\ Alive
    /\ stack.enabled
    /\ LET done == [stack EXCEPT !.enabled = FALSE] IN
       \/ /\ stack.dev = "server"
          /\ \E s \in sle_uart_server_init(done), service \in sle_uart_server_add :
                stack' \in sle_uart_server_adv_init([s EXCEPT !.service = service])
       \/ stack.dev # "server" /\ stack' = done
    /\ UNCHANGED <<radio, found, seeker, links, announce, sender, shown, radioCall,
                   radioCalls>>

(***************************************************************************)
(* Search and connections                                                  *)
(***************************************************************************)
\* A variant with a defect, named after it.
FirstOnly_IsNew(a) == IF found = << >> THEN TRUE ELSE found[1] # a

\* sle_sample_seek_result_info_cbk compares a device with those found so far, ...
IsNew(a) == \A k \in 1..Len(found) : found[k] # a

SeekResult ==
    /\ Alive
    /\ radioCall = "seek" /\ stack.on /\ stack.seek /\ seeker = "none"
    /\ \E a \in SleAddresses : IsNew(a) /\ seeker' = a
    /\ UNCHANGED <<radio, stack, found, links, announce, sender, shown, radioCall,
                   radioCalls>>

\* ... and stores it at the end; nothing bounds the number.
SeekStores ==
    /\ Alive
    /\ seeker # "none"
    /\ found' = Append(found, seeker)
    /\ seeker' = "none"
    /\ UNCHANGED <<radio, stack, links, announce, sender, shown, radioCall,
                   radioCalls>>

\* A connection is made, lost or refused.  The callback that would announce a T node
\* again after it was disconnected is registered by nobody.
sle_sample_connect_state_changed_cbk ==
    /\ Alive
    /\ stack.on /\ stack.conn
    /\ \E id \in ConnIds, state \in {"none", "connected", "disconnected"} :
          /\ links[id] # state
          /\ state = "connected" => stack.asked \/ stack.announces
          /\ links' = [links EXCEPT ![id] = state]
          /\ stack' = [stack EXCEPT !.asked = FALSE,
                                   !.announces = @ /\ state # "connected"]
    /\ UNCHANGED <<radio, found, seeker, announce, sender, shown, radioCall,
                   radioCalls>>

\* A peer writes to the service of a T node.  recv_ota_ack seeks in a file that
\* nobody has opened, unless it asks for the packet after the last, which is 0.
recv_ota_ack ==
    /\ Alive
    /\ stack.on /\ stack.write
    /\ radio' = [radio EXCEPT !.at = "exit"]
    /\ UNCHANGED <<stack, found, seeker, links, announce, sender, shown, radioCall,
                   radioCalls>>

(***************************************************************************)
(* Data                                                                    *)
(***************************************************************************)
Connected == {id \in ConnIds : links[id] = "connected"}

\* sle_client_senddata: to the connections that were announced for it, or to all
\* that are connected; ...
Targets ==
    IF announce.num = 0 THEN Connected
    ELSE {announce.ids[k] : k \in 1..announce.num}

NoData == [at |-> "idle", to |-> {}]

sle_client_senddata ==
    /\ Up
    /\ sender.at = "idle"
    /\ sender' = [at |-> "sent", to |-> Targets]
    /\ UNCHANGED <<radio, stack, found, seeker, links, announce, shown, radioCall,
                   radioCalls>>

\* ... then the announcement is used up: this one, or one that came meanwhile.
UsedUp ==
    /\ Alive
    /\ sender.at = "sent"
    /\ sender' = NoData
    /\ announce' = [announce EXCEPT !.num = 0]
    /\ UNCHANGED <<radio, stack, found, seeker, links, shown, radioCall, radioCalls>>

(***************************************************************************)
(* Handlers                                                                *)
(***************************************************************************)
MayCall ==
    /\ Alive
    /\ radioCall = "idle"
    /\ radioCalls < MaxRadioCalls
    /\ radioCalls' = radioCalls + 1

wtsl_core_sle_show_bss == found

\* In the order of their identifiers.
wtsl_core_sle_conninfo ==
    {list \in [1..Cardinality(Connected) -> Connected] :
        \A j, k \in DOMAIN list : j < k => list[j] < list[k]}

\* The answer lists what was found in the second until the search is stopped, and
\* what another search stores late.
wtsl_core_sle_start_scan ==
    \/ /\ MayCall
       /\ found' = << >>
       /\ radioCall' = "seek"
       /\ UNCHANGED <<radio, stack, seeker, links, announce, sender, shown>>
    \/ /\ Alive
       /\ radioCall = "seek"
       /\ shown' = wtsl_core_sle_show_bss
       /\ radioCall' = "idle"
       /\ UNCHANGED <<radio, stack, found, seeker, links, announce, sender,
                      radioCalls>>

ShowConnections ==
    /\ MayCall
    /\ shown' \in wtsl_core_sle_conninfo
    /\ UNCHANGED <<radio, stack, found, seeker, links, announce, sender, radioCall>>

\* The stack is asked for a connection; the callback tells of its result.
wtsl_core_sle_connect ==
    /\ MayCall
    /\ stack' = [stack EXCEPT !.asked = TRUE]
    /\ UNCHANGED <<radio, found, seeker, links, announce, sender, shown, radioCall>>

\* The number comes first, the identifiers after it.
wtsl_core_set_announce_id ==
    \/ /\ MayCall
       /\ \E n \in 0..Cardinality(ConnIds) : announce' = [announce EXCEPT !.num = n]
       /\ radioCall' = "ids"
       /\ UNCHANGED <<radio, stack, found, seeker, links, sender, shown>>
    \/ /\ Alive
       /\ radioCall = "ids"
       /\ \E ids \in [1..Cardinality(ConnIds) -> ConnIds] :
             announce' = [announce EXCEPT !.ids = ids]
       /\ radioCall' = "idle"
       /\ UNCHANGED <<radio, stack, found, seeker, links, sender, shown, radioCalls>>

\* The values are saved as they change.  The stack is enabled or disabled at once,
\* also before wtsl_core_sle has registered anything.  For another type the device
\* is restarted.
wtsl_core_set_sle_basicinfo ==
    /\ MayCall
    /\ \E enable \in BOOLEAN, type \in {"G", "T"} :
          /\ radio' = [enable |-> enable, type |-> type,
                       at |-> IF type = radio.type THEN radio.at ELSE "exit"]
          /\ stack' = IF enable THEN enable_sle(stack) ELSE disable_sle(stack)
    /\ UNCHANGED <<found, seeker, links, announce, sender, shown, radioCall>>

(***************************************************************************)
(* Specification                                                           *)
(***************************************************************************)
RadioInit ==
    /\ radio \in [enable : BOOLEAN, type : {"G", "T", "other"}, at : {"waits"}]
    /\ stack = [on |-> FALSE, enabled |-> FALSE, asked |-> FALSE, dev |-> "none",
                seek |-> FALSE, conn |-> FALSE, write |-> FALSE, service |-> "none",
                param |-> FALSE, data |-> {}, announces |-> FALSE]
    /\ found = << >>
    /\ seeker = "none"
    /\ links = [id \in ConnIds |-> "none"]
    /\ announce = [num |-> 0, ids |-> [k \in 1..Cardinality(ConnIds) |-> 0]]
    /\ sender = NoData
    /\ shown = << >>
    /\ radioCall = "idle"
    /\ radioCalls = 0

RadioNext ==
    \/ SleStart
    \/ EnableCallback
    \/ SeekResult \/ SeekStores
    \/ sle_sample_connect_state_changed_cbk
    \/ recv_ota_ack
    \/ sle_client_senddata \/ UsedUp
    \/ wtsl_core_sle_start_scan
    \/ ShowConnections
    \/ wtsl_core_sle_connect
    \/ wtsl_core_set_announce_id
    \/ wtsl_core_set_sle_basicinfo

RadioSpec == RadioInit /\ [][RadioNext]_radioVars

(***************************************************************************)
(* Properties                                                              *)
(***************************************************************************)
RadioTypeOK ==
    /\ radio \in [enable : BOOLEAN, type : {"G", "T", "other"},
                  at : {"waits", "up", "exit"}]
    /\ stack.dev \in {"none", "client", "server"}
    /\ stack.service \in {"none", "added", "started"}
    /\ links \in [ConnIds -> {"none", "connected", "disconnected"}]
    /\ announce.num \in 0..Cardinality(ConnIds)
    /\ seeker \in SleAddresses \cup {"none"}
    /\ radioCall \in {"idle", "seek", "ids"}

\* The answer to a scan lists a device once, although the results come from another
\* thread and may be stored after the next scan has begun.
SeekDistinct == \A j, k \in 1..Len(shown) : shown[j] = shown[k] => j = k
=============================================================================
