----------------------------- MODULE NodeTable -----------------------------
(***************************************************************************)
(* The list of nodes that a device keeps from the heartbeats of its peers: *)
(* heartbeat_thread and recv_thread of wtsl_core_node_service.c, the list  *)
(* of wtsl_core_node_list.c, and the peers and the UDP network around it.  *)
(* A peer's MAC address is its identity; its IP address comes from DHCP    *)
(* and may change.  A datagram may be lost, duplicated or overtaken.       *)
(*                                                                         *)
(* recv_thread handles one datagram at a time, under node_mutex, and the   *)
(* watcher's update of the device's own row touches no other row.          *)
(***************************************************************************)
EXTENDS Naturals, Sequences, FiniteSets

CONSTANTS
  Peer,    \* MAC addresses of the peers
  Self,    \* and of the device itself
  Addr,    \* IP addresses DHCP gives out
  OwnAddr, \* the address of the device itself, which no peer is given
  MaxVer,  \* a bound on the changes of what a node says of itself
  MaxNet   \* a bound on the datagrams under way

ASSUME NodeAssumption ==
  /\ IsFiniteSet(Peer) /\ Self \notin Peer
  /\ IsFiniteSet(Addr) /\ OwnAddr \notin Addr
  /\ MaxVer \in Nat /\ MaxNet \in Nat

VARIABLES
  table,   \* the rows of the list, in order
  addr,    \* addr[p]: the address of peer p now
  ver,     \* ver[n]: the version of node n's WTSLNodeInfo
  net,     \* datagrams sent and not yet lost or consumed
  \* A history variable, read by the properties only.
  moved    \* the address of some peer has changed

vars == <<table, addr, ver, net, moved>>

Ver == 0 .. MaxVer
Node == Peer \cup {Self}
Heartbeat == [mac : Peer, ver : Ver, from : Addr]
Row == [id : Nat, addr : Addr \cup {OwnAddr}, mac : Node, ver : Ver]

\* wtsl_core_splink_node_service puts the device itself at the head, and
\* wtsl_core_splink_start_node_service_thread fills in its address before it
\* creates recv_thread.
Init ==
  /\ table = <<[id |-> 0, addr |-> OwnAddr, mac |-> Self, ver |-> 0]>>
  /\ addr \in {a \in [Peer -> Addr] : \A p, q \in Peer : p # q => a[p] # a[q]}
  /\ ver = [n \in Node |-> 0]
  /\ net = {}
  /\ moved = FALSE

-----------------------------------------------------------------------------
(***************************************************************************)
(* The peers and the network                                               *)
(***************************************************************************)
\* heartbeat_thread of a T node, or the G node's answer to such a request: both
\* say of the sender what it knows of itself, and are handled alike.  A network
\* that is full loses others.
send_heartbeat_req(p) ==
  /\ \E kept \in SUBSET net :
       /\ kept = net \/ Cardinality(net) = MaxNet
       /\ Cardinality(kept) < MaxNet
       /\ net' = kept \cup {[mac |-> p, ver |-> ver[p], from |-> addr[p]]}
  /\ UNCHANGED <<table, addr, ver, moved>>

Lose(h) ==
  /\ net' = net \ {h}
  /\ UNCHANGED <<table, addr, ver, moved>>

\* A node's name, link state or another part of its info changes.
InfoChange(n) ==
  /\ ver[n] < MaxVer
  /\ ver' = [ver EXCEPT ![n] = @ + 1]
  /\ UNCHANGED <<table, addr, net, moved>>

\* DHCP gives a peer another address, that of a peer which has left it or has
\* not renewed its lease included.
AddressChange(p, a) ==
  /\ \A q \in Peer : addr[q] # a
  /\ addr' = [addr EXCEPT ![p] = a]
  /\ moved' = TRUE
  /\ UNCHANGED <<table, ver, net>>

-----------------------------------------------------------------------------
(***************************************************************************)
(* The device                                                              *)
(***************************************************************************)
RowsOf(mac) == {i \in DOMAIN table : table[i].mac = mac}
RowsAt(a) == {i \in DOMAIN table : table[i].addr = a}

\* Variants with a defect (see the README), here and below: named after it.
SkipsLast_is_node_not_exist(h) == RowsOf(h.mac) \ {Len(table)} = {}
AddressToo_is_node_not_exist(h) == RowsOf(h.mac) \cap RowsAt(h.from) = {}

\* No row has the MAC address.
is_node_not_exist(h) == RowsOf(h.mac) = {}


CountFirst_add_wtsl_node_to_list_tail(h) ==
  table' = Append(table, [id |-> Len(table) + 1, addr |-> h.from, mac |-> h.mac, ver |-> h.ver])

\* The new row's id is the number of rows there were.
add_wtsl_node_to_list_tail(h) ==
  table' = Append(table, [id |-> Len(table), addr |-> h.from, mac |-> h.mac, ver |-> h.ver])

NoInfo_update_heartbeat(h) == UNCHANGED table

\* The first row with the sender's IP address gets the info of the heartbeat,
\* its MAC address included; without such a row nothing is changed.
update_heartbeat(h) ==
  \/ RowsAt(h.from) = {} /\ UNCHANGED table
  \/ \E i \in RowsAt(h.from) :
       /\ \A j \in RowsAt(h.from) : i <= j
       /\ table' = [table EXCEPT ![i] = [@ EXCEPT !.mac = h.mac, !.ver = h.ver]]

\* recv_thread and parse_data_heartbeat.  The datagram may come again.
parse_data_heartbeat(h, again) ==
  /\ IF is_node_not_exist(h) THEN add_wtsl_node_to_list_tail(h) ELSE update_heartbeat(h)
  /\ net' = IF again THEN net ELSE net \ {h}
  /\ UNCHANGED <<addr, ver, moved>>

\* The watcher copies the device's own info to the first row with its address.
update_wtsl_node_basicinfo ==
  /\ \E i \in RowsOf(Self) :
       /\ \A j \in RowsOf(Self) : i <= j
       /\ table' = [table EXCEPT ![i] = [@ EXCEPT !.ver = ver[Self]]]
  /\ UNCHANGED <<addr, ver, net, moved>>

Receive(p) == \E h \in net : h.mac = p /\ h.ver = ver[p] /\ parse_data_heartbeat(h, FALSE)

Next ==
  \/ \E p \in Peer : send_heartbeat_req(p)
  \/ \E p \in Peer, a \in Addr : AddressChange(p, a)
  \/ \E n \in Node : InfoChange(n)
  \/ \E h \in net : Lose(h)
  \/ \E h \in net, again \in BOOLEAN : parse_data_heartbeat(h, again)
  \/ update_wtsl_node_basicinfo

Spec == Init /\ [][Next]_vars

\* Peers send for ever, the network does not lose every datagram of a peer, and
\* the device's threads run.
Fairness ==
  /\ \A p \in Peer : SF_vars(send_heartbeat_req(p)) /\ SF_vars(Receive(p))
  /\ WF_vars(update_wtsl_node_basicinfo)
FairSpec == Spec /\ Fairness

-----------------------------------------------------------------------------
(***************************************************************************)
(* What is expected of it.                                                 *)
(***************************************************************************)
\* Every variable holds a value of its kind, and a row's id is its position:
\* the loops over 0 .. node_count - 1 reach every row by its id.
TypeOK ==
  /\ table \in Seq(Row)
  /\ \A i \in DOMAIN table : table[i].id = i - 1
  /\ addr \in [Peer -> Addr] /\ ver \in [Node -> Ver]
  /\ net \subseteq Heartbeat
  /\ moved \in BOOLEAN

\* The list does not grow for ever though no row is ever removed: whatever the
\* network does, and however often addresses are given anew.
TableBounded == Len(table) <= 1 + Cardinality(Addr) + Cardinality(Peer)

\* A row that is not the first with its IP address is never written again;
\* no two such rows are of one node.
First(i) == \A j \in DOMAIN table : j < i => table[j].addr # table[i].addr
StaleRowsDiffer ==
  \A i, j \in DOMAIN table : i # j /\ ~First(i) /\ ~First(j) => table[i].mac # table[j].mac

\* As long as every peer keeps its address no node is listed twice, and a row
\* has the address of its node.
OneRowPerPeer ==
  ~moved => \A i \in DOMAIN table :
    /\ RowsOf(table[i].mac) = {i}
    /\ table[i].mac \in Peer => table[i].addr = addr[table[i].mac]

\* As long as every peer keeps its address, the list comes to show what each of
\* them says of itself, again and again, though datagrams are lost and old ones
\* arrive late.
ListFollows ==
  []~moved => \A n \in Node : []<>(\E i \in RowsOf(n) : table[i].ver = ver[n])

\* "The node exists, so its heartbeat state is updated"
\* (wtsl_core_node_service.c:304).
HeartbeatRecorded ==
  [][\A h \in net, again \in BOOLEAN : parse_data_heartbeat(h, again) =>
       \E i \in DOMAIN table' : table'[i].mac = h.mac /\ table'[i].ver = h.ver]_vars
=============================================================================
