------------------------------ MODULE Sessions ------------------------------
(***************************************************************************)
(* The web server: how requests arrive in pieces on several connections,   *)
(* how they are routed to the functions of a node, and the users and       *)
(* permissions that decide whether a function runs.                        *)
(*                                                                         *)
(* wtsl_core_httpmain.c, wtsl_core_http_restful_api.c,                     *)
(* wtsl_core_node_manager.[ch], wtsl_core_user_manager.c, wtsl_core_db.c   *)
(* and the list of wtsl_core_list.c that holds the parts of a URL.         *)
(*                                                                         *)
(* libmicrohttpd calls request_handler from one thread, so that a call is  *)
(* one action; calls for different connections alternate.  What a function *)
(* of a node does is the subject of the other modules: here it runs, with  *)
(* the permission it runs with, and answers or fails.                      *)
(***************************************************************************)
EXTENDS Naturals, Sequences, FiniteSets, TLC, SequencesExt

CONSTANTS
    Connections,    \* connections of the web server
    Requests,       \* the requests clients make
    MaxLogins       \* bound: successful logins, each with a token of its own

ASSUME SessionsAssumption ==
    /\ MaxLogins \in Nat /\ IsFiniteSet(Connections)
    /\ \A r \in Requests :
          /\ r \in [method : STRING, auth : BOOLEAN, length : Nat, pieces : Nat,
                   url : Seq(STRING), id : Nat, json : BOOLEAN,
                   body : [username : STRING, password : STRING, newpassword : STRING]]
          \* libmicrohttpd delivers what Content-Length announces; a body without
          \* one (length 0) comes in chunks
          /\ r.length # 0 => r.pieces = r.length

VARIABLES
    alive,          \* the program runs
    connection,     \* what request_handler keeps for each connection (con_cls)
    nodeRows,       \* rows of the node list: none yet, the node itself, others
    userTable,      \* the rows of table user, in the order of their ids
    managerCtx,     \* g_user_ctx of wtsl_core_user_manager.c
    apiCtx,         \* g_user_ctx of wtsl_core_http_restful_api.c
    logins,         \* logins so far: the source of fresh tokens
    unsaved,        \* (history) the UPDATE of the last login failed
    earned,         \* (history) permissions that logins have granted
    executed        \* (history) the last function run: what, with what body

sessionVars == <<alive, connection, nodeRows, userTable, managerCtx, apiCtx,
                 logins, unsaved, earned, executed>>

(***************************************************************************)
(* Permissions: the bits of PermissionLevel                                *)
(***************************************************************************)
PERMISSION_READ    == {1}
PERMISSION_WRITE   == {2}
PERMISSION_EXECUTE == {4}
PERMISSION_ADMIN   == {1, 2, 4}

\* global_perm_map: functions that are not listed here need PERMISSION_WRITE.
NODE_FUNC_LIST ==
    [read    |-> {"get_all_nodes_info", "get_node_basicinfo", "get_node_conninfo",
                  "get_hw_resources_info", "do_autojoinNetwork", "show_bss_info",
                  "get_node_advinfo", "qos_get_status", "qos_get_rules",
                  "acl_get_status", "acl_get_rules"},
     execute |-> {"do_time_sync", "start_scan", "do_connect"},
     admin   |-> {"do_upgrade", "do_reboot"}]

Required(func) ==
    CASE func \in NODE_FUNC_LIST.read    -> PERMISSION_READ
      [] func \in NODE_FUNC_LIST.execute -> PERMISSION_EXECUTE
      [] func \in NODE_FUNC_LIST.admin   -> PERMISSION_ADMIN
      [] OTHER                           -> PERMISSION_WRITE

\* Variants with a defect, here and below: named after it.
AnyBit_check_permission_user(ctx, required) == ctx.permission \cap required # {}

check_permission_user(ctx, required) == required \subseteq ctx.permission

(***************************************************************************)
(* Routes: what a URL, as the list of its parts, names                     *)
(***************************************************************************)
\* list_get, which returns NULL past the end.
list_get(parts, i) == IF i + 1 \in 1..Len(parts) THEN parts[i + 1] ELSE "NULL"

GetRoutes ==
    [basicinfo |-> "get_node_basicinfo", conninfo |-> "get_node_conninfo",
     advinfo |-> "get_node_advinfo", scan |-> "start_scan",
     resourcesinfo |-> "get_hw_resources_info", show_bss_info |-> "show_bss_info",
     sle_scan |-> "do_sle_scan", sle_show_bss |-> "get_sle_scan_result",
     sle_conninfo |-> "get_sle_conninfo", sle_basicinfo |-> "get_sle_basicinfo",
     sle_trans_config |-> "get_sle_trans_config"]

GetWays == [qos |-> [status |-> "qos_get_status", rules |-> "qos_get_rules"],
            acl |-> [status |-> "acl_get_status", rules |-> "acl_get_rules"]]

NodeRoutes ==
    [basicinfo |-> "set_node_basicinfo", advinfo |-> "set_node_advinfo",
     connect |-> "do_connect", autojoinNetwork |-> "do_autojoinNetwork",
     timesync |-> "do_time_sync", reboot |-> "do_reboot",
     disconnect |-> "do_disconnect", restore |-> "do_restore", aifh |-> "do_aifh",
     chanswitch |-> "do_chswitch"]

DriverRoutes ==
    [secalg |-> "get_secalg", adaptivemcs |-> "set_adaptivemcs",
     clearschmcs |-> "do_clearschmcs", mcsboundinfo |-> "get_mcsboundinfo",
     mcsbound |-> "set_mcsbound", adaptivemcsinfo |-> "get_adaptivemcsinfo",
     traceinfo |-> "get_traceinfo", throughput_test |-> "do_throughput_test",
     shortrange_test |-> "do_shortrange_test",
     remoterange_test |-> "do_remoterange_test",
     lowpow_test |-> "do_lowpow_test", lowlatency_test |-> "do_lowlatency_test"]

SleRoutes ==
    [sle_connect |-> "do_sle_connect", sle_basicinfo |-> "set_sle_basicinfo",
     sle_announce_id |-> "set_sle_announce_id",
     config_vap0_mac |-> "config_vap0_mac",
     sle_trans_config |-> "set_sle_trans_config"]

PostRoutes == NodeRoutes @@ DriverRoutes @@ SleRoutes

PostWays == [firmware |-> [upload |-> "do_upload", upgrade |-> "do_upgrade"],
             qos |-> [switch |-> "qos_switch", rules |-> "qos_set_rules"],
             acl |-> [switch |-> "acl_switch", rules |-> "acl_set_rules"]]

Route(routes, func) == IF func \in DOMAIN routes THEN routes[func] ELSE "NULL"

WayOf(ways, func, way) ==
    IF func \in DOMAIN ways THEN Route(ways[func], way) ELSE "NULL"

(***************************************************************************)
(* What a step of the program does: the state it leaves, and its answer    *)
(***************************************************************************)
NoContext == [id |-> 0, gid |-> 0, token |-> 0, permission |-> {}]

\* The functions below return the answer to the client ("ok", "error" or, for
\* a dereference of NULL, "fault") with the new values of what they change.
Outcome(answer) ==
    [answer |-> answer, users |-> userTable, manager |-> managerCtx, api |-> apiCtx,
     run |-> executed, login |-> FALSE, unsaved |-> unsaved]

(***************************************************************************)
(* The functions of a node                                                 *)
(***************************************************************************)
find_wtsl_node_by_id(id) == id < nodeRows

\* The first row is the node itself; calls for the others are not forwarded.
check_is_remote_node(id) == id # 0

call_remote_node_cmd == {Outcome("error")}

\* real_func answers, or fails and answers NULL.
interface_wrapper(id, func, pieces) ==
    IF ~check_permission_user(apiCtx, Required(func)) THEN {Outcome("error")}
    ELSE IF check_is_remote_node(id) THEN call_remote_node_cmd
    ELSE {[Outcome(a) EXCEPT !.run = [func |-> func, pieces |-> pieces,
                                      needs |-> Required(func)]] :
              a \in {"ok", "error"}}

Call(id, func, pieces) ==
    IF find_wtsl_node_by_id(id) /\ func # "NULL"
    THEN interface_wrapper(id, func, pieces)
    ELSE {Outcome("error")}

\* /api/v1/nodes is answered by row 0, which is not tested for NULL.  Other
\* lengths of a URL, and a qos or acl with a way it has not, answer whatever an
\* earlier request left in the buffer.
wtsl_core_get_nodes_functions(r) ==
    LET func  == list_get(r.url, 4)
        way   == list_get(r.url, 5)
        noWay == /\ find_wtsl_node_by_id(r.id)
                 /\ func \in DOMAIN GetWays /\ way \notin DOMAIN GetWays[func]
    IN  CASE Len(r.url) <= 3 /\ find_wtsl_node_by_id(0) ->
               interface_wrapper(0, "get_all_nodes_info", r.pieces)
          [] Len(r.url) <= 3 /\ ~find_wtsl_node_by_id(0) -> {Outcome("fault")}
          [] Len(r.url) = 5 -> Call(r.id, Route(GetRoutes, func), r.pieces)
          [] Len(r.url) >= 6 /\ ~noWay -> Call(r.id, WayOf(GetWays, func, way), r.pieces)
          [] OTHER -> {Outcome("ok")}

\* A firmware, qos or acl without a way is a dereference of NULL.
wtsl_core_post_nodes_functions(r) ==
    LET func == list_get(r.url, 4)
        way  == list_get(r.url, 5)
    IN  IF Len(r.url) < 5 \/ ~find_wtsl_node_by_id(r.id) THEN {Outcome("error")}
        ELSE CASE func \in DOMAIN PostRoutes -> Call(r.id, PostRoutes[func], r.pieces)
               [] func \in DOMAIN PostWays /\ Len(r.url) = 5 -> {Outcome("fault")}
               [] WayOf(PostWays, func, way) # "NULL" ->
                    Call(r.id, WayOf(PostWays, func, way), r.pieces)
               [] Len(r.url) = 6 /\ way = "traffic" /\ func \notin DOMAIN PostRoutes ->
                    Call(r.id, "get_node_traffic", r.pieces)
               [] OTHER -> {Outcome("error")}

(***************************************************************************)
(* The table of users                                                      *)
(***************************************************************************)
\* Texts: "" is the empty one, and Absent a field that is not in the body.
Absent == "absent"

\* An INSERT or an UPDATE may fail, for want of room for example, and then leaves the
\* table as it was; the callers do not look at the result.  A SELECT finds what is
\* there.
Written(old, new) == {old, new}

RowsOf(user) == {i \in DOMAIN userTable : userTable[i].username = user}

\* A SELECT steps once: it sees the first row of that name.
RowOf(user) == CHOOSE i \in RowsOf(user) : \A j \in RowsOf(user) : i <= j

db_user_exists(user) == RowsOf(user) # {}

db_check_password(user, pwd) ==
    db_user_exists(user) /\ userTable[RowOf(user)].password = pwd

db_register(table, user, gid, pwd) ==
    IF user = "" \/ pwd = "" THEN {table}
    ELSE Written(table, Append(table, [username |-> user, password |-> pwd,
                                       gid |-> gid, token |-> 0]))

\* An UPDATE changes every row of that name.
Updated(user, field, value) ==
    [i \in DOMAIN userTable |->
        IF i \in RowsOf(user) THEN [userTable[i] EXCEPT ![field] = value]
        ELSE userTable[i]]

db_update_user_token(user, token) == Written(userTable, Updated(user, "token", token))

db_change_password(user, pwd) == Written(userTable, Updated(user, "password", pwd))

\* db_get_user_ctx leaves the token and the permission as they are.
db_get_user_ctx(user, ctx) ==
    [ctx EXCEPT !.id = RowOf(user), !.gid = userTable[RowOf(user)].gid]

\* A table without an administrator gets the one of the factory.
db_set_default_admin_info(table) ==
    IF \E i \in DOMAIN table : table[i].username = "admin" THEN {table}
    ELSE db_register(table, "admin", 0, "123456")

\* The tables that are not there yet are created, and what they hold is kept.
init_db(table) == db_set_default_admin_info(table)

(***************************************************************************)
(* The functions of users                                                  *)
(***************************************************************************)
\* Where a field of the body is absent the pointer to it is not initialised:
\* the function finds NULL there, or faults.
Missing == {Outcome("error"), Outcome("fault")}

\* group 0 is the administrators'.
Granted(gid) == IF gid = 0 THEN PERMISSION_ADMIN ELSE PERMISSION_READ

\* A digest of the name, the time and random characters: another one each time.
generate_token == logins + 1

wtsl_core_user_get_context == managerCtx

NoUpdate_wtsl_core_user_login(b) ==
    LET user == db_get_user_ctx(b.username, [managerCtx EXCEPT !.token = generate_token])
        ctx  == [user EXCEPT !.permission = Granted(user.gid)]
    IN  IF Absent \in {b.username, b.password} THEN Missing
        ELSE IF ~db_check_password(b.username, b.password) THEN {Outcome("error")}
        ELSE {[Outcome("ok") EXCEPT !.manager = ctx, !.login = TRUE]}

wtsl_core_user_login(b) ==
    LET user == db_get_user_ctx(b.username, [managerCtx EXCEPT !.token = generate_token])
        ctx  == [user EXCEPT !.permission = Granted(user.gid)]
    IN  IF Absent \in {b.username, b.password} THEN Missing
        ELSE IF ~db_check_password(b.username, b.password) THEN {Outcome("error")}
        ELSE {[Outcome("ok") EXCEPT !.users = t, !.manager = ctx, !.login = TRUE,
                                    !.unsaved = (t = userTable)] :
                  t \in db_update_user_token(b.username, ctx.token)}

\* db_get_register_resp finds no fault in a row that is not there.
wtsl_core_user_register(b) ==
    IF Absent \in {b.username, b.password} THEN Missing
    ELSE IF db_user_exists(b.username) THEN {Outcome("error")}
    ELSE {[Outcome("ok") EXCEPT !.users = t] :
              t \in db_register(userTable, b.username, 1000, b.password)}

wtsl_core_user_change_pwd(b) ==
    IF Absent \in {b.username, b.password} THEN Missing
    ELSE IF ~db_check_password(b.username, b.password) THEN {Outcome("error")}
    ELSE IF b.newpassword = Absent THEN {Outcome("fault")}
    ELSE {[Outcome("ok") EXCEPT !.users = t] :
              t \in db_change_password(b.username, b.newpassword)}

\* The handlers of the routes that are there in name only.
Unimplemented == {Outcome("error")}

\* g_route_table
wtsl_core_user_get_routeitem(func, b) ==
    CASE func = "login" -> wtsl_core_user_login(b)
      [] func = "register" -> wtsl_core_user_register(b)
      [] func = "change_pwd" -> wtsl_core_user_change_pwd(b)
      [] OTHER -> Unimplemented

\* The context that node requests are checked against is taken over here, before
\* the handler runs: a login shows with the next request about users, whatever it is.
wtsl_core_post_users_functions(r) ==
    LET outcomes == IF r.json THEN wtsl_core_user_get_routeitem(r.url[4], r.body)
                    ELSE {Outcome("error")}
    IN  {[o EXCEPT !.api = wtsl_core_user_get_context] : o \in outcomes}

(***************************************************************************)
(* Calls of request_handler                                                *)
(***************************************************************************)
Idle == [phase |-> "idle"]

\* Bound: no more than MaxLogins logins are asked for.
LoginsLeft ==
    Cardinality({c \in Connections : /\ connection[c].phase = "open"
                                     /\ "login" \in Range(connection[c].request.url)})
    + logins < MaxLogins

\* The first call for a request allocates the data the others keep.  Without
\* memory for it, it answers with an error and the request is over.
init_request_data(c) ==
    /\ connection[c].phase = "idle"
    /\ \E r \in Requests :
          /\ "login" \in Range(r.url) => LoginsLeft
          /\ connection' = [connection EXCEPT ![c] =
                [phase |-> "open", request |-> r, size |-> 0, complete |-> FALSE]]
    /\ UNCHANGED <<alive, nodeRows, userTable, managerCtx, apiCtx, logins, unsaved,
                   earned, executed>>

PastTheEnd_Complete(length, size) == length > 0 /\ size > length

Complete(length, size) == length > 0 /\ size >= length

\* A piece of the body of a POST; libmicrohttpd calls with what has arrived.
Upload(c) ==
    /\ connection[c].phase = "open"
    /\ connection[c].request.method = "POST"
    /\ \E n \in 1..(connection[c].request.pieces - connection[c].size) :
          connection' = [connection EXCEPT
              ![c].size = @ + n,
              ![c].complete = Complete(connection[c].request.length,
                                       connection[c].size + n)]
    /\ UNCHANGED <<alive, nodeRows, userTable, managerCtx, apiCtx, logins, unsaved,
                   earned, executed>>

Anonymous == {<<"user", "register">>, <<"user", "login">>, <<"user", "change_pwd">>}

\* Refused without an answer: MHD_NO closes the connection.
Refused(r) ==
    /\ ~r.auth
    /\ \/ r.method = "GET"
       \/ r.method = "POST" /\ SubSeq(r.url, 3, Len(r.url)) \notin Anonymous

wtcoreapi_parse_http_get_cmd(r) ==
    IF Len(r.url) >= 3 /\ r.url[3] = "nodes" THEN wtsl_core_get_nodes_functions(r)
    ELSE {Outcome("error")}      \* users: wtsl_core_get_users_functions

wtcoreapi_parse_http_post_cmd(r) ==
    IF Len(r.url) >= 3 /\ r.url[3] = "nodes" THEN wtsl_core_post_nodes_functions(r)
    ELSE IF Len(r.url) > 3 /\ r.url[3] = "user" THEN wtsl_core_post_users_functions(r)
    ELSE {Outcome("error")}

handle_options_request == {Outcome("ok")}

http_get_cmd(r) == wtcoreapi_parse_http_get_cmd(r)

\* The body is what has arrived.
wtsl_core_http_deal_post_data(r, size) ==
    wtcoreapi_parse_http_post_cmd([r EXCEPT !.pieces = size])

Outcomes(r, size) ==
    CASE r.method = "OPTIONS" -> handle_options_request
      [] r.method = "GET" -> http_get_cmd(r)
      [] r.method = "POST" -> wtsl_core_http_deal_post_data(r, size)
      [] OTHER -> {Outcome("error")}

\* The call after the last piece.  The request is over when it is answered, and
\* when MHD_NO closes its connection.  For a POST whose body is not complete,
\* which is one without Content-Length, the call returns MHD_YES and no answer.
Finish(c) ==
    LET r == connection[c].request IN
    /\ connection[c].phase = "open"
    /\ r.method = "POST" => connection[c].size = r.pieces
    /\ \/ /\ r.method = "POST" /\ ~connection[c].complete
          /\ connection' = [connection EXCEPT ![c] = [phase |-> "silent"]]
          /\ UNCHANGED <<alive, userTable, managerCtx, apiCtx, logins, unsaved,
                          earned, executed>>
       \/ /\ r.method = "POST" => connection[c].complete
          /\ Refused(r)
          /\ connection' = [connection EXCEPT ![c] = Idle]
          /\ UNCHANGED <<alive, userTable, managerCtx, apiCtx, logins, unsaved,
                          earned, executed>>
       \/ /\ r.method = "POST" => connection[c].complete
          /\ ~Refused(r)
          /\ \E o \in Outcomes(r, connection[c].size) :
                /\ userTable' = o.users
                /\ managerCtx' = o.manager
                /\ apiCtx' = o.api
                /\ executed' = o.run
                /\ logins' = IF o.login THEN logins + 1 ELSE logins
                /\ unsaved' = o.unsaved
                /\ earned' = IF o.login THEN earned \cup {o.manager.permission}
                             ELSE earned
                /\ alive' = (o.answer # "fault")
                /\ connection' = [connection EXCEPT ![c] = Idle]
    /\ UNCHANGED nodeRows

request_handler(c) == init_request_data(c) \/ Upload(c) \/ Finish(c)

\* The client of a connection that gets no answer gives up.
GivesUp(c) ==
    /\ connection[c].phase = "silent"
    /\ connection' = [connection EXCEPT ![c] = Idle]
    /\ UNCHANGED <<alive, nodeRows, userTable, managerCtx, apiCtx, logins, unsaved,
                   earned, executed>>

\* Threads started after the web server list the node, and then its peers.
NodeListed ==
    /\ nodeRows < 2
    /\ nodeRows' = nodeRows + 1
    /\ UNCHANGED <<alive, connection, userTable, managerCtx, apiCtx, logins, unsaved,
                   earned, executed>>

\* The program is started again: the table of users is all that is left.
StartAgain ==
    /\ ~alive
    /\ alive' = TRUE
    /\ connection' = [c \in Connections |-> Idle]
    /\ nodeRows' = 0
    /\ userTable' \in init_db(userTable)
    /\ managerCtx' = NoContext
    /\ apiCtx' = NoContext
    /\ earned' = {}
    /\ executed' = [func |-> "none", pieces |-> 0, needs |-> {}]
    /\ UNCHANGED <<logins, unsaved>>

SessionInit ==
    /\ alive = TRUE
    /\ connection = [c \in Connections |-> Idle]
    /\ nodeRows = 0
    /\ userTable \in init_db(<<>>)
    /\ managerCtx = NoContext
    /\ apiCtx = NoContext
    /\ logins = 0
    /\ unsaved = FALSE
    /\ earned = {}
    /\ executed = [func |-> "none", pieces |-> 0, needs |-> {}]

SessionNext ==
    \/ alive /\ \E c \in Connections : request_handler(c) \/ GivesUp(c)
    \/ alive /\ NodeListed
    \/ StartAgain

SessionSpec == SessionInit /\ [][SessionNext]_sessionVars

\* libmicrohttpd serves every connection that has something to handle.
SessionFairness ==
    \A c \in Connections : WF_sessionVars(alive /\ (Upload(c) \/ Finish(c)))

(***************************************************************************)
(* Properties                                                              *)
(***************************************************************************)
SessionTypeOK ==
    /\ alive \in BOOLEAN
    /\ \A c \in Connections :
          \/ connection[c].phase \in {"idle", "silent"}
          \/ /\ connection[c].phase = "open"
             /\ connection[c].request \in Requests
             /\ connection[c].size \in 0..connection[c].request.pieces
             /\ connection[c].complete \in BOOLEAN
    /\ nodeRows \in 0..2
    /\ \A ctx \in {managerCtx, apiCtx} :
          /\ ctx.id \in 0..Len(userTable)
          /\ ctx.token \in 0..logins
          /\ ctx.permission \in {{}, PERMISSION_READ, PERMISSION_ADMIN}
    /\ logins \in 0..MaxLogins /\ unsaved \in BOOLEAN
    /\ earned \subseteq {PERMISSION_READ, PERMISSION_ADMIN}

\* A function of a node runs only where a login since the start of the program
\* has granted all the permission it needs, although the context it is checked
\* against (interface_wrapper) is the one left by whichever connection last asked
\* for something about users.  That is all there is: the token of the request is not
\* looked at, where docs/wtsl_restful_api.md:18 promises a 401 for a wrong one, and
\* the functions of qos and acl need a login like the others, where
\* docs/ACL_QOS_API_GUIDE.md:59 says that none is needed.
PermissionEarned ==
    executed.func # "none" => \E p \in earned : executed.needs \subseteq p

\* Whatever order registrations, logins and changes of password come in, on
\* however many connections, and whichever of their INSERTs and UPDATEs fail, a name
\* has one row, nobody but admin is of group 0, and the token of the last login is
\* the one in the row of its user, unless its own UPDATE failed: the table has no
\* UNIQUE on the name, and login updates by name what it selected by name.
UsersConsistent ==
    /\ \A i, j \in DOMAIN userTable :
          userTable[i].username = userTable[j].username => i = j
    /\ \A i \in DOMAIN userTable : userTable[i].gid = 0 => userTable[i].username = "admin"
    /\ managerCtx.id # 0 /\ ~unsaved
          => userTable[managerCtx.id].token = managerCtx.token

\* A request that announces the length of its body is answered, or its connection
\* closed, however the body is cut into pieces and whatever the other connections
\* do meanwhile, unless the program faults.
RequestsAnswered ==
    \A c \in Connections :
        /\ connection[c].phase = "open"
        /\ connection[c].request.method = "POST" => connection[c].request.length > 0
        ~> connection[c].phase = "idle" \/ ~alive
=============================================================================
