----------------------------- MODULE MCServices -----------------------------
(***************************************************************************)
(* The services beside the link: requests and users, shaping and filter,   *)
(* the log, the heartbeat between G nodes and the two sides of the SLE     *)
(* bridge.                                                                 *)
(* None of them reads what another one writes, so each is explored on its  *)
(* own: a behaviour is one of the service that is active, and the others   *)
(* rest in their initial states.                                           *)
(***************************************************************************)
EXTENDS Sessions, Rules, Logs, McHeartbeat, SleTransport, SleRadio

CONSTANT Active     \* the services to explore

VARIABLE active

serviceVars == <<active, sessionVars, ruleVars, logVars, mcVars, transportVars, radioVars>>

(***************************************************************************)
(* Requests: of several kinds and lengths, with and without a body, for    *)
(* functions that need different permissions, and of users good and bad.   *)
(***************************************************************************)
Request(method, auth, length, pieces, url, id, user, password, new) ==
    [method |-> method, auth |-> auth, length |-> length, pieces |-> pieces,
     url |-> <<"api", "v1">> \o url, id |-> id, json |-> TRUE,
     body |-> [username |-> user, password |-> password, newpassword |-> new]]

Node(method, auth, length, url, id) ==
    Request(method, auth, length, length, <<"nodes">> \o url, id, Absent, Absent, Absent)

User(func, length, user, password, new) ==
    Request("POST", FALSE, length, length, <<"user", func>>, 0, user, password, new)

MCRequests ==
    {Node("GET", TRUE, 0, << >>, 0),
     Node("GET", FALSE, 0, <<"0", "basicinfo">>, 0),
     Node("POST", TRUE, 1, <<"0", "reboot">>, 0),
     Node("POST", TRUE, 1, <<"0", "firmware">>, 0),
     User("login", 2, "admin", "123456", Absent),
     User("login", 1, "guest", "new", Absent),
     User("register", 1, "guest", "new", Absent),
     User("register", 1, "guest", Absent, Absent),
     User("change_pwd", 1, "admin", "123456", "new"),
     Request("POST", TRUE, 0, 1, <<"nodes", "1", "connect">>, 1, Absent, Absent, Absent),
     Request("OPTIONS", FALSE, 0, 0, << >>, 0, Absent, Absent, Absent)}

(***************************************************************************)
(* Traffic control: two roots of one device, a class below one of them     *)
(* with two rates and a filter, and a root of another device               *)
(***************************************************************************)
TcObject(device, type, name, parent, args) ==
    [device |-> device, type |-> type, name |-> name, parent |-> parent, args |-> args]

MCTcObjects ==
    {TcObject("br0", "qdisc", "1", "none", ""), TcObject("br0", "qdisc", "2", "none", ""),
     TcObject("br0", "class", "1:1", "1", "slow"), TcObject("br0", "class", "1:1", "1", "fast"),
     TcObject("br0", "filter", "u32", "1", ""), TcObject("eth1", "qdisc", "1", "none", "")}

(***************************************************************************)
(* Specification                                                           *)
(***************************************************************************)
Init ==
    /\ active \in Active
    /\ SessionInit /\ RulesInit /\ LogInit /\ McInit /\ TransportInit /\ RadioInit
    \* one initial state of the services that rest
    /\ active # "sessions" => userTable # << >>
    /\ active # "logs" => today = CHOOSE n \in LogNames : TRUE
    /\ active # "logs" => logMode = "ALL" /\ serverAnswers
    /\ active # "heartbeat" => clock = 0
    /\ active # "radio" => radio.enable /\ radio.type = "G"

Next ==
    /\ UNCHANGED active
    /\ \/ /\ active = "sessions" /\ SessionNext
          /\ UNCHANGED <<ruleVars, logVars, mcVars, transportVars, radioVars>>
       \/ /\ \/ active = "shaping" /\ QosRequests
             \/ active = "filter" /\ AclRequests
             \/ active \in {"shaping", "filter"} /\ (RulesStart \/ RulesRestart)
          /\ UNCHANGED <<sessionVars, logVars, mcVars, transportVars, radioVars>>
       \/ /\ active = "logs" /\ LogNext
          /\ UNCHANGED <<sessionVars, ruleVars, mcVars, transportVars, radioVars>>
       \/ /\ active = "heartbeat" /\ McNext
          /\ UNCHANGED <<sessionVars, ruleVars, logVars, transportVars, radioVars>>
       \/ /\ active = "transport" /\ TransportNext
          /\ UNCHANGED <<sessionVars, ruleVars, logVars, mcVars, radioVars>>
       \/ /\ active = "radio" /\ RadioNext
          /\ UNCHANGED <<sessionVars, ruleVars, logVars, mcVars, transportVars>>

\* The fairness of the service that is active: SessionFairness, LogFairness and
\* TransportFairness, each for its turn.
In(service) == active = service

Fairness ==
    /\ \A c \in Connections :
          WF_sessionVars(In("sessions") /\ alive /\ (Upload(c) \/ Finish(c)))
    /\ WF_logVars(In("logs") /\ upload_and_clear_logs)
    /\ \A i \in Servers : WF_transportVars(In("transport") /\ UdpProgress(i))
    /\ WF_transportVars(In("transport") /\ RestartUdp)

Spec == Init /\ [][Next]_serviceVars

FairSpec == Spec /\ Fairness

\* The state of every service has its type.
ServicesTypeOK ==
    /\ SessionTypeOK
    /\ RulesTypeOK
    /\ LogTypeOK
    /\ McTypeOK
    /\ TransportTypeOK
    /\ RadioTypeOK
=============================================================================
