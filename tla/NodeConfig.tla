----------------------------- MODULE NodeConfig -----------------------------
(***************************************************************************)
(* The configuration of a node: in memory (global_node_info), in the       *)
(* driver, in the file env_config and in the node's own row of the node    *)
(* list; and the threads that change it: main, which boots, the HTTP       *)
(* server's, which serves one request after the other, and the watcher.    *)
(* The functions they run are in NodeApi.                                  *)
(*                                                                         *)
(* A command may fail, the device may lose power or be rebooted at any     *)
(* step, and the driver may leave its channel by itself.  config_set is    *)
(* one step: module ConfigStore shows that it is atomic.                   *)
(***************************************************************************)
EXTENDS NodeApi

CONSTANTS
  Bodies,   \* Bodies[a]: the bodies of requests to the API a
  Networks, \* channel, bw and tfc_bw of the networks a T node may join
  Drift,    \* the channels the driver may move to by itself
  Budgets,  \* bounds: the APIs called, and how many requests, faults,
            \* crashes and own moves of the driver there are
  Absent    \* no such key in the file

VARIABLES
  mem,       \* global_node_info.node_info
  seen,      \* where the values come from that are only displayed
  drv, up,   \* the driver's parameters; vap0 is up
  file,      \* env_config
  row,       \* basic_info in the node's row of the list, or NoRow
  lock,      \* the thread that holds global_node_info.mutex
  job,       \* what each thread runs
  answer,    \* the last answer of the HTTP server
  rebooting, \* system("reboot") was called
  budget,    \* what is left
  events,    \* what there was of faults, crashes, reboots, own moves of the driver,
             \* and bandwidths asked for that do not fit each other
  kept       \* what the last request that succeeded has asked for and saved

vars == <<mem, seen, drv, up, file, row, lock, job, answer, rebooting, budget,
          events, kept>>

Thread == {"main", "http", "watcher"}

\* basic_info, the part that is copied to the row.
Basic == {"type", "channel", "bw", "tfc_bw", "name", "ip", "aifh_enable",
          "log_port", "net_manage_ip", "auto_join", "mac"}

NoRow == <<>>

Key == {"BW", "TFC_BW", "CHANNEL", "TYPE", "CELL_ID", "LOG_PORT", "IP", "NAME",
        "NET_MANAGE_IP", "CC_SPOS", "CP_TYPE", "SYMBOL_CFG", "SYMBOL_TYPE",
        "SYSMSG_PERIOD", "S_CFG_IDX", "SEC_EXCH_CAP", "RANGE_OPT", "TX_POWER",
        "ACS_ENABLE", "FISA_ENABLE", "AUTO_JOIN_NET", "AIFH_ENABLE"}

\* The routes of wtsl_core_get_nodes_functions.
GetApi == [
  nodes         |-> wtsl_core_get_all_nodes_info,
  basicinfo     |-> wtsl_core_get_node_basicinfo,
  advinfo       |-> wtsl_core_get_node_advinfo,
  conninfo      |-> wtsl_core_get_node_conninfo,
  scan          |-> wtsl_core_start_scan,
  show_bss_info |-> wtsl_core_show_bss,
  resourcesinfo |-> wtsl_core_get_hw_resources_usage]

\* The routes of wtsl_core_post_nodes_functions, without those of other modules.
PostApi == [
  set_basicinfo   |-> wtsl_core_set_node_basicinfo,
  set_advinfo     |-> wtsl_core_set_node_advinfo,
  connect         |-> wtsl_core_do_connect,
  autojoinNetwork |-> wtsl_core_auto_join_net,
  timesync        |-> wtsl_core_do_time_sync,
  reboot          |-> wtsl_core_do_reboot,
  disconnect      |-> wtsl_core_do_disconnect,
  restore         |-> wtsl_core_do_restore,
  traffic         |-> wtsl_core_get_node_traffic,
  aifh            |-> wtsl_core_do_aifh,
  chswitch        |-> wtsl_core_do_chswitch,
  secalg          |-> wtsl_core_get_secalg,
  adaptivemcs     |-> wtsl_core_set_adaptivemcs,
  clearschmcs     |-> wtsl_core_do_clearschmcs,
  adaptivemcsinfo |-> wtsl_core_get_adaptivemcsinfo,
  mcsboundinfo    |-> wtsl_core_get_mcsboundinfo,
  mcsbound        |-> wtsl_core_set_mcsbound,
  throughput      |-> wtsl_core_do_throughput,
  shortrange      |-> wtsl_core_do_shortrange,
  remoterange     |-> wtsl_core_do_remoterange,
  lowlatency      |-> wtsl_core_do_lowlatency,
  lowpow          |-> wtsl_core_do_lowpow,
  traceinfo       |-> wtsl_core_get_traceinfo]

Program ==
  Over(Over(GetApi, PostApi),
       [boot |-> wtsl_core_main, pass |-> wtsl_core_splink_state_watcher])

\* Requests are for APIs that exist; the fields they set are numbers.
ASSUME RequestAssumption ==
  /\ DOMAIN Bodies \subseteq DOMAIN GetApi \cup DOMAIN PostApi
  /\ \A a \in DOMAIN Bodies : \A b \in Bodies[a] :
       \A p \in DOMAIN b \cap Params : b[p] \in Int

\* So are the parameters that the driver takes over from others.
ASSUME RadioAssumption ==
  /\ \A n \in Networks : DOMAIN n \subseteq Radio /\ \A p \in DOMAIN n : n[p] \in Int
  /\ Drift \subseteq Int

ASSUME AbsentAssumption == Absent \notin Int

ASSUME BudgetAssumption ==
  Budgets \subseteq [apis : SUBSET DOMAIN Bodies, requests : Nat, faults : Nat,
                    crashes : Nat, moves : Nat]

Job(prog, body) ==
  [prog |-> prog, at |-> 1, body |-> body, local |-> <<>>, data |-> "none"]

Idle == Job("idle", <<>>)

Booting == [main |-> Job("boot", <<>>), http |-> Idle, watcher |-> Idle]

\* Before param_default: static memory is 0.
Volatile(m, s, d, u, r, l, j, a, rb) ==
  /\ m = [p \in Params |-> 0] /\ s = [x \in Observed |-> "unset"]
  /\ d = [p \in Radio |-> 0] /\ u = FALSE
  /\ r = NoRow /\ l = "none" /\ j = Booting
  /\ a = [api |-> "none", ok |-> FALSE, data |-> "none", body |-> <<>>]
  /\ rb = FALSE

Init ==
  /\ Volatile(mem, seen, drv, up, row, lock, job, answer, rebooting)
  /\ file = [k \in Key |-> Absent]
  /\ budget \in Budgets
  /\ events = {} /\ kept = <<>>

-----------------------------------------------------------------------------
(***************************************************************************)
(* Steps of a thread                                                       *)
(***************************************************************************)
Running == job["main"].prog = "done"

\* The thread is at a step with one of the operations ops.
At(self, ops) ==
  /\ job[self].prog \in DOMAIN Program
  /\ job[self].at <= Len(Program[job[self].prog])
  /\ Program[job[self].prog][job[self].at].op \in ops

Now(self) == Program[job[self].prog][job[self].at]

\* The values a function passes on: literals, its local variables, the structure.
Arg(self, p) ==
  IF p \in DOMAIN Now(self).lits THEN Now(self).lits[p]
  ELSE IF p \in DOMAIN job[self].local THEN job[self].local[p] ELSE mem[p]

Args(self) == [p \in Params \cup DOMAIN job[self].local |-> Arg(self, p)]

Continue(self) == job' = [job EXCEPT ![self].at = @ + 1]

ContinueWith(self, x, v) ==
  job' = [job EXCEPT ![self].at = @ + 1, ![self].local = Over(Value(x, v), @)]

\* return NULL; only handlers do.
Refuse(self) ==
  /\ answer' = [api |-> job[self].prog, ok |-> FALSE, data |-> "none",
                body |-> job[self].body]
  /\ job' = [job EXCEPT ![self] = Idle]

Fault ==
  /\ budget.faults > 0
  /\ budget' = [budget EXCEPT !.faults = @ - 1]
  /\ events' = events \cup {"fault"}

NoFault == UNCHANGED <<budget, events>>

Noting(misfit) ==
  UNCHANGED budget /\ events' = events \cup (IF misfit THEN {"misfit"} ELSE {})

storage == <<drv, up, file>>
rest == <<rebooting, kept>>

\* A setter: refused, done, or failed in the driver (s is what SetterNamed says of
\* it, for the values passed on).
SetParameter(self) ==
  /\ At(self, {"set", "must", "adopt"})
  /\ LET st == Now(self)
         failed == IF st.op = "must" THEN Refuse(self)
                                     ELSE Continue(self) /\ UNCHANGED answer
     IN \E s \in {SetterNamed(st.arg, Args(self))} :
        \/ /\ ~s.valid /\ failed /\ NoFault
           /\ UNCHANGED <<mem, drv, up>>
        \/ /\ s.valid /\ NoFault
           /\ drv' = Over(s.writes, drv)
           /\ up' = (s.up \/ (up /\ ~s.down))
           /\ mem' = IF st.op = "adopt" THEN Over(st.lits, mem) ELSE mem
           /\ Continue(self) /\ UNCHANGED answer
        \/ /\ s.valid /\ Fault /\ failed
           /\ up' = (up /\ ~s.down)
           /\ UNCHANGED <<mem, drv>>
  /\ UNCHANGED <<seen, file, row, lock, rest>>

\* A getter that writes what it returns to the structure.
GetParameter(self) ==
  /\ At(self, {"get"})
  /\ LET g == GetterNamed(Now(self).arg, drv)
         Store(v) == /\ mem'  = [p \in Params |-> IF p \in DOMAIN v THEN v[p] ELSE mem[p]]
                     /\ seen' = [x \in Observed |-> IF x \in DOMAIN v THEN v[x] ELSE seen[x]]
     IN \/ Store(g.value) /\ NoFault
        \/ /\ Fault
           /\ \/ g.errors = {} /\ UNCHANGED <<mem, seen>>
              \/ \E e \in g.errors : Store([p \in DOMAIN g.value |-> e])
  /\ Continue(self)
  /\ UNCHANGED <<storage, row, lock, answer, rest>>

\* The bandwidth p that the driver has when the structure's is passed on to it.
Given(p) == IF mem[p] \in Bandwidths THEN mem[p] ELSE drv[p]

\* A getter that writes to a local variable.  The one of the bandwidth begins to
\* set both; nothing compares them with each other.
QueryParameter(self) ==
  /\ At(self, {"query"})
  /\ LET st == Now(self)
         g  == GetterNamed(st.arg, drv)
     IN \/ /\ ContinueWith(self, st.name[2], g.value[st.name[1]])
           /\ Noting(st.arg = "slb_get_bw" /\ Given("tfc_bw") > Given("bw"))
        \/ Fault /\ \E e \in g.errors : ContinueWith(self, st.name[2], e)
  /\ UNCHANGED <<mem, seen, storage, row, lock, answer, rest>>

\* Memory and local variables.
Compute(self) ==
  /\ At(self, {"take", "copy", "assign", "default", "clear"})
  /\ LET st   == Now(self)
         body == job[self].body
     IN \/ /\ st.op = "take"
           /\ mem' = IF st.arg \in DOMAIN body
                     THEN [mem EXCEPT ![st.arg] = body[st.arg]] ELSE mem
           /\ Continue(self)
        \/ st.op = "copy" /\ ContinueWith(self, st.arg, mem[st.arg]) /\ UNCHANGED mem
        \/ /\ st.op = "assign"
           /\ mem' = [mem EXCEPT ![st.arg] = job[self].local[st.name]]
           /\ Continue(self)
        \/ st.op = "default" /\ mem' = Over(st.lits, mem) /\ Continue(self)
        \/ st.op = "clear" /\ mem' = [mem EXCEPT ![st.arg] = 0] /\ Continue(self)
  /\ UNCHANGED <<seen, storage, row, lock, answer, rest, budget, events>>

\* config_get_int looks at its own uninitialised buffer before it opens the
\* file, and may refuse it; config_get of a text looks at the caller's.
Text == {"name", "ip", "net_manage_ip"}

NoTest_config_get(self) ==
  /\ At(self, {"read"})
  /\ mem' = [mem EXCEPT ![Now(self).name] = file[Now(self).arg]]
  /\ Continue(self) /\ NoFault
  /\ UNCHANGED <<seen, storage, row, lock, answer, rest>>

config_get(self) ==
  /\ At(self, {"read"})
  /\ LET st == Now(self)
     IN \/ /\ mem' = IF file[st.arg] = Absent THEN mem
                     ELSE [mem EXCEPT ![st.name] = file[st.arg]]
           /\ NoFault
        \/ st.name \notin Text /\ Fault /\ UNCHANGED mem
  /\ Continue(self)
  /\ UNCHANGED <<seen, storage, row, lock, answer, rest>>

\* A failure is not reported to anybody.
config_set(self) ==
  /\ At(self, {"save"})
  /\ \/ file' = [file EXCEPT ![Now(self).arg] = Arg(self, Now(self).name)] /\ NoFault
     \/ Fault /\ UNCHANGED file
  /\ Continue(self)
  /\ UNCHANGED <<mem, seen, drv, up, row, lock, answer, rest>>

\* rm env_config; there may be no such file.
RemoveFile(self) ==
  /\ At(self, {"remove"})
  /\ \/ /\ \E k \in Key : file[k] # Absent
        /\ file' = [k \in Key |-> Absent]
        /\ Continue(self) /\ NoFault /\ UNCHANGED answer
     \/ /\ \A k \in Key : file[k] = Absent
        /\ Refuse(self) /\ NoFault /\ UNCHANGED file
     \/ Fault /\ Refuse(self) /\ UNCHANGED file
  /\ UNCHANGED <<mem, seen, drv, up, row, lock, rest>>

slb_ifconfig(self) ==
  /\ At(self, {"ifconfig"})
  /\ \/ up' = Now(self).arg /\ NoFault
     \/ Fault /\ UNCHANGED up
  /\ Continue(self)
  /\ UNCHANGED <<mem, seen, drv, file, row, lock, answer, rest>>

Fits(d) == {d.bw, d.tfc_bw} \subseteq Bandwidths /\ d.tfc_bw <= d.bw

\* The driver leaves its network for the one chosen, and has its parameters.
slb_t_node_start_join(self) ==
  /\ At(self, {"join"})
  /\ \/ /\ \E n \in Networks : drv' = Over(n, drv)
        /\ ContinueWith(self, "ret", 0) /\ Noting(~Fits(drv'))
     \/ Fault /\ ContinueWith(self, "ret", -1) /\ UNCHANGED drv
  /\ UNCHANGED <<mem, seen, up, file, row, lock, answer, rest>>

\* What may end a request with NULL and changes nothing else.
Fails(self) ==
  CASE Now(self).op = "parse"  -> "malformed" \in DOMAIN job[self].body
    [] Now(self).op = "joined" -> job[self].local["ret"] # 0
    [] Now(self).op = "null"   -> TRUE
    [] OTHER -> FALSE

TestResult(self) ==
  /\ At(self, {"parse", "joined", "null", "ask", "popen"})
  /\ \/ Fails(self) /\ Refuse(self) /\ NoFault
     \/ ~Fails(self) /\ Continue(self) /\ NoFault /\ UNCHANGED answer
     \/ At(self, {"ask", "popen"}) /\ Fault /\ Refuse(self)
  /\ UNCHANGED <<mem, seen, storage, row, lock, rest>>

\* Commands whose result goes to the answer, or nowhere.
RunCommand(self) ==
  /\ At(self, {"show", "tell"})
  /\ \/ /\ job' = [job EXCEPT ![self].at = @ + 1,
                              ![self].data = IF At(self, {"show"}) THEN "read" ELSE @]
        /\ NoFault
     \/ /\ At(self, {"show"}) /\ Fault
        /\ job' = [job EXCEPT ![self].at = @ + 1, ![self].data = "empty"]
  /\ UNCHANGED <<mem, seen, storage, row, lock, answer, rest>>

Reboots(self) ==
  /\ At(self, {"reboot"})
  /\ \/ rebooting' = TRUE /\ NoFault
     \/ Fault /\ UNCHANGED rebooting
  /\ Continue(self)
  /\ UNCHANGED <<mem, seen, storage, row, lock, answer, kept>>

\* The conditions of the code.
Traces == {"vip", "throughput", "delay", "drop", "mcs", "user_access"}

Feature(body) == IF "feature" \in DOMAIN body THEN body.feature ELSE "none"

RoleInFile == IF file["TYPE"] = Absent THEN TypeT ELSE file["TYPE"]

Holds(self, g) ==
  LET v == Args(self) IN
  CASE g = "G"                   -> v.type = TypeG
    [] g = "T"                   -> v.type = TypeT
    [] g = "bw grows"            -> v.bw >= v.bw_now
    [] g = "bw shrinks"          -> v.bw < v.bw_now
    [] g = "role differs"        -> v.type # RoleInFile
    [] g = "tmp_channel # 0"     -> v.tmp_channel # 0
    [] g = "channel moved"       -> v.tmp_channel # 0 /\ v.tmp_channel # v.channel
    [] g = "aifh_enable illegal" -> v.aifh_enable \notin 0..1
    [] g = "channel illegal"     -> v.channel \notin Channels
    [] g = "time illegal"        -> job[self].body.time = 0
    [] g \in Traces              -> Feature(job[self].body) = g
    [] g = "no feature"          -> Feature(job[self].body) \notin Traces

\* When config_get_int refuses its buffer the role compared is uninitialised.
Branch(self) ==
  /\ At(self, {"if"})
  /\ LET st == Now(self)
         Goto(taken) == job' = [job EXCEPT ![self].at =
                                  @ + 1 + (IF taken THEN 0 ELSE st.name)]
     IN \/ Goto(Holds(self, st.arg)) /\ NoFault
        \/ st.arg = "role differs" /\ Fault /\ \E b \in BOOLEAN : Goto(b)
  /\ UNCHANGED <<mem, seen, storage, row, lock, answer, rest>>

Mutex(self) ==
  /\ At(self, {"lock", "unlock"})
  /\ \/ At(self, {"lock"}) /\ lock = "none" /\ lock' = self
     \/ At(self, {"unlock"}) /\ lock' = "none"
  /\ Continue(self)
  /\ UNCHANGED <<mem, seen, storage, row, answer, rest, budget, events>>

BasicOf(m) == [p \in Basic |-> m[p]]

update_wtsl_node_basicinfo(self) ==
  /\ At(self, {"row"})
  /\ row' = IF row = NoRow THEN row ELSE BasicOf(mem)
  /\ Continue(self)
  /\ UNCHANGED <<mem, seen, storage, lock, answer, rest, budget, events>>

\* What a function takes from the request and saves in the file.  The channel
\* counts only where the mutex is held: otherwise the watcher may save the one it
\* has read before.  What the API aifh saves, under a key of its own, is among the
\* Forgotten below.
SavedBy(prog) ==
  LET Steps(op) == {i \in DOMAIN Program[prog] : Program[prog][i].op = op}
  IN ({Program[prog][i].name : i \in Steps("save")}
       \cap {Program[prog][i].arg : i \in Steps("take")})
     \ ((IF Steps("lock") = {} THEN {"channel"} ELSE {})
          \cup (IF prog = "aifh" THEN {"aifh_enable"} ELSE {}))

\* The end of a function: the boot, a pass of the watcher, or an answer.
Return(self) ==
  /\ job[self].prog \in DOMAIN Program
  /\ job[self].at > Len(Program[job[self].prog])
  /\ LET j == job[self] IN
       \/ /\ self = "main"
          /\ job' = [job EXCEPT ![self] = Job("done", <<>>)]
          /\ UNCHANGED <<answer, kept>>
       \/ /\ self = "watcher"
          /\ job' = [job EXCEPT ![self] = Idle]
          /\ UNCHANGED <<answer, kept>>
       \/ /\ self = "http"
          /\ job' = [job EXCEPT ![self] = Idle]
          /\ answer' = [api |-> j.prog, ok |-> TRUE, data |-> j.data, body |-> j.body]
          /\ kept' = [p \in SavedBy(j.prog) \cap DOMAIN j.body |-> j.body[p]]
  /\ UNCHANGED <<mem, seen, storage, row, lock, rebooting, budget, events>>

Step(self) ==
  \/ SetParameter(self) \/ GetParameter(self) \/ QueryParameter(self)
  \/ Compute(self) \/ config_get(self) \/ config_set(self) \/ RemoveFile(self)
  \/ slb_ifconfig(self) \/ slb_t_node_start_join(self) \/ TestResult(self)
  \/ RunCommand(self) \/ Reboots(self) \/ Branch(self) \/ Mutex(self)
  \/ update_wtsl_node_basicinfo(self) \/ Return(self)

-----------------------------------------------------------------------------
\* A request for the node itself.  Before the list is there the router finds
\* no node.
Request ==
  /\ Running /\ job["http"].prog = "idle"
  /\ budget.requests > 0
  /\ budget' = [budget EXCEPT !.requests = @ - 1]
  /\ \E a \in budget.apis : \E b \in Bodies[a] :
       IF row = NoRow
       THEN /\ answer' = [api |-> a, ok |-> FALSE, data |-> "none", body |-> b]
            /\ UNCHANGED <<job, kept>>
       ELSE /\ job' = [job EXCEPT !["http"] = Job(a, b)]
            /\ kept' = <<>> /\ UNCHANGED answer
  /\ UNCHANGED <<mem, seen, storage, row, lock, rebooting, events>>

\* The next pass of the watcher, 500 ms after the last.
WatcherWakes ==
  /\ Running /\ job["watcher"].prog = "idle"
  /\ job' = [job EXCEPT !["watcher"] = Job("pass", <<>>)]
  /\ UNCHANGED <<mem, seen, storage, row, lock, answer, rest, budget, events>>

\* The start of wtsl_core_splink_node_service: the list and the node's row.
wtsl_core_splink_node_service ==
  /\ Running /\ row = NoRow /\ lock = "none"
  /\ mem' = [mem EXCEPT !.type = IF mem.node_type = TypeG THEN TypeG ELSE TypeT]
  /\ row' = BasicOf(mem')
  /\ UNCHANGED <<seen, storage, lock, job, answer, rest, budget, events>>

\* An access point that changes its channel takes its nodes along.
DriverMoves ==
  /\ Running /\ budget.moves > 0
  /\ budget' = [budget EXCEPT !.moves = @ - 1] /\ events' = events \cup {"move"}
  /\ \E c \in Drift : drv' = [drv EXCEPT !.channel = c]
  /\ UNCHANGED <<mem, seen, up, file, row, lock, job, answer, rest>>

\* The reboot that was asked for, at whatever step the threads are, or a crash.
Restart ==
  /\ \/ rebooting /\ UNCHANGED budget /\ events' = events \cup {"reboot"}
     \/ /\ ~rebooting /\ budget.crashes > 0
        /\ budget' = [budget EXCEPT !.crashes = @ - 1] /\ events' = events \cup {"crash"}
  /\ Volatile(mem', seen', drv', up', row', lock', job', answer', rebooting')
  /\ UNCHANGED <<file, kept>>

Next ==
  \/ \E self \in Thread : Step(self)
  \/ Request \/ WatcherWakes \/ wtsl_core_splink_node_service
  \/ DriverMoves \/ Restart

\* Every thread runs, and the service that starts gets the mutex in the pauses of
\* the watcher; a reboot that was asked for comes.  Nobody has to send requests,
\* and nothing has to fail.
Fairness ==
  /\ \A self \in Thread : WF_vars(Step(self))
  /\ WF_vars(WatcherWakes)
  /\ SF_vars(wtsl_core_splink_node_service)
  /\ WF_vars(rebooting /\ Restart)

Spec == Init /\ [][Next]_vars /\ Fairness

-----------------------------------------------------------------------------
(***************************************************************************)
(* Properties                                                              *)
(***************************************************************************)
JobOK(j) ==
  /\ j.prog \in DOMAIN Program \cup {"idle", "done"}
  /\ j.at \in 1..(IF j.prog \in DOMAIN Program THEN Len(Program[j.prog]) + 1 ELSE 1)
  /\ j.data \in {"none", "read", "empty"}

\* Types of the variables: parameters are numbers, the file holds numbers or
\* nothing, the row is a copy of basic_info.
TypeOK ==
  /\ mem \in [Params -> Int] /\ drv \in [Radio -> Int]
  /\ seen \in [Observed -> {"unset", "read", "error"}]
  /\ up \in BOOLEAN /\ rebooting \in BOOLEAN /\ events \subseteq {"fault", "crash", "reboot", "move", "misfit"}
  /\ \A k \in Key : file[k] \in Int \cup {Absent}
  /\ row = NoRow \/ row \in [Basic -> Int]
  /\ lock \in Thread \cup {"none"}
  /\ \A t \in Thread : JobOK(job[t])

Quiet == Running /\ job["http"].prog = "idle"

\* Setters take vap0 down and leave it to their callers to bring it up again:
\* whatever the requests were, and however they ended, the interface is up
\* between requests, unless a command failed.
InterfaceRestored == "fault" \notin events /\ Quiet => up

\* The driver's traffic bandwidth is within its physical bandwidth at every
\* step, also while both are being changed, as long as every pair asked for fits.
\* A pair asked for is what a request names, and what the node keeps of what it
\* does not name: no handler compares them, and [bw: 20] to a node whose traffic
\* bandwidth is 40 is set as it is, with success.  (Not after a restart: a reboot
\* or a crash between the two keys saves one without the other.)
BandwidthFits == events = {} => drv.tfc_bw <= drv.bw

Legal == [channel |-> Channels, bw |-> Bandwidths, tfc_bw |-> Bandwidths,
          cell_id |-> 0..19]

\* When the parameters of a node have been set with success, the driver has
\* those among them that are legal: the watcher, which writes the driver's
\* channel back to the structure, cannot come in between.
SetNodeApplied ==
  events \cap {"fault", "move"} = {} /\ Quiet /\ answer.api = "set_basicinfo" /\ answer.ok =>
    \A p \in DOMAIN Legal \cap DOMAIN answer.body :
      answer.body[p] \in Legal[p] => drv[p] = answer.body[p]

\* What config_read reads under the key that the handlers save it under.
Durable == {"bw", "tfc_bw", "channel", "type", "cell_id", "log_port", "ip", "name",
            "net_manage_ip", "auto_join", "cc_offset", "cp_type",
            "sysmsg_period", "s_cfg_idx", "fisa_enable", "aifh_enable"}

\* What the handlers save under a key that config_read does not read: symbol_type
\* under SYMBOL_CFG, which is read from SYMBOL_TYPE; sec_exch_cap, range_opt and
\* power, which are not read at all; and aifh_enable, which the API aifh saves
\* under AIFH_ENABLE: it is read from ACS_ENABLE, which set_advinfo saves.
Forgotten ==
  {"symbol_type", "sec_exch_cap", "range_opt", "power"}
  \cup (IF file["ACS_ENABLE"] = Absent THEN {"aifh_enable"} ELSE {})

Factory == param_default[1].lits

\* The exceptions: a role that does not exist is read back as a T node's, and the
\* watcher saves the driver's channel where that is another one, because the driver
\* has refused the channel of the request or has moved since.
Lasts(p) ==
  CASE p = "type"    -> kept.type \in {TypeG, TypeT}
    [] p = "channel" -> kept.channel \in Channels /\ "move" \notin events
    [] OTHER         -> TRUE

\* After the next restart, by reboot or by power loss, the node runs with what a
\* request has changed with success and saved under a key that is read; and with
\* the values of param_default where the key is another one, whatever has been
\* acknowledged and saved (for range_opt, with whatever its memory held).
AcknowledgedSurvives ==
  "fault" \notin events /\ Quiet /\ row # NoRow /\ answer.api = "none" =>
    /\ \A p \in DOMAIN kept \cap Durable : Lasts(p) => mem[p] = kept[p]
    /\ \A p \in Forgotten : mem[p] = Factory[p]

\* The channel in memory, in the driver and in the row of the node come to
\* agree once the requests end, whatever they did and whatever failed, unless
\* the driver was never given a channel.  (The file may keep another one: the
\* channel switch and the watcher save it without excluding each other.)
ChannelAgrees ==
  <>[](/\ drv.channel # 0 => mem.channel = drv.channel
       /\ row # NoRow /\ row.channel = mem.channel)
=============================================================================
