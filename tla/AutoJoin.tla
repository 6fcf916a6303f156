------------------------------ MODULE AutoJoin ------------------------------
(***************************************************************************)
(* The automatic re-association of a T node.  Five threads of the program  *)
(* share it:                                                               *)
(*   joiner     wtsl_core_splink_auto_join_net   (wtsl_core_splink_state.c)*)
(*   watcher    wtsl_core_splink_state_watcher, with get_view_users_info   *)
(*   http       the REST handlers that switch auto join, scan and connect  *)
(*   heartbeat  heartbeat_thread of the node service                       *)
(*   recv       recv_thread of the node service, for its log lines         *)
(* together with the radio driver, which is outside the repository.        *)
(*                                                                         *)
(* A thread's program counter names the statement it is about to execute.  *)
(* A step is one access to shared state or one lock operation; statements  *)
(* that touch only a thread's own data are folded into the step before.    *)
(* Writing a log line takes log_mutex and gives it back within the call, so*)
(* it is part of the step it belongs to, unless the thread is cancelled in *)
(* the call (fprintf and fflush are cancellation points) or finds that     *)
(* another one was.                                                        *)
(***************************************************************************)
EXTENDS Naturals

CONSTANTS
  AP,      \* MAC addresses of access points (G nodes)
  Reach,   \* the access points that answer a join
  None,    \* no association; an empty slot of auto_join_net_mac
  Torn,    \* an address read while another thread is copying over it
  Verbose, \* the logger's mode is ALL: INFO lines are written, not dropped
  Roles    \* what requests set the role to: T node is TRUE, G node FALSE

ASSUME APAssumption == /\ Reach \subseteq AP
                       /\ None \notin AP
                       /\ Torn \notin AP
                       /\ Torn # None
                       /\ Verbose \in BOOLEAN
                       /\ Roles \subseteq BOOLEAN

Slots == 0..2                    \* indices of auto_join_net_mac
Lock  == {"global", "flagM", "joinM", "log"}
Free  == "free"

VARIABLES
  run,     \* g_is_run
  station, \* basic_info.type = NODE_TYPE_SLB_T
  flag,    \* basic_info.auto_join_net_flag # 0
  link,    \* link_state = 1, as the watcher last stored it
  macs,    \* basic_info.auto_join_net_mac
  addMac,  \* the static add_mac of get_view_users_info
  idx,     \* the joiner's local idx
  poll,    \* the association reported by the running view_users command
  lock,    \* owner of each mutex
  pcJ, pcW, pcH, pcB,   \* program counters
  cancel,  \* pthread_cancel has been called on recv and heartbeat
  assoc,   \* the driver: the access point associated with, or None
  \* History variables, read by the properties only.
  window,  \* what changed since the joiner passed its last checks
  lost,    \* the access point of the last association the watcher saw
  moved,   \* that one took the place of another while the link stayed up
  fresh    \* the joiner has waited for a loss and not tried a join since

\* The variables by the thread that writes them; the role is kept with those of
\* the node service.
wVars == <<pcW, poll, link, macs, addMac, lost, moved>>
bVars == <<station, pcB, cancel>>
vars == <<run, station, flag, link, macs, addMac, idx, poll, lock, pcJ, pcW,
          pcH, pcB, cancel, assoc, window, lost, moved, fresh>>

(***************************************************************************)
(* States of the threads.                                                  *)
(***************************************************************************)
JoinerPC == {"top", "flock", "fchk", "fwait", "fwoke", "mlock", "lchk",
             "lwait", "lwoke", "recheck", "scan", "join", "done"}
Shifting == {"shift2", "shift1", "shift0"}
WatcherPC == {"top", "glock", "poll", "role", "sig", "ms", "end", "line", "done"}
             \cup Shifting
HttpPC == {"idle", "down", "scanning", "show"}
HeartbeatPC == {"top", "noaddr", "glock", "send", "line", "done"}

\* The joiner has passed its checks and will scan and issue a join.
Committed == {"scan", "join"}

\* Histories a previous run can have left in the configuration, if it was not
\* cut off between the three config_set calls that save one: filled from
\* the front, and never the same address twice in a row.
HistoryOK(m) == \A k \in {1, 2} : m[k] # None => m[k] # m[k-1] /\ m[k-1] # None

-----------------------------------------------------------------------------
Init ==
  /\ run = TRUE
  /\ station = TRUE
  /\ flag \in BOOLEAN
  /\ link = FALSE
  /\ macs \in {m \in [Slots -> AP \cup {None}] : HistoryOK(m)}
  /\ addMac = TRUE
  /\ idx = 0
  /\ poll = None
  /\ lock = [l \in Lock |-> Free]
  /\ pcJ = "top" /\ pcW = "top" /\ pcH = "idle" /\ pcB = "top"
  /\ cancel = FALSE
  /\ assoc = None
  /\ window = {}
  /\ lost = None
  /\ moved = FALSE
  /\ fresh = FALSE

Acquire(t, l) == lock[l] = Free /\ lock' = [lock EXCEPT ![l] = t]
Release(l) == lock' = [lock EXCEPT ![l] = Free]

\* wtsl_logger_log, by level: a line that is written needs log_mutex.
LogLine == lock["log"] = Free
LogInfo == Verbose => LogLine

\* A thread cancelled while it writes a line ends there and keeps log_mutex.  Any
\* other that comes to write one waits for ever, where the program counter "line"
\* stands for.
DiesInLine(t) == cancel /\ Acquire(t, "log")

\* What the properties remember of a change made under the joiner's feet.
Note(change) ==
  window' = IF pcJ \in {"recheck"} \cup Committed THEN window \cup {change} ELSE window

-----------------------------------------------------------------------------
(***************************************************************************)
(* joiner: wtsl_core_splink_auto_join_net                                  *)
(***************************************************************************)
\* while(g_is_run && type == NODE_TYPE_SLB_T); no thread waits for its end.
JoinerTop ==
  /\ pcJ = "top"
  /\ pcJ' = IF run /\ station THEN "flock" ELSE "done"
  /\ UNCHANGED <<run, assoc, flag, lock, idx, window, fresh, wVars, pcH,
                 bVars>>

\* pthread_mutex_lock, on entry and on the way out of pthread_cond_wait.
JoinerFlagLock ==
  /\ pcJ \in {"flock", "fwoke"}
  /\ Acquire("joiner", "flagM")
  /\ pcJ' = "fchk"
  /\ UNCHANGED <<run, assoc, flag, idx, window, fresh, wVars, pcH, bVars>>

\* The flag decides between pthread_cond_wait, which releases the mutex as it
\* starts to wait, and pthread_mutex_unlock.
JoinerFlagCheck ==
  /\ pcJ = "fchk"
  /\ pcJ' = IF flag THEN "mlock" ELSE "fwait"
  /\ Release("flagM")
  /\ UNCHANGED <<run, assoc, flag, idx, window, fresh, wVars, pcH, bVars>>

JoinerJoinLock ==
  /\ pcJ = "mlock"
  /\ Acquire("joiner", "joinM")
  /\ pcJ' = "lchk"
  /\ UNCHANGED <<run, assoc, flag, idx, window, fresh, wVars, pcH, bVars>>

\* while(link_state == 1 && g_is_run): link_state is read without the global
\* mutex that the watcher holds when it writes it.
JoinerLinkCheck ==
  /\ pcJ = "lchk"
  /\ IF link /\ run
       THEN pcJ' = "lwait" /\ Release("joinM") /\ UNCHANGED window
       ELSE pcJ' = "recheck" /\ window' = {} /\ UNCHANGED lock
  /\ UNCHANGED <<run, assoc, flag, idx, fresh, wVars, pcH, bVars>>

\* Variants with a defect (see the README), here and below: named after it.
IfForWhile_LinkWake ==
  /\ pcJ = "lwoke"
  /\ Acquire("joiner", "joinM")
  /\ pcJ' = "recheck" /\ window' = {} /\ idx' = 0 /\ fresh' = TRUE
  /\ UNCHANGED <<run, assoc, flag, pcH, wVars, bVars>>
NoReset_LinkWake ==
  /\ pcJ = "lwoke"
  /\ Acquire("joiner", "joinM")
  /\ pcJ' = "lchk" /\ fresh' = TRUE
  /\ UNCHANGED <<run, assoc, flag, idx, window, wVars, pcH, bVars>>

\* Back from pthread_cond_wait with the mutex, then idx = 0.
JoinerLinkWake ==
  /\ pcJ = "lwoke"
  /\ Acquire("joiner", "joinM")
  /\ pcJ' = "lchk"
  /\ idx' = 0
  /\ fresh' = TRUE
  /\ UNCHANGED <<run, assoc, flag, window, wVars, pcH, bVars>>

NoTest_Recheck ==
  /\ pcJ = "recheck" /\ pcJ' = "scan"
  /\ UNCHANGED <<run, assoc, flag, lock, idx, window, fresh, wVars, pcH, bVars>>
NoUnlock_Recheck ==
  /\ pcJ = "recheck" /\ pcJ' = IF flag THEN "scan" ELSE "top"
  /\ UNCHANGED <<run, assoc, flag, lock, idx, window, fresh, wVars, pcH, bVars>>

\* The second look at the flag, after a wait that may have been long.
JoinerRecheck ==
  /\ pcJ = "recheck"
  /\ IF flag THEN pcJ' = "scan" /\ UNCHANGED lock /\ window' = window \ {"flagOff"}
             ELSE pcJ' = "top" /\ Release("joinM") /\ window' = {}
  /\ UNCHANGED <<run, assoc, flag, idx, fresh, wVars, pcH, bVars>>

\* slb_t_node_scan and sleep(4), with auto_join_net_mutex held.
JoinerScan ==
  /\ pcJ = "scan"
  /\ pcJ' = "join"
  /\ UNCHANGED <<run, assoc, flag, lock, idx, window, fresh, wVars, pcH,
                 bVars>>

\* The slot the watcher is copying into, while it is copying.
BeingCopied == IF pcW = "shift2" THEN {2} ELSE
               IF pcW = "shift1" THEN {1} ELSE
               IF pcW = "shift0" THEN {0} ELSE {}

\* What the joiner can read from its slot: the watcher's memcpy does not take
\* auto_join_net_mutex, so a read during the copy may mix two addresses.
Target == {macs[idx]} \cup (IF idx \in BeingCopied THEN {Torn} ELSE {})

\* The driver's answer to join_bssid.  An empty slot fails the length check of
\* slb_t_node_join_bssid; a command that fails leaves the association alone.
slb_t_node_join_bssid(mac) ==
  \/ mac \in Reach /\ assoc' = mac
  \/ (mac \notin Reach \/ assoc # None) /\ assoc' = assoc

PastEnd_NextIdx == IF idx = 3 THEN 0 ELSE idx + 1
TwoSlots_NextIdx == IF idx = 1 THEN 0 ELSE idx + 1
NextIdx == IF idx = 2 THEN 0 ELSE idx + 1

\* The log line, the join, the advance of idx, the unlock and sleep(1).
JoinerJoin ==
  /\ pcJ = "join"
  /\ LogInfo
  /\ \E mac \in Target : slb_t_node_join_bssid(mac)
  /\ idx' = NextIdx
  /\ Release("joinM")
  /\ pcJ' = "top"
  /\ fresh' = FALSE /\ window' = {}
  /\ UNCHANGED <<run, flag, wVars, pcH, bVars>>

\* POSIX lets pthread_cond_wait return without a signal.
SpuriousWakeup ==
  /\ \/ pcJ = "fwait" /\ pcJ' = "fwoke"
     \/ pcJ = "lwait" /\ pcJ' = "lwoke"
  /\ UNCHANGED <<run, assoc, flag, lock, idx, window, fresh, wVars, pcH,
                 bVars>>

Joiner == \/ JoinerTop \/ JoinerFlagLock \/ JoinerFlagCheck \/ JoinerJoinLock
          \/ JoinerLinkCheck \/ JoinerLinkWake \/ JoinerRecheck \/ JoinerScan
          \/ JoinerJoin

-----------------------------------------------------------------------------
(***************************************************************************)
(* watcher: wtsl_core_splink_state_watcher and get_view_users_info         *)
(***************************************************************************)
\* The loop condition, and the log line after the loop.
WatcherTop ==
  /\ pcW = "top"
  /\ \/ run /\ pcW' = "glock"
     \/ ~run /\ LogInfo /\ pcW' = "done"
  /\ UNCHANGED <<run, assoc, flag, lock, pcJ, idx, window, fresh, poll,
                 link, macs, addMac, lost, moved, pcH, bVars>>

WatcherLock ==
  /\ pcW = "glock"
  /\ Acquire("watcher", "global")
  /\ pcW' = "poll"
  /\ UNCHANGED <<run, assoc, flag, pcJ, idx, window, fresh, poll, link,
                 macs, addMac, lost, moved, pcH, bVars>>

\* popen("iwpriv vap0 cfg view_users"): the output is a snapshot.
WatcherPoll ==
  /\ pcW = "poll"
  /\ poll' = assoc
  /\ pcW' = "role"
  /\ UNCHANGED <<run, assoc, flag, lock, pcJ, idx, window, fresh, link,
                 macs, addMac, lost, moved, pcH, bVars>>

NoStore_LinkState == link /\ poll # None
LinkState == poll # None

\* The association as the history variables remember it: the last one seen, and
\* whether it is not the one that brought the link up.
Seen ==
  IF poll = None THEN UNCHANGED <<lost, moved>>
  ELSE lost' = poll /\ moved' = (link /\ (moved \/ poll # lost))

\* The vap_role line: link_state = state.
WatcherRoleLine ==
  /\ pcW = "role"
  /\ link' = LinkState
  /\ pcW' = IF poll = None THEN "sig" ELSE IF addMac THEN "ms" ELSE "end"
  /\ IF link' /\ ~link THEN Note("linkUp") ELSE UNCHANGED window
  /\ Seen
  /\ UNCHANGED <<run, assoc, flag, lock, pcJ, idx, fresh, poll, macs,
                 addMac, pcH, bVars>>

NoSignal_WatcherSignal ==
  /\ pcW = "sig" /\ lock["joinM"] = Free
  /\ addMac' = TRUE /\ pcW' = "end"
  /\ UNCHANGED <<run, assoc, flag, lock, pcJ, idx, window, fresh, poll, link, macs,
                 lost, moved, pcH, bVars>>

\* The tail of the loop body when the link is down.  It needs
\* auto_join_net_mutex while global_node_info.mutex is held.
WatcherSignal ==
  /\ pcW = "sig"
  /\ lock["joinM"] = Free
  /\ pcJ' = IF pcJ = "lwait" THEN "lwoke" ELSE pcJ
  /\ addMac' = TRUE
  /\ pcW' = "end"
  /\ UNCHANGED <<run, assoc, flag, lock, idx, window, fresh, poll, link,
                 macs, lost, moved, pcH, bVars>>

NoCompare_UserLine ==
  /\ pcW = "ms" /\ pcW' = "shift2"
  /\ addMac' = FALSE
  /\ UNCHANGED <<run, assoc, flag, lock, pcJ, idx, window, fresh, poll, link, macs,
                 lost, moved, pcH, bVars>>

\* The ms line: an address that differs from the newest entry is added.
WatcherUserLine ==
  /\ pcW = "ms"
  /\ pcW' = IF poll # macs[0] THEN "shift2" ELSE "end"
  /\ addMac' = FALSE
  /\ UNCHANGED <<run, assoc, flag, lock, pcJ, idx, window, fresh, poll,
                 link, macs, lost, moved, pcH, bVars>>

\* The three memcpy calls; a slot is overwritten at the end of its step.
WatcherShift ==
  /\ \/ pcW = "shift2" /\ macs' = [macs EXCEPT ![2] = macs[1]] /\ pcW' = "shift1"
     \/ pcW = "shift1" /\ macs' = [macs EXCEPT ![1] = macs[0]] /\ pcW' = "shift0"
     \/ pcW = "shift0" /\ macs' = [macs EXCEPT ![0] = poll] /\ pcW' = "end"
  /\ UNCHANGED <<run, assoc, flag, lock, pcJ, idx, window, fresh, poll,
                 link, addMac, lost, moved, pcH, bVars>>

\* The rest of the pass has something to log, with the global mutex held: a new
\* channel, a command that failed, a row that cannot be updated.
WatcherLine ==
  /\ pcW = "end" /\ ~LogLine
  /\ pcW' = "line"
  /\ UNCHANGED <<run, assoc, flag, lock, pcJ, idx, window, fresh, poll,
                 link, macs, addMac, lost, moved, pcH, bVars>>

\* pthread_mutex_unlock and usleep(500000).
WatcherUnlock ==
  /\ pcW = "end"
  /\ Release("global")
  /\ pcW' = "top"
  /\ poll' = None
  /\ UNCHANGED <<run, assoc, flag, pcJ, idx, window, fresh, link, macs,
                 addMac, lost, moved, pcH, bVars>>

Watcher == \/ WatcherTop \/ WatcherLock \/ WatcherPoll \/ WatcherRoleLine
           \/ WatcherSignal \/ WatcherUserLine \/ WatcherShift \/ WatcherLine
           \/ WatcherUnlock

-----------------------------------------------------------------------------
(***************************************************************************)
(* http: the REST handlers, one request at a time.  No thread has been     *)
(* cancelled while they run, so that their log lines find log_mutex free.  *)
(***************************************************************************)
\* PUT of aj_flag.  The store and the signal are one step: both are made under
\* auto_join_net_flag_mutex.
wtsl_core_auto_join_net(on) ==
  /\ pcH = "idle" /\ run
  /\ lock["flagM"] = Free
  /\ flag' = on
  /\ pcJ' = IF pcJ = "fwait" THEN "fwoke" ELSE pcJ
  /\ IF flag /\ ~on THEN Note("flagOff") ELSE UNCHANGED window
  /\ UNCHANGED <<run, assoc, lock, idx, fresh, wVars, pcH, bVars>>

\* A scan request begins by switching auto join off, without the mutex.
ScanDisableAutoJoin ==
  /\ pcH = "idle" /\ run
  /\ flag' = FALSE
  /\ pcH' = "down"
  /\ IF flag THEN Note("flagOff") ELSE UNCHANGED window
  /\ UNCHANGED <<run, assoc, lock, pcJ, idx, fresh, wVars, bVars>>

\* slb_ifconfig down and up: the driver leaves its access point.
ScanIfconfig ==
  /\ pcH = "down"
  /\ assoc' = None
  /\ pcH' = "scanning"
  /\ UNCHANGED <<run, flag, lock, pcJ, idx, window, fresh, wVars, bVars>>

\* The scan command, sleep(5), and then the reading of its result.
ScanShow ==
  /\ \/ pcH = "scanning" /\ pcH' = "show"
     \/ pcH = "show" /\ pcH' = "idle"
  /\ UNCHANGED <<run, assoc, flag, lock, pcJ, idx, window, fresh, wVars,
                 bVars>>

\* A connect request: start_join of an entry of the scan result.
wtsl_core_do_connect(ap) ==
  /\ pcH = "idle" /\ run
  /\ assoc' = ap
  /\ UNCHANGED <<run, flag, lock, pcJ, idx, window, fresh, wVars, pcH, bVars>>

\* A request that sets the node up: set_node takes vap0 down and up again.  A
\* change of role is followed by the restart of the device, so that a node that
\* has become a G node is a T node again only after it.
wtsl_core_set_node_basicinfo(t) ==
  /\ pcH = "idle" /\ run
  /\ lock["global"] = Free
  /\ station' = (station /\ t)
  /\ assoc' = None
  /\ UNCHANGED <<run, flag, lock, pcJ, idx, window, fresh, wVars, pcH, pcB,
                 cancel>>

Http == \/ \E t \in Roles : wtsl_core_set_node_basicinfo(t)
        \/ \E on \in BOOLEAN : wtsl_core_auto_join_net(on)
        \/ ScanDisableAutoJoin \/ ScanIfconfig \/ ScanShow
        \/ \E ap \in Reach : wtsl_core_do_connect(ap)

-----------------------------------------------------------------------------
(***************************************************************************)
(* heartbeat, recv: the two threads of node_service.c, and the end of      *)
(* wtsl_core_splink_start_node_service_thread that cancels them            *)
(***************************************************************************)
\* The loop condition and the address of the gateway; where inet_pton fails, an
\* ERROR line and round again without a sleep.  A G node sleeps and looks again.
HeartbeatTop ==
  /\ pcB = "top" \/ (pcB = "noaddr" /\ LogLine)
  /\ IF run THEN pcB' \in (IF station THEN {"glock", "noaddr"} ELSE {"top"})
            ELSE pcB' = "done"
  /\ UNCHANGED <<run, station, assoc, flag, lock, pcJ, idx, window, fresh,
                 wVars, pcH, cancel>>

HeartbeatLock ==
  /\ pcB = "glock"
  /\ Acquire("heartbeat", "global")
  /\ pcB' = "send"
  /\ UNCHANGED <<run, station, assoc, flag, pcJ, idx, window, fresh, wVars,
                 pcH, cancel>>

\* sendto is a cancellation point, and no cleanup handler releases the mutex.
\* A log line before the unlock, one after it, and sleep(HEARTBEAT_INTERVAL).
HeartbeatSend ==
  /\ pcB = "send"
  /\ \/ LogInfo /\ Release("global") /\ pcB' = "top"
     \/ cancel /\ pcB' = "done" /\ UNCHANGED lock
  /\ UNCHANGED <<run, station, assoc, flag, pcJ, idx, window, fresh, wVars,
                 pcH, cancel>>

\* The lines of a pass: the one before the unlock, the one after it and the
\* one about the address, which is an ERROR.
HeartbeatLine ==
  /\ pcB = "noaddr" \/ (pcB \in {"send", "top"} /\ Verbose)
  /\ \/ DiesInLine("heartbeat") /\ pcB' = "done"
     \/ ~LogLine /\ pcB' = "line" /\ UNCHANGED lock
  /\ UNCHANGED <<run, station, assoc, flag, pcJ, idx, window, fresh, wVars,
                 pcH, cancel>>

\* recv_thread, of which only this matters here, is cancelled in the line about
\* a datagram.  (What a heartbeat does is in NodeTable.)
RecvLine ==
  /\ DiesInLine("recv")
  /\ UNCHANGED <<run, assoc, flag, pcJ, idx, window, fresh, wVars, pcH, bVars>>

\* The node service thread leaves its sleep(1) loop.
NodeServiceCancel ==
  /\ ~run /\ ~cancel
  /\ cancel' = TRUE
  /\ UNCHANGED <<run, station, assoc, flag, lock, pcJ, idx, window, fresh,
                 wVars, pcH, pcB>>

Heartbeat == HeartbeatTop \/ HeartbeatLock \/ HeartbeatSend \/ HeartbeatLine

-----------------------------------------------------------------------------
(***************************************************************************)
(* The environment: the radio link fails; the program is told to stop.     *)
(***************************************************************************)
LinkLoss ==
  /\ assoc # None
  /\ assoc' = None
  /\ UNCHANGED <<run, flag, lock, pcJ, idx, window, fresh, wVars, pcH, bVars>>

\* main's signal handler: wtsl_http_main_stop, which waits for the request in
\* hand and takes no other, and then wtsl_core_release.
Stop ==
  /\ run /\ pcH = "idle"
  /\ run' = FALSE
  /\ UNCHANGED <<assoc, flag, lock, pcJ, idx, window, fresh, wVars, pcH,
                 bVars>>

Next == \/ Joiner \/ Watcher \/ Http \/ Heartbeat \/ RecvLine \/ NodeServiceCancel
        \/ SpuriousWakeup \/ LinkLoss \/ Stop

(***************************************************************************)
(* The scheduler runs every thread, and a thread that keeps finding a      *)
(* mutex free gets it: every loop sleeps with its mutexes released for     *)
(* half a second or more, so a waiter is not overtaken for ever.  Requests,*)
(* link failures, spurious wakeups and the stop signal are not required.   *)
(***************************************************************************)
Fairness == /\ SF_vars(Joiner)
            /\ SF_vars(Watcher)
            /\ SF_vars(Heartbeat)
            /\ WF_vars(ScanIfconfig \/ ScanShow)
            /\ WF_vars(NodeServiceCancel)

Spec == Init /\ [][Next]_vars
FairSpec == Spec /\ Fairness
-----------------------------------------------------------------------------
(***************************************************************************)
(* What is expected of it.                                                 *)
(***************************************************************************)
Holder == {"joiner", "watcher", "heartbeat", "recv", Free}

FlagTypes == /\ run \in BOOLEAN /\ flag \in BOOLEAN /\ link \in BOOLEAN
             /\ addMac \in BOOLEAN /\ cancel \in BOOLEAN /\ fresh \in BOOLEAN
             /\ station \in BOOLEAN /\ moved \in BOOLEAN
TableTypes == macs \in [Slots -> AP \cup {None}] /\ lock \in [Lock -> Holder]
ValueTypes == /\ idx \in Slots
              /\ poll \in AP \cup {None} /\ assoc \in AP \cup {None}
              /\ lost \in AP \cup {None}
              /\ window \subseteq {"linkUp", "flagOff"}
PCTypes == pcJ \in JoinerPC /\ pcW \in WatcherPC /\ pcH \in HttpPC /\ pcB \in HeartbeatPC

\* Every variable holds a value of its kind; idx stays inside the history.
TypeOK == FlagTypes /\ TableTypes /\ ValueTypes /\ PCTypes

\* Once auto join is switched off, by aj_flag or by a scan request, the joiner
\* makes no attempt other than the one it had already committed to.  The check
\* after the wait for a link loss is what ensures it (the comment at line 116
\* of wtsl_core_splink_state.c).
NoAttemptAfterFlagOff ==
  pcJ \in Committed /\ ~flag => "flagOff" \in window

\* While the program runs, the joiner attempts to join over a link that is up
\* only if the watcher saw it come up after the joiner had looked.
NoAttemptOverLiveLink ==
  pcJ \in Committed /\ link /\ run => "linkUp" \in window

\* The first attempt after a loss goes to the access point that was lost, the
\* last one the watcher saw: the reset of idx, the history written by the watcher
\* and the order of its stores all have to agree.  It is the lost one only if the
\* access point had not changed while the link stayed up (a connect request, or
\* a join already committed to): add_mac is then still false, such a change is
\* not recorded, and the first attempt goes to the one before it.
FirstAttemptIsTheLostOne ==
  pcJ = "join" /\ fresh /\ ~link /\ ~moved => macs[idx] = lost

\* Outside an update of the history it has no gap and never holds an address
\* twice in a row, so three attempts never try one access point twice running.
HistoryKept == pcW \notin Shifting => HistoryOK(macs)

\* A torn address can be sent to the driver only while the link is up: an
\* attempt made to recover a lost link always names a recorded address.
TornOnlyWhileUp == pcJ = "join" /\ ~link => Torn \notin Target

\* While auto join stays on and the link of a T node stays down, the joiner goes
\* round all three recorded addresses for ever.
EverySlotTried ==
  <>[](run /\ station /\ flag /\ ~link) => \A k \in Slots : []<>(pcJ = "join" /\ idx = k)

\* If auto join of a T node stays on, no scan interferes and the history always names an
\* access point that answers, the node does not stay off the network.
LinkRecovers ==
  <>[](run /\ station /\ flag /\ pcH = "idle" /\ \E k \in Slots : macs[k] \in Reach)
    => []<>(assoc # None)

\* The watcher waits for auto_join_net_mutex with the global mutex held, and
\* the joiner sleeps with auto_join_net_mutex held; the heartbeats of a T node
\* that has a gateway still get out.
HeartbeatsFlow == <>[](run /\ station /\ pcB # "noaddr") => []<>(pcB = "send")

\* After the stop signal the two threads that create_splink_state_watcher joins
\* come to an end: the watcher, and the node service, which joins heartbeat.
ShutdownCompletes ==
  ~run ~> (pcW = "done" /\ cancel /\ pcB = "done")

\* A thread that was cancelled has taken a mutex with it: heartbeat the global
\* one in sendto, either of them log_mutex, heartbeat perhaps both.
MutexLost ==
  \/ pcB = "done" /\ \E l \in {"global", "log"} : lock[l] = "heartbeat"
  \/ lock["log"] = "recv"

\* The only thing that can keep the watcher from ending after the stop signal
\* is a mutex lost by the cancellation of a thread that held it.
WatcherEndsUnlessMutexLost == ~run ~> pcW = "done" \/ MutexLost

\* A scan request leaves the network first: "cannot scan while joined"
\* (wtsl_core_node_callback.c:513).
NotJoinedDuringScan == pcH \in {"scanning", "show"} => assoc = None

=============================================================================
