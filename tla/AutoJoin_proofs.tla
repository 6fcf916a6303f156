--------------------------- MODULE AutoJoin_proofs ---------------------------
(* Proofs of the safety properties of AutoJoin, for any set of access points. *)
EXTENDS AutoJoin, TLAPS

-----------------------------------------------------------------------------
(***************************************************************************)
(* The strengthening.                                                      *)
(***************************************************************************)
\* An attempt that is under way over a live link: from the check of the link on.
LinkWindow == pcJ \in {"recheck"} \cup Committed /\ link /\ run => "linkUp" \in window

\* The watcher updates the history only with an address and with the link up,
\* and signals only with the link down.
UserLineLinkUp == pcW \in {"ms"} \cup Shifting => link /\ poll # None
SignalLinkDown == pcW = "sig" => ~link

\* The three intermediate states of the history.
ShiftStages ==
  /\ pcW = "shift2" => HistoryOK(macs) /\ poll # macs[0]
  /\ pcW = "shift1" => /\ macs[2] = macs[1]
                       /\ macs[1] # None => macs[1] # macs[0] /\ macs[0] # None
                       /\ poll # macs[0]
  /\ pcW = "shift0" => /\ macs[1] = macs[0]
                       /\ macs[2] # None => macs[2] # macs[1] /\ macs[1] # None
                       /\ poll # macs[1]

\* While add_mac is false the newest entry is the association last seen, unless
\* that one took another's place; add_mac is false exactly while the link is up.
Recorded ==
  /\ ~addMac /\ pcW \notin Shifting /\ ~moved => macs[0] = lost
  /\ pcW \in Shifting => ~addMac
  /\ pcW \in {"ms"} \cup Shifting => lost = poll /\ ~moved
  /\ link => ~addMac \/ pcW = "ms"
  /\ ~link /\ pcW # "sig" => addMac

\* A joiner that has waited for a loss starts from slot 0, which holds the
\* address that was lost.
Waited == fresh \/ pcJ \in {"lwait", "lwoke"}
AfterLoss ==
  /\ fresh => idx = 0
  /\ Waited /\ ~link /\ ~moved => macs[0] = lost

IInv == /\ TypeOK
        /\ NoAttemptAfterFlagOff
        /\ LinkWindow
        /\ UserLineLinkUp
        /\ SignalLinkDown
        /\ HistoryKept
        /\ ShiftStages
        /\ Recorded
        /\ AfterLoss

USE DEF Slots, Lock, Free, JoinerPC, Shifting, WatcherPC, HttpPC, HeartbeatPC,
        Committed, Holder, wVars, bVars

-----------------------------------------------------------------------------
\* The initial states satisfy the invariant.
LEMMA InitIInv == Init => IInv
<1> SUFFICES ASSUME Init PROVE IInv
  OBVIOUS
<1>1. FlagTypes /\ TableTypes
  BY DEF Init, FlagTypes, TableTypes
<1>2. ValueTypes /\ PCTypes
  BY DEF Init, ValueTypes, PCTypes
<1>3. HistoryKept
  BY DEF Init, HistoryKept
<1>4. NoAttemptAfterFlagOff /\ LinkWindow /\ UserLineLinkUp /\ SignalLinkDown
  BY DEF Init, NoAttemptAfterFlagOff, LinkWindow, UserLineLinkUp, SignalLinkDown
<1>5. ShiftStages /\ Recorded /\ AfterLoss
  BY DEF Init, ShiftStages, Recorded, AfterLoss, Waited
<1> QED
  BY <1>1, <1>2, <1>3, <1>4, <1>5 DEF IInv, TypeOK

\* Every step keeps the Boolean variables Boolean.
LEMMA FlagStep == FlagTypes /\ [Next]_vars => FlagTypes'
<1> SUFFICES ASSUME FlagTypes, [Next]_vars
             PROVE  FlagTypes'
  OBVIOUS
<1> USE DEF FlagTypes
<1>1. CASE Joiner
  <2>1. CASE JoinerTop \/ JoinerFlagLock \/ JoinerFlagCheck
    BY <2>1 DEF JoinerTop, JoinerFlagLock, JoinerFlagCheck
  <2>2. CASE JoinerJoinLock \/ JoinerLinkCheck \/ JoinerLinkWake
    BY <2>2 DEF JoinerJoinLock, JoinerLinkCheck, JoinerLinkWake
  <2>3. CASE JoinerRecheck \/ JoinerScan
    BY <2>3 DEF JoinerRecheck, JoinerScan
  <2>4. CASE JoinerJoin
    BY <2>4 DEF JoinerJoin
  <2> QED
    BY <1>1, <2>1, <2>2, <2>3, <2>4 DEF Joiner
<1>2. CASE Watcher
  <2>1. CASE WatcherTop \/ WatcherLock \/ WatcherPoll
    BY <2>1 DEF WatcherTop, WatcherLock, WatcherPoll
  <2>2. CASE WatcherRoleLine
    BY <2>2 DEF WatcherRoleLine, LinkState, Seen
  <2>3. CASE WatcherSignal \/ WatcherUserLine
    BY <2>3 DEF WatcherSignal, WatcherUserLine
  <2>4. CASE WatcherShift \/ WatcherLine \/ WatcherUnlock
    BY <2>4 DEF WatcherShift, WatcherLine, WatcherUnlock
  <2> QED
    BY <1>2, <2>1, <2>2, <2>3, <2>4 DEF Watcher
<1>3. CASE Http
  <2>1. CASE \/ \E on \in BOOLEAN : wtsl_core_auto_join_net(on)
             \/ ScanDisableAutoJoin
    BY <2>1 DEF wtsl_core_auto_join_net, ScanDisableAutoJoin
  <2>2. CASE \/ ScanIfconfig
             \/ ScanShow
             \/ \E ap \in Reach : wtsl_core_do_connect(ap)
             \/ \E t \in Roles : wtsl_core_set_node_basicinfo(t)
    BY <2>2 DEF ScanIfconfig, ScanShow, wtsl_core_do_connect, wtsl_core_set_node_basicinfo
  <2> QED
    BY <1>3, <2>1, <2>2 DEF Http
<1>4. CASE Heartbeat
  <2>1. CASE HeartbeatTop \/ HeartbeatLock \/ HeartbeatSend \/ HeartbeatLine
    BY <2>1 DEF HeartbeatTop, HeartbeatLock, HeartbeatSend, HeartbeatLine
  <2> QED
    BY <1>4, <2>1 DEF Heartbeat
<1>5. CASE RecvLine \/ NodeServiceCancel \/ SpuriousWakeup
  BY <1>5 DEF RecvLine, NodeServiceCancel, SpuriousWakeup
<1>6. CASE LinkLoss \/ Stop
  BY <1>6 DEF LinkLoss, Stop
<1>7. CASE UNCHANGED vars
  BY <1>7 DEF vars
<1> QED
  BY <1>1, <1>2, <1>3, <1>4, <1>5, <1>6, <1>7 DEF Next

\* Every step keeps the history and the mutexes well typed.
LEMMA TableStep == TableTypes /\ ValueTypes /\ [Next]_vars => TableTypes'
<1> SUFFICES ASSUME TableTypes, ValueTypes, [Next]_vars
             PROVE  TableTypes'
  OBVIOUS
<1> USE DEF TableTypes, ValueTypes
<1>1. CASE Joiner
  <2>1. CASE JoinerTop \/ JoinerFlagLock \/ JoinerFlagCheck
    BY <2>1 DEF JoinerTop, JoinerFlagLock, JoinerFlagCheck, Acquire, Release
  <2>2. CASE JoinerJoinLock \/ JoinerLinkCheck \/ JoinerLinkWake
    BY <2>2 DEF JoinerJoinLock, JoinerLinkCheck, JoinerLinkWake, Acquire,
       Release
  <2>3. CASE JoinerRecheck \/ JoinerScan
    BY <2>3 DEF JoinerRecheck, JoinerScan, Release
  <2>4. CASE JoinerJoin
    BY <2>4 DEF JoinerJoin, Release
  <2> QED
    BY <1>1, <2>1, <2>2, <2>3, <2>4 DEF Joiner
<1>2. CASE Watcher
  <2>1. CASE WatcherTop \/ WatcherLock \/ WatcherPoll
    BY <2>1 DEF WatcherTop, WatcherLock, WatcherPoll, Acquire
  <2>2. CASE WatcherRoleLine
    BY <2>2 DEF WatcherRoleLine
  <2>3. CASE WatcherSignal \/ WatcherUserLine
    BY <2>3 DEF WatcherSignal, WatcherUserLine
  <2>4. CASE WatcherShift \/ WatcherLine \/ WatcherUnlock
    BY <2>4 DEF WatcherShift, WatcherLine, WatcherUnlock, Release
  <2> QED
    BY <1>2, <2>1, <2>2, <2>3, <2>4 DEF Watcher
<1>3. CASE Http
  <2>1. CASE \/ \E on \in BOOLEAN : wtsl_core_auto_join_net(on)
             \/ ScanDisableAutoJoin
    BY <2>1 DEF wtsl_core_auto_join_net, ScanDisableAutoJoin
  <2>2. CASE \/ ScanIfconfig
             \/ ScanShow
             \/ \E ap \in Reach : wtsl_core_do_connect(ap)
             \/ \E t \in Roles : wtsl_core_set_node_basicinfo(t)
    BY <2>2 DEF ScanIfconfig, ScanShow, wtsl_core_do_connect, wtsl_core_set_node_basicinfo
  <2> QED
    BY <1>3, <2>1, <2>2 DEF Http
<1>4. CASE Heartbeat
  <2>1. CASE HeartbeatTop \/ HeartbeatLock \/ HeartbeatSend \/ HeartbeatLine
    BY <2>1 DEF HeartbeatTop, HeartbeatLock, HeartbeatSend, HeartbeatLine, DiesInLine, Acquire, Release
  <2> QED
    BY <1>4, <2>1 DEF Heartbeat
<1>5. CASE RecvLine \/ NodeServiceCancel \/ SpuriousWakeup
  BY <1>5 DEF RecvLine, DiesInLine, Acquire, NodeServiceCancel, SpuriousWakeup
<1>6. CASE LinkLoss \/ Stop
  BY <1>6 DEF LinkLoss, Stop
<1>7. CASE UNCHANGED vars
  BY <1>7 DEF vars
<1> QED
  BY <1>1, <1>2, <1>3, <1>4, <1>5, <1>6, <1>7 DEF Next

\* Every step keeps idx inside the history, and the addresses addresses.
LEMMA ValueStep == ValueTypes /\ [Next]_vars => ValueTypes'
<1> SUFFICES ASSUME ValueTypes, [Next]_vars
             PROVE  ValueTypes'
  OBVIOUS
<1> USE DEF ValueTypes
<1>1. CASE Joiner
  <2>1. CASE JoinerTop
    BY <2>1 DEF JoinerTop
  <2>2. CASE JoinerFlagLock
    BY <2>2 DEF JoinerFlagLock
  <2>3. CASE JoinerFlagCheck
    BY <2>3 DEF JoinerFlagCheck
  <2>4. CASE JoinerJoinLock
    BY <2>4 DEF JoinerJoinLock
  <2>5. CASE JoinerLinkCheck
    BY <2>5 DEF JoinerLinkCheck
  <2>6. CASE JoinerLinkWake
    BY <2>6 DEF JoinerLinkWake
  <2>7. CASE JoinerRecheck
    BY <2>7 DEF JoinerRecheck
  <2>8. CASE JoinerScan
    BY <2>8 DEF JoinerScan
  <2>9. CASE JoinerJoin
    BY <2>9, APAssumption DEF JoinerJoin, NextIdx, slb_t_node_join_bssid
  <2> QED
    BY <1>1, <2>1, <2>2, <2>3, <2>4, <2>5, <2>6, <2>7, <2>8, <2>9 DEF Joiner
<1>2. CASE Watcher
  <2>1. CASE WatcherTop
    BY <2>1 DEF WatcherTop
  <2>2. CASE WatcherLock
    BY <2>2 DEF WatcherLock
  <2>3. CASE WatcherPoll
    BY <2>3 DEF WatcherPoll
  <2>4. CASE WatcherRoleLine
    BY <2>4 DEF WatcherRoleLine, Note, Seen
  <2>5. CASE WatcherSignal
    BY <2>5 DEF WatcherSignal
  <2>6. CASE WatcherUserLine
    BY <2>6 DEF WatcherUserLine
  <2>7. CASE WatcherShift \/ WatcherLine
    BY <2>7 DEF WatcherShift, WatcherLine
  <2>8. CASE WatcherUnlock
    BY <2>8 DEF WatcherUnlock
  <2> QED
    BY <1>2, <2>1, <2>2, <2>3, <2>4, <2>5, <2>6, <2>7, <2>8 DEF Watcher
<1>3. CASE Http
  <2>1. CASE \/ \E on \in BOOLEAN : wtsl_core_auto_join_net(on)
    BY <2>1 DEF wtsl_core_auto_join_net, Note
  <2>2. CASE ScanDisableAutoJoin
    BY <2>2 DEF ScanDisableAutoJoin, Note
  <2>3. CASE ScanIfconfig
    BY <2>3 DEF ScanIfconfig
  <2>4. CASE ScanShow
    BY <2>4 DEF ScanShow
  <2>5. CASE \/ \E ap \in Reach : wtsl_core_do_connect(ap)
             \/ \E t \in Roles : wtsl_core_set_node_basicinfo(t)
    BY <2>5, APAssumption DEF wtsl_core_do_connect, wtsl_core_set_node_basicinfo
  <2> QED
    BY <1>3, <2>1, <2>2, <2>3, <2>4, <2>5 DEF Http
<1>4. CASE Heartbeat
  <2>1. CASE HeartbeatTop
    BY <2>1 DEF HeartbeatTop
  <2>2. CASE HeartbeatLock
    BY <2>2 DEF HeartbeatLock
  <2>3. CASE HeartbeatSend \/ HeartbeatLine
    BY <2>3 DEF HeartbeatSend, HeartbeatLine
  <2> QED
    BY <1>4, <2>1, <2>2, <2>3 DEF Heartbeat
<1>5. CASE RecvLine \/ NodeServiceCancel \/ SpuriousWakeup
  BY <1>5 DEF RecvLine, NodeServiceCancel, SpuriousWakeup
<1>6. CASE LinkLoss \/ Stop
  BY <1>6 DEF LinkLoss, Stop
<1>7. CASE UNCHANGED vars
  BY <1>7 DEF vars
<1> QED
  BY <1>1, <1>2, <1>3, <1>4, <1>5, <1>6, <1>7 DEF Next

\* Every step takes a thread to one of its own states.
LEMMA PCStep == PCTypes /\ [Next]_vars => PCTypes'
<1> SUFFICES ASSUME PCTypes, [Next]_vars
             PROVE  PCTypes'
  OBVIOUS
<1> USE DEF PCTypes
<1>1. CASE Joiner
  <2>1. CASE JoinerTop \/ JoinerFlagLock \/ JoinerFlagCheck
    BY <2>1 DEF JoinerTop, JoinerFlagLock, JoinerFlagCheck
  <2>2. CASE JoinerJoinLock \/ JoinerLinkCheck \/ JoinerLinkWake
    BY <2>2 DEF JoinerJoinLock, JoinerLinkCheck, JoinerLinkWake
  <2>3. CASE JoinerRecheck \/ JoinerScan
    BY <2>3 DEF JoinerRecheck, JoinerScan
  <2>4. CASE JoinerJoin
    BY <2>4 DEF JoinerJoin
  <2> QED
    BY <1>1, <2>1, <2>2, <2>3, <2>4 DEF Joiner
<1>2. CASE Watcher
  <2>1. CASE WatcherTop \/ WatcherLock \/ WatcherPoll
    BY <2>1 DEF WatcherTop, WatcherLock, WatcherPoll
  <2>2. CASE WatcherRoleLine
    BY <2>2 DEF WatcherRoleLine
  <2>3. CASE WatcherSignal \/ WatcherUserLine
    BY <2>3 DEF WatcherSignal, WatcherUserLine
  <2>4. CASE WatcherShift \/ WatcherLine \/ WatcherUnlock
    BY <2>4 DEF WatcherShift, WatcherLine, WatcherUnlock
  <2> QED
    BY <1>2, <2>1, <2>2, <2>3, <2>4 DEF Watcher
<1>3. CASE Http
  <2>1. CASE \/ \E on \in BOOLEAN : wtsl_core_auto_join_net(on)
             \/ ScanDisableAutoJoin
    BY <2>1 DEF wtsl_core_auto_join_net, ScanDisableAutoJoin
  <2>2. CASE \/ ScanIfconfig
             \/ ScanShow
             \/ \E ap \in Reach : wtsl_core_do_connect(ap)
             \/ \E t \in Roles : wtsl_core_set_node_basicinfo(t)
    BY <2>2 DEF ScanIfconfig, ScanShow, wtsl_core_do_connect, wtsl_core_set_node_basicinfo
  <2> QED
    BY <1>3, <2>1, <2>2 DEF Http
<1>4. CASE Heartbeat
  <2>1. CASE HeartbeatTop \/ HeartbeatLock \/ HeartbeatSend \/ HeartbeatLine
    BY <2>1 DEF HeartbeatTop, HeartbeatLock, HeartbeatSend, HeartbeatLine
  <2> QED
    BY <1>4, <2>1 DEF Heartbeat
<1>5. CASE RecvLine \/ NodeServiceCancel \/ SpuriousWakeup
  BY <1>5 DEF RecvLine, NodeServiceCancel, SpuriousWakeup
<1>6. CASE LinkLoss \/ Stop
  BY <1>6 DEF LinkLoss, Stop
<1>7. CASE UNCHANGED vars
  BY <1>7 DEF vars
<1> QED
  BY <1>1, <1>2, <1>3, <1>4, <1>5, <1>6, <1>7 DEF Next

\* A change of the flag under a committed joiner is noted.
LEMMA FlagOffStep == NoAttemptAfterFlagOff /\ [Next]_vars => NoAttemptAfterFlagOff'
<1> SUFFICES ASSUME NoAttemptAfterFlagOff, [Next]_vars
             PROVE  NoAttemptAfterFlagOff'
  OBVIOUS
<1> USE DEF NoAttemptAfterFlagOff
<1>1. CASE Joiner
  <2>1. CASE JoinerTop \/ JoinerFlagLock \/ JoinerFlagCheck
    BY <2>1 DEF JoinerTop, JoinerFlagLock, JoinerFlagCheck
  <2>2. CASE JoinerJoinLock \/ JoinerLinkCheck \/ JoinerLinkWake
    BY <2>2 DEF JoinerJoinLock, JoinerLinkCheck, JoinerLinkWake
  <2>3. CASE JoinerRecheck \/ JoinerScan
    BY <2>3 DEF JoinerRecheck, JoinerScan
  <2>4. CASE JoinerJoin
    BY <2>4 DEF JoinerJoin, slb_t_node_join_bssid
  <2> QED
    BY <1>1, <2>1, <2>2, <2>3, <2>4 DEF Joiner
<1>2. CASE Watcher
  <2>1. CASE WatcherTop \/ WatcherLock \/ WatcherPoll
    BY <2>1 DEF WatcherTop, WatcherLock, WatcherPoll
  <2>2. CASE WatcherRoleLine
    BY <2>2 DEF WatcherRoleLine, Note, Seen
  <2>3. CASE WatcherSignal \/ WatcherUserLine
    BY <2>3 DEF WatcherSignal, WatcherUserLine
  <2>4. CASE WatcherShift \/ WatcherLine \/ WatcherUnlock
    BY <2>4 DEF WatcherShift, WatcherLine, WatcherUnlock
  <2> QED
    BY <1>2, <2>1, <2>2, <2>3, <2>4 DEF Watcher
<1>3. CASE Http
  <2>1. CASE \/ \E on \in BOOLEAN : wtsl_core_auto_join_net(on)
             \/ ScanDisableAutoJoin
    BY <2>1 DEF wtsl_core_auto_join_net, ScanDisableAutoJoin, Note
  <2>2. CASE \/ ScanIfconfig
             \/ ScanShow
             \/ \E ap \in Reach : wtsl_core_do_connect(ap)
             \/ \E t \in Roles : wtsl_core_set_node_basicinfo(t)
    BY <2>2 DEF ScanIfconfig, ScanShow, wtsl_core_do_connect, wtsl_core_set_node_basicinfo
  <2> QED
    BY <1>3, <2>1, <2>2 DEF Http
<1>4. CASE Heartbeat
  <2>1. CASE HeartbeatTop \/ HeartbeatLock \/ HeartbeatSend \/ HeartbeatLine
    BY <2>1 DEF HeartbeatTop, HeartbeatLock, HeartbeatSend, HeartbeatLine
  <2> QED
    BY <1>4, <2>1 DEF Heartbeat
<1>5. CASE RecvLine \/ NodeServiceCancel \/ SpuriousWakeup
  BY <1>5 DEF RecvLine, NodeServiceCancel, SpuriousWakeup
<1>6. CASE LinkLoss \/ Stop
  BY <1>6 DEF LinkLoss, Stop
<1>7. CASE UNCHANGED vars
  BY <1>7 DEF vars
<1> QED
  BY <1>1, <1>2, <1>3, <1>4, <1>5, <1>6, <1>7 DEF Next

\* So is a link that comes up under it.
LEMMA LinkWindowStep == LinkWindow /\ [Next]_vars => LinkWindow'
<1> SUFFICES ASSUME LinkWindow, [Next]_vars
             PROVE  LinkWindow'
  OBVIOUS
<1> USE DEF LinkWindow
<1>1. CASE Joiner
  <2>1. CASE JoinerTop \/ JoinerFlagLock \/ JoinerFlagCheck
    BY <2>1 DEF JoinerTop, JoinerFlagLock, JoinerFlagCheck
  <2>2. CASE JoinerJoinLock \/ JoinerLinkCheck \/ JoinerLinkWake
    BY <2>2 DEF JoinerJoinLock, JoinerLinkCheck, JoinerLinkWake
  <2>3. CASE JoinerRecheck \/ JoinerScan
    BY <2>3 DEF JoinerRecheck, JoinerScan
  <2>4. CASE JoinerJoin
    BY <2>4 DEF JoinerJoin
  <2> QED
    BY <1>1, <2>1, <2>2, <2>3, <2>4 DEF Joiner
<1>2. CASE Watcher
  <2>1. CASE WatcherTop \/ WatcherLock \/ WatcherPoll
    BY <2>1 DEF WatcherTop, WatcherLock, WatcherPoll
  <2>2. CASE WatcherRoleLine
    BY <2>2 DEF WatcherRoleLine, Note, Seen
  <2>3. CASE WatcherSignal \/ WatcherUserLine
    BY <2>3 DEF WatcherSignal, WatcherUserLine
  <2>4. CASE WatcherShift \/ WatcherLine \/ WatcherUnlock
    BY <2>4 DEF WatcherShift, WatcherLine, WatcherUnlock
  <2> QED
    BY <1>2, <2>1, <2>2, <2>3, <2>4 DEF Watcher
<1>3. CASE Http
  <2>1. CASE \/ \E on \in BOOLEAN : wtsl_core_auto_join_net(on)
             \/ ScanDisableAutoJoin
    BY <2>1 DEF wtsl_core_auto_join_net, ScanDisableAutoJoin, Note
  <2>2. CASE \/ ScanIfconfig
             \/ ScanShow
             \/ \E ap \in Reach : wtsl_core_do_connect(ap)
             \/ \E t \in Roles : wtsl_core_set_node_basicinfo(t)
    BY <2>2 DEF ScanIfconfig, ScanShow, wtsl_core_do_connect, wtsl_core_set_node_basicinfo
  <2> QED
    BY <1>3, <2>1, <2>2 DEF Http
<1>4. CASE Heartbeat
  <2>1. CASE HeartbeatTop \/ HeartbeatLock \/ HeartbeatSend \/ HeartbeatLine
    BY <2>1 DEF HeartbeatTop, HeartbeatLock, HeartbeatSend, HeartbeatLine
  <2> QED
    BY <1>4, <2>1 DEF Heartbeat
<1>5. CASE RecvLine \/ NodeServiceCancel \/ SpuriousWakeup
  BY <1>5 DEF RecvLine, NodeServiceCancel, SpuriousWakeup
<1>6. CASE LinkLoss \/ Stop
  BY <1>6 DEF LinkLoss, Stop
<1>7. CASE UNCHANGED vars
  BY <1>7 DEF vars
<1> QED
  BY <1>1, <1>2, <1>3, <1>4, <1>5, <1>6, <1>7 DEF Next

\* The watcher's state agrees with the line it has read.
LEMMA LinesStep == UserLineLinkUp /\ SignalLinkDown /\ [Next]_vars
  => (UserLineLinkUp /\ SignalLinkDown)'
<1> SUFFICES ASSUME UserLineLinkUp, SignalLinkDown, [Next]_vars
             PROVE  (UserLineLinkUp /\ SignalLinkDown)'
  OBVIOUS
<1> USE DEF UserLineLinkUp, SignalLinkDown
<1>1. CASE Joiner
  <2>1. CASE JoinerTop \/ JoinerFlagLock \/ JoinerFlagCheck
    BY <2>1 DEF JoinerTop, JoinerFlagLock, JoinerFlagCheck
  <2>2. CASE JoinerJoinLock \/ JoinerLinkCheck \/ JoinerLinkWake
    BY <2>2 DEF JoinerJoinLock, JoinerLinkCheck, JoinerLinkWake
  <2>3. CASE JoinerRecheck \/ JoinerScan
    BY <2>3 DEF JoinerRecheck, JoinerScan
  <2>4. CASE JoinerJoin
    BY <2>4 DEF JoinerJoin
  <2> QED
    BY <1>1, <2>1, <2>2, <2>3, <2>4 DEF Joiner
<1>2. CASE Watcher
  <2>1. CASE WatcherTop \/ WatcherLock \/ WatcherPoll
    BY <2>1 DEF WatcherTop, WatcherLock, WatcherPoll
  <2>2. CASE WatcherRoleLine
    BY <2>2 DEF WatcherRoleLine, LinkState, Seen
  <2>3. CASE WatcherSignal \/ WatcherUserLine
    BY <2>3 DEF WatcherSignal, WatcherUserLine
  <2>4. CASE WatcherShift \/ WatcherLine \/ WatcherUnlock
    BY <2>4 DEF WatcherShift, WatcherLine, WatcherUnlock
  <2> QED
    BY <1>2, <2>1, <2>2, <2>3, <2>4 DEF Watcher
<1>3. CASE Http
  <2>1. CASE \/ \E on \in BOOLEAN : wtsl_core_auto_join_net(on)
             \/ ScanDisableAutoJoin
    BY <2>1 DEF wtsl_core_auto_join_net, ScanDisableAutoJoin
  <2>2. CASE \/ ScanIfconfig
             \/ ScanShow
             \/ \E ap \in Reach : wtsl_core_do_connect(ap)
             \/ \E t \in Roles : wtsl_core_set_node_basicinfo(t)
    BY <2>2 DEF ScanIfconfig, ScanShow, wtsl_core_do_connect, wtsl_core_set_node_basicinfo
  <2> QED
    BY <1>3, <2>1, <2>2 DEF Http
<1>4. CASE Heartbeat
  <2>1. CASE HeartbeatTop \/ HeartbeatLock \/ HeartbeatSend \/ HeartbeatLine
    BY <2>1 DEF HeartbeatTop, HeartbeatLock, HeartbeatSend, HeartbeatLine
  <2> QED
    BY <1>4, <2>1 DEF Heartbeat
<1>5. CASE RecvLine \/ NodeServiceCancel \/ SpuriousWakeup
  BY <1>5 DEF RecvLine, NodeServiceCancel, SpuriousWakeup
<1>6. CASE LinkLoss \/ Stop
  BY <1>6 DEF LinkLoss, Stop
<1>7. CASE UNCHANGED vars
  BY <1>7 DEF vars
<1> QED
  BY <1>1, <1>2, <1>3, <1>4, <1>5, <1>6, <1>7 DEF Next

\* The three copies take the history from one good state to another.
LEMMA HistoryStep == HistoryKept /\ ShiftStages /\ UserLineLinkUp /\ TableTypes /\ [Next]_vars
  => (HistoryKept /\ ShiftStages)'
<1> SUFFICES ASSUME HistoryKept, ShiftStages, UserLineLinkUp, TableTypes, [Next]_vars
             PROVE  (HistoryKept /\ ShiftStages)'
  OBVIOUS
<1> USE DEF HistoryKept, ShiftStages, UserLineLinkUp, TableTypes, HistoryOK
<1>1. CASE Joiner
  <2>1. CASE JoinerTop \/ JoinerFlagLock \/ JoinerFlagCheck
    BY <2>1 DEF JoinerTop, JoinerFlagLock, JoinerFlagCheck
  <2>2. CASE JoinerJoinLock \/ JoinerLinkCheck \/ JoinerLinkWake
    BY <2>2 DEF JoinerJoinLock, JoinerLinkCheck, JoinerLinkWake
  <2>3. CASE JoinerRecheck \/ JoinerScan
    BY <2>3 DEF JoinerRecheck, JoinerScan
  <2>4. CASE JoinerJoin
    BY <2>4 DEF JoinerJoin
  <2> QED
    BY <1>1, <2>1, <2>2, <2>3, <2>4 DEF Joiner
<1>2. CASE Watcher
  <2>1. CASE WatcherTop \/ WatcherLock \/ WatcherPoll
    BY <2>1 DEF WatcherTop, WatcherLock, WatcherPoll
  <2>2. CASE WatcherRoleLine
    BY <2>2 DEF WatcherRoleLine
  <2>3. CASE WatcherSignal \/ WatcherUserLine
    BY <2>3 DEF WatcherSignal, WatcherUserLine
  <2>4. CASE WatcherShift \/ WatcherLine \/ WatcherUnlock
    BY <2>4 DEF WatcherShift, WatcherLine, WatcherUnlock
  <2> QED
    BY <1>2, <2>1, <2>2, <2>3, <2>4 DEF Watcher
<1>3. CASE Http
  <2>1. CASE \/ \E on \in BOOLEAN : wtsl_core_auto_join_net(on)
             \/ ScanDisableAutoJoin
    BY <2>1 DEF wtsl_core_auto_join_net, ScanDisableAutoJoin
  <2>2. CASE \/ ScanIfconfig
             \/ ScanShow
             \/ \E ap \in Reach : wtsl_core_do_connect(ap)
             \/ \E t \in Roles : wtsl_core_set_node_basicinfo(t)
    BY <2>2 DEF ScanIfconfig, ScanShow, wtsl_core_do_connect, wtsl_core_set_node_basicinfo
  <2> QED
    BY <1>3, <2>1, <2>2 DEF Http
<1>4. CASE Heartbeat
  <2>1. CASE HeartbeatTop \/ HeartbeatLock \/ HeartbeatSend \/ HeartbeatLine
    BY <2>1 DEF HeartbeatTop, HeartbeatLock, HeartbeatSend, HeartbeatLine
  <2> QED
    BY <1>4, <2>1 DEF Heartbeat
<1>5. CASE RecvLine \/ NodeServiceCancel \/ SpuriousWakeup
  BY <1>5 DEF RecvLine, NodeServiceCancel, SpuriousWakeup
<1>6. CASE LinkLoss \/ Stop
  BY <1>6 DEF LinkLoss, Stop
<1>7. CASE UNCHANGED vars
  BY <1>7 DEF vars
<1> QED
  BY <1>1, <1>2, <1>3, <1>4, <1>5, <1>6, <1>7 DEF Next

\* The newest entry is the address last seen whenever add_mac is false.
LEMMA RecordedStep == Recorded /\ UserLineLinkUp /\ SignalLinkDown /\ TableTypes /\ [Next]_vars
  => Recorded'
<1> SUFFICES ASSUME Recorded, UserLineLinkUp, SignalLinkDown, TableTypes, [Next]_vars
             PROVE  Recorded'
  OBVIOUS
<1> USE DEF Recorded, SignalLinkDown, UserLineLinkUp, TableTypes
<1>1. CASE Joiner
  <2>1. CASE JoinerTop \/ JoinerFlagLock \/ JoinerFlagCheck
    BY <2>1 DEF JoinerTop, JoinerFlagLock, JoinerFlagCheck
  <2>2. CASE JoinerJoinLock \/ JoinerLinkCheck \/ JoinerLinkWake
    BY <2>2 DEF JoinerJoinLock, JoinerLinkCheck, JoinerLinkWake
  <2>3. CASE JoinerRecheck \/ JoinerScan
    BY <2>3 DEF JoinerRecheck, JoinerScan
  <2>4. CASE JoinerJoin
    BY <2>4 DEF JoinerJoin
  <2> QED
    BY <1>1, <2>1, <2>2, <2>3, <2>4 DEF Joiner
<1>2. CASE Watcher
  <2>1. CASE WatcherTop \/ WatcherLock \/ WatcherPoll
    BY <2>1 DEF WatcherTop, WatcherLock, WatcherPoll
  <2>2. CASE WatcherRoleLine
    BY <2>2 DEF WatcherRoleLine, LinkState, Seen
  <2>3. CASE WatcherSignal \/ WatcherUserLine
    BY <2>3 DEF WatcherSignal, WatcherUserLine
  <2>4. CASE WatcherShift \/ WatcherLine \/ WatcherUnlock
    BY <2>4 DEF WatcherShift, WatcherLine, WatcherUnlock
  <2> QED
    BY <1>2, <2>1, <2>2, <2>3, <2>4 DEF Watcher
<1>3. CASE Http
  <2>1. CASE \/ \E on \in BOOLEAN : wtsl_core_auto_join_net(on)
             \/ ScanDisableAutoJoin
    BY <2>1 DEF wtsl_core_auto_join_net, ScanDisableAutoJoin
  <2>2. CASE \/ ScanIfconfig
             \/ ScanShow
             \/ \E ap \in Reach : wtsl_core_do_connect(ap)
             \/ \E t \in Roles : wtsl_core_set_node_basicinfo(t)
    BY <2>2 DEF ScanIfconfig, ScanShow, wtsl_core_do_connect, wtsl_core_set_node_basicinfo
  <2> QED
    BY <1>3, <2>1, <2>2 DEF Http
<1>4. CASE Heartbeat
  <2>1. CASE HeartbeatTop \/ HeartbeatLock \/ HeartbeatSend \/ HeartbeatLine
    BY <2>1 DEF HeartbeatTop, HeartbeatLock, HeartbeatSend, HeartbeatLine
  <2> QED
    BY <1>4, <2>1 DEF Heartbeat
<1>5. CASE RecvLine \/ NodeServiceCancel \/ SpuriousWakeup
  BY <1>5 DEF RecvLine, NodeServiceCancel, SpuriousWakeup
<1>6. CASE LinkLoss \/ Stop
  BY <1>6 DEF LinkLoss, Stop
<1>7. CASE UNCHANGED vars
  BY <1>7 DEF vars
<1> QED
  BY <1>1, <1>2, <1>3, <1>4, <1>5, <1>6, <1>7 DEF Next

\* The joiner starts again from that entry.
LEMMA AfterLossStep == AfterLoss /\ Recorded /\ UserLineLinkUp /\ TableTypes /\ [Next]_vars
  => AfterLoss'
<1> SUFFICES ASSUME AfterLoss, Recorded, UserLineLinkUp, TableTypes, [Next]_vars
             PROVE  AfterLoss'
  OBVIOUS
<1> USE DEF AfterLoss, Waited, Recorded, UserLineLinkUp, TableTypes
<1>1. CASE Joiner
  <2>1. CASE JoinerTop \/ JoinerFlagLock \/ JoinerFlagCheck
    BY <2>1 DEF JoinerTop, JoinerFlagLock, JoinerFlagCheck
  <2>2. CASE JoinerJoinLock \/ JoinerLinkCheck \/ JoinerLinkWake
    BY <2>2 DEF JoinerJoinLock, JoinerLinkCheck, JoinerLinkWake
  <2>3. CASE JoinerRecheck \/ JoinerScan
    BY <2>3 DEF JoinerRecheck, JoinerScan
  <2>4. CASE JoinerJoin
    BY <2>4 DEF JoinerJoin
  <2> QED
    BY <1>1, <2>1, <2>2, <2>3, <2>4 DEF Joiner
<1>2. CASE Watcher
  <2>1. CASE WatcherTop \/ WatcherLock \/ WatcherPoll
    BY <2>1 DEF WatcherTop, WatcherLock, WatcherPoll
  <2>2. CASE WatcherRoleLine
    <3>1. macs[0] = lost \/ ~Waited \/ moved
      BY <2>2 DEF WatcherRoleLine
    <3>2. UNCHANGED <<macs, fresh, idx, pcJ>>
      BY <2>2 DEF WatcherRoleLine
    <3>3. link' \/ UNCHANGED <<lost, moved>>
      BY <2>2 DEF WatcherRoleLine, Seen, LinkState
    <3> QED
      BY <3>1, <3>2, <3>3
  <2>3. CASE WatcherSignal \/ WatcherUserLine
    BY <2>3 DEF WatcherSignal, WatcherUserLine
  <2>4. CASE WatcherShift \/ WatcherLine \/ WatcherUnlock
    BY <2>4 DEF WatcherShift, WatcherLine, WatcherUnlock
  <2> QED
    BY <1>2, <2>1, <2>2, <2>3, <2>4 DEF Watcher
<1>3. CASE Http
  <2>1. CASE \/ \E on \in BOOLEAN : wtsl_core_auto_join_net(on)
             \/ ScanDisableAutoJoin
    BY <2>1 DEF wtsl_core_auto_join_net, ScanDisableAutoJoin
  <2>2. CASE \/ ScanIfconfig
             \/ ScanShow
             \/ \E ap \in Reach : wtsl_core_do_connect(ap)
             \/ \E t \in Roles : wtsl_core_set_node_basicinfo(t)
    BY <2>2 DEF ScanIfconfig, ScanShow, wtsl_core_do_connect, wtsl_core_set_node_basicinfo
  <2> QED
    BY <1>3, <2>1, <2>2 DEF Http
<1>4. CASE Heartbeat
  <2>1. CASE HeartbeatTop \/ HeartbeatLock \/ HeartbeatSend \/ HeartbeatLine
    BY <2>1 DEF HeartbeatTop, HeartbeatLock, HeartbeatSend, HeartbeatLine
  <2> QED
    BY <1>4, <2>1 DEF Heartbeat
<1>5. CASE RecvLine \/ NodeServiceCancel \/ SpuriousWakeup
  BY <1>5 DEF RecvLine, NodeServiceCancel, SpuriousWakeup
<1>6. CASE LinkLoss \/ Stop
  BY <1>6 DEF LinkLoss, Stop
<1>7. CASE UNCHANGED vars
  BY <1>7 DEF vars
<1> QED
  BY <1>1, <1>2, <1>3, <1>4, <1>5, <1>6, <1>7 DEF Next

\* The invariant is inductive.
LEMMA NextIInv == IInv /\ [Next]_vars => IInv'
<1> SUFFICES ASSUME IInv, [Next]_vars PROVE IInv'
  OBVIOUS
<1>1. TypeOK'
  BY FlagStep, TableStep, ValueStep, PCStep DEF IInv, TypeOK
<1>2. NoAttemptAfterFlagOff' /\ LinkWindow'
  BY FlagOffStep, LinkWindowStep DEF IInv
<1>3. UserLineLinkUp' /\ SignalLinkDown'
  BY LinesStep DEF IInv
<1>4. HistoryKept' /\ ShiftStages'
  BY HistoryStep DEF IInv, TypeOK
<1>5. Recorded' /\ AfterLoss'
  BY RecordedStep, AfterLossStep DEF IInv, TypeOK
<1> QED
  BY <1>1, <1>2, <1>3, <1>4, <1>5 DEF IInv

\* The strengthening holds in every reachable state.
LEMMA Invariance == Spec => []IInv
  BY InitIInv, NextIInv, PTL DEF Spec

-----------------------------------------------------------------------------
(***************************************************************************)
(* The properties.                                                         *)
(***************************************************************************)
\* Every variable keeps its type; in particular the joiner never reads past the
\* third entry of auto_join_net_mac.
THEOREM TypeCorrect == Spec => []TypeOK
<1>1. IInv => TypeOK
  BY DEF IInv
<1> QED
  BY Invariance, <1>1, PTL

\* Switching auto join off leaves at most the attempt already committed to.
THEOREM FlagOffRespected == Spec => []NoAttemptAfterFlagOff
<1>1. IInv => NoAttemptAfterFlagOff
  BY DEF IInv
<1> QED
  BY Invariance, <1>1, PTL

\* The joiner attempts over a live link only if it came up behind its back.
THEOREM LiveLinkRespected == Spec => []NoAttemptOverLiveLink
<1>1. IInv => NoAttemptOverLiveLink
  BY DEF IInv, LinkWindow, NoAttemptOverLiveLink
<1> QED
  BY Invariance, <1>1, PTL

\* The first attempt after a loss goes to the access point that was lost, unless
\* it had taken the place of another while the link stayed up.
THEOREM LostOneFirst == Spec => []FirstAttemptIsTheLostOne
<1>1. IInv => FirstAttemptIsTheLostOne
  BY DEF IInv, AfterLoss, Waited, FirstAttemptIsTheLostOne
<1> QED
  BY Invariance, <1>1, PTL

\* The history has no gap and no repetition outside an update.
THEOREM HistoryCorrect == Spec => []HistoryKept
<1>1. IInv => HistoryKept
  BY DEF IInv
<1> QED
  BY Invariance, <1>1, PTL

\* While the link is down the joiner sends whole addresses only.
THEOREM TornOnlyWhileLinkUp == Spec => []TornOnlyWhileUp
<1>1. IInv => TornOnlyWhileUp
  <2> SUFFICES ASSUME IInv, ~link PROVE Torn \notin Target
    BY DEF TornOnlyWhileUp
  <2>1. idx \notin BeingCopied
    BY DEF IInv, UserLineLinkUp, BeingCopied
  <2>2. macs[idx] \in AP \cup {None}
    BY DEF IInv, TypeOK, TableTypes, ValueTypes
  <2> QED
    BY <2>1, <2>2, APAssumption DEF Target
<1> QED
  BY Invariance, <1>1, PTL

=============================================================================
