---------------------------- MODULE McHeartbeat ----------------------------
(***************************************************************************)
(* The heartbeat between G nodes: wtsl_core_splink_mc.c.                   *)
(*                                                                         *)
(* One thread sends a heartbeat to a multicast group every                 *)
(* HEARTBEAT_INTERVAL seconds, removes the peers that have been silent for *)
(* more than NODE_TIMEOUT, and between two such turns receives the         *)
(* heartbeats of others, at most one per round, waiting a second at most.  *)
(* It goes by the wall clock, which the REST interface can set, and which  *)
(* it reads four times: at the top of a round, in the cleaning, for a row  *)
(* and for the message.  Time passes between any two readings.             *)
(***************************************************************************)
EXTENDS Naturals, Sequences, FiniteSets, SequencesExt

CONSTANTS
    McPeers,            \* addresses
    HEARTBEAT_INTERVAL,
    NODE_TIMEOUT,
    MAX_MC_NODES,       \* rows of mc_nodes
    MaxRound,           \* by how much time(NULL) moves from round to round, at most
    MaxClock            \* bound: seconds

ASSUME McAssumption ==
    /\ HEARTBEAT_INTERVAL \in Nat \ {0}
    /\ NODE_TIMEOUT \in Nat
    /\ MaxRound \in Nat
    /\ MAX_MC_NODES \in Nat
    /\ MaxClock \in Nat /\ HEARTBEAT_INTERVAL <= MaxClock

VARIABLES
    mcThread,           \* where the thread is
    clock,              \* time(NULL)
    lastSend,           \* last_send_time: first the epoch
    mcNodes,            \* mc_nodes[0 .. mc_node_count - 1]
    roundSeconds,       \* the seconds of this round so far
    clockSet            \* (history) somebody has set the clock

mcVars == <<mcThread, clock, lastSend, mcNodes, roundSeconds, clockSet>>

(***************************************************************************)
(* The table                                                               *)
(***************************************************************************)
\* Variants with a defect, here and below: named after it.
NoLimit_update_node_list(ip) ==
    IF \E i \in 1..Len(mcNodes) : mcNodes[i].ip = ip THEN mcNodes
    ELSE Append(mcNodes, [ip |-> ip, last |-> clock])

\* The row of a known peer is refreshed; a new one is added if there is room.
update_node_list(ip) ==
    IF \E i \in 1..Len(mcNodes) : mcNodes[i].ip = ip
    THEN [i \in 1..Len(mcNodes) |->
             IF mcNodes[i].ip = ip THEN [mcNodes[i] EXCEPT !.last = clock]
             ELSE mcNodes[i]]
    ELSE IF Len(mcNodes) < MAX_MC_NODES
         THEN Append(mcNodes, [ip |-> ip, last |-> clock])
         ELSE mcNodes

TimedOut(row) == row.last + NODE_TIMEOUT < clock

\* The row that moves up into the place of a removed one is not examined.
Skips_clean_timeout_mc_nodes(rows) ==
    {FoldLeft(LAMBDA acc, row : IF TimedOut(row) /\ ~acc.skip
                                THEN [acc EXCEPT !.skip = TRUE]
                                ELSE [kept |-> Append(acc.kept, row), skip |-> FALSE],
              [kept |-> << >>, skip |-> FALSE], rows).kept}

Kept(rows) == {i \in 1..Len(rows) : ~TimedOut(rows[i])}

\* The rows that stay, in their order (there is one such list): the place of a removed
\* row is examined again.
clean_timeout_mc_nodes(rows) ==
    {[k \in DOMAIN place |-> rows[place[k]]] :
        place \in {p \in [1..Cardinality(Kept(rows)) -> Kept(rows)] :
                     \A j, k \in DOMAIN p : j < k => p[j] < p[k]}}

(***************************************************************************)
(* The thread                                                              *)
(***************************************************************************)
\* A socket that cannot be made or bound ends the program.
init_send_socket ==
    /\ mcThread = "start"
    /\ mcThread' \in {"init", "exit"}
    /\ UNCHANGED <<clock, lastSend, mcNodes, roundSeconds, clockSet>>

\* So does a bridge without an index.  If the group cannot be joined the thread goes
\* on, and hears nobody (recv_heartbeats need not happen).
init_recv_socket ==
    /\ mcThread = "init"
    /\ mcThread' \in {"loop", "exit"}
    /\ UNCHANGED <<clock, lastSend, mcNodes, roundSeconds, clockSet>>

TimeToSend == clock >= lastSend + HEARTBEAT_INTERVAL

\* Whether the heartbeat goes out or not, the time of sending is that of the top.
send_heartbeat == lastSend' = clock

\* The top of a round: the heartbeat, when it is time for it.
Round ==
    /\ mcThread = "loop"
    /\ \/ /\ TimeToSend
          /\ send_heartbeat
          /\ mcThread' = "clean"
       \/ /\ ~TimeToSend
          /\ mcThread' = "select"
          /\ UNCHANGED lastSend
    /\ roundSeconds' = 0
    /\ UNCHANGED <<clock, mcNodes, clockSet>>

\* Then the cleaning, which reads the clock again.
Clean ==
    /\ mcThread = "clean"
    /\ mcNodes' \in clean_timeout_mc_nodes(mcNodes)
    /\ mcThread' = "select"
    /\ UNCHANGED <<clock, lastSend, roundSeconds, clockSet>>

\* One datagram is read, of a peer or of anybody else; only a heartbeat counts.
recv_heartbeats ==
    /\ mcThread = "select"
    /\ \E from \in McPeers \cup {"other"} :
          mcNodes' = IF from \in McPeers THEN update_node_list(from) ELSE mcNodes
    /\ mcThread' = "loop"
    /\ UNCHANGED <<clock, lastSend, roundSeconds, clockSet>>

\* The second is over, or select or recvfrom fails.
SelectTimeout ==
    /\ mcThread = "select"
    /\ mcThread' = "loop"
    /\ UNCHANGED <<clock, lastSend, mcNodes, roundSeconds, clockSet>>

\* g_is_run is cleared: the thread closes its sockets and ends.
McStop ==
    /\ mcThread = "loop"
    /\ mcThread' = "exit"
    /\ UNCHANGED <<clock, lastSend, mcNodes, roundSeconds, clockSet>>

\* A second goes by.  A round is a select of a second at most, and the sending,
\* cleaning and logging around it, so that time(NULL) may move by two.
McTick ==
    /\ mcThread \in {"loop", "clean", "select"}
    /\ roundSeconds < MaxRound
    /\ clock < MaxClock
    /\ clock' = clock + 1
    /\ roundSeconds' = roundSeconds + 1
    /\ UNCHANGED <<mcThread, lastSend, mcNodes, clockSet>>

\* wtsl_core_do_time_sync sets the clock, forward or back.
SetClock ==
    /\ clock' \in 0..MaxClock
    /\ clockSet' = TRUE
    /\ UNCHANGED <<mcThread, lastSend, mcNodes, roundSeconds>>

\* A device without a clock starts at the epoch.
McInit ==
    /\ mcThread = "start"
    /\ clock \in {0, HEARTBEAT_INTERVAL}
    /\ lastSend = 0
    /\ mcNodes = << >>
    /\ roundSeconds = 0
    /\ clockSet = FALSE

wtsl_core_splink_gnode_service ==
    \/ init_send_socket \/ init_recv_socket
    \/ Round \/ Clean \/ recv_heartbeats \/ SelectTimeout \/ McStop

McNext == wtsl_core_splink_gnode_service \/ McTick \/ SetClock

McSpec == McInit /\ [][McNext]_mcVars

(***************************************************************************)
(* Properties                                                              *)
(***************************************************************************)
McTypeOK ==
    /\ mcThread \in {"start", "init", "loop", "clean", "select", "exit"}
    /\ clock \in 0..MaxClock
    /\ lastSend \in 0..MaxClock /\ roundSeconds \in 0..MaxRound
    /\ Len(mcNodes) <= MAX_MC_NODES
    /\ \A i \in 1..Len(mcNodes) :
          mcNodes[i].ip \in McPeers /\ mcNodes[i].last \in 0..MaxClock

\* A peer that has fallen silent is off the table before HEARTBEAT_INTERVAL +
\* NODE_TIMEOUT seconds and the time of two rounds have gone by, as long as nobody
\* sets the clock, however full the table is and whichever other peers are removed
\* in the same turn: a round may begin just before it is time to send, and the
\* cleaning comes at any time of the next one.  And no peer is in the table twice.
SilentPeersLeave ==
    /\ ~clockSet /\ mcThread # "exit" =>
          \A i \in 1..Len(mcNodes) :
             clock < mcNodes[i].last + HEARTBEAT_INTERVAL + NODE_TIMEOUT + 2 * MaxRound
    /\ \A i, j \in 1..Len(mcNodes) : mcNodes[i].ip = mcNodes[j].ip => i = j
=============================================================================
