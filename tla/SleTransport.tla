---------------------------- MODULE SleTransport ----------------------------
(***************************************************************************)
(* The servers of the SLE bridge, which pass the data of a TCP and of a    *)
(* UDP client to the SLE radio and back: sle_tcp_server.c,                 *)
(* sle_udp_server.c, the thread that starts them (sle_client.c) and the    *)
(* handler that changes their ports.                                       *)
(*                                                                         *)
(* One thread per server; wtsl_core_sle, which waits until SLE is enabled  *)
(* and then starts both; and the one thread of the HTTP server, in which   *)
(* the handler runs: it stops a server, sleeps a second for its thread to  *)
(* go away, and starts another.  No lock guards any of the state.  In the  *)
(* model the second is long enough for every thread that is not blocked    *)
(* (Settled).                                                              *)
(***************************************************************************)
EXTENDS Naturals

CONSTANTS
    Ports,          \* port numbers
    Servers,        \* bound: servers of a kind, running or not
    Requested,      \* the sets of transports a request may be about
    MaxPortChanges  \* bound: requests

ASSUME TransportAssumption ==
    /\ Ports # {}
    /\ Requested \subseteq SUBSET {"tcp", "udp"}
    /\ MaxPortChanges \in Nat

VARIABLES
    sleProgram,     \* "runs", or "exit"
    sleInfo,        \* the ports of basic_info: [tcp, udp]
    sleThread,      \* where wtsl_core_sle is
    sleRunning,     \* g_running
    tcp,            \* of each TCP server thread: [at, port, shut]
    tcpRunning,     \* g_tcp_running
    gClient,        \* the server whose client g_client_socket is or was, or "none"
    udp,            \* of each UDP server thread: [at, port, shut]
    udpRunning,     \* g_udp_running
    gUdp,           \* the server whose socket g_udp_server_fd is, or "none"
    udpClient,      \* g_udp_has_client
    portCall,       \* the handler: where it is, and for which transports
    portChanges,    \* requests so far
    raced           \* (history) wtsl_core_sle made its UDP server when a handler
                    \* had made one, or was about to

tcpVars == <<tcp, tcpRunning, gClient>>
udpVars == <<udp, udpRunning, gUdp, udpClient>>
mainVars == <<sleProgram, sleInfo, sleThread, sleRunning, raced>>
callVars == <<portCall, portChanges>>
transportVars == <<tcpVars, udpVars, mainVars, callVars>>

NoCall == [at |-> "idle", tcp |-> FALSE, udp |-> FALSE]
Unused == [at |-> "unused", port |-> 0, shut |-> FALSE]

Runs == sleProgram = "runs"

(***************************************************************************)
(* TCP                                                                     *)
(***************************************************************************)
Listening(i) == tcp[i].at \in {"loop", "accept", "serve"}

Free(threads) == CHOOSE i \in Servers : threads[i].at = "unused"
HasFree(threads) == \E i \in Servers : threads[i].at = "unused"

\* The thread is made; it reads the port when it runs.
tcp_init ==
    /\ HasFree(tcp)
    /\ tcpRunning' = TRUE
    /\ tcp' = [tcp EXCEPT ![Free(tcp)].at = "start"]

\* socket, bind, listen.  A port that is in use ends the program, and so does a
\* failure of the system.
create_tcp_server(i) ==
    /\ Runs
    /\ tcp[i].at = "start"
    /\ \/ /\ \A j \in Servers : Listening(j) => tcp[j].port # sleInfo.tcp
          /\ tcp' = [tcp EXCEPT ![i] = [at |-> "loop", port |-> sleInfo.tcp,
                                        shut |-> FALSE]]
          /\ UNCHANGED sleProgram
       \/ /\ sleProgram' = "exit"
          /\ UNCHANGED tcp
    /\ UNCHANGED <<sleInfo, sleThread, sleRunning, raced, tcpRunning, gClient, udpVars,
                   callVars>>

\* while (g_tcp_running): one more client, or the end of the thread.
NextClient(i) ==
    /\ Runs
    /\ tcp[i].at = "loop"
    /\ tcp' = [tcp EXCEPT ![i] = IF tcpRunning THEN [tcp[i] EXCEPT !.at = "accept"]
                                 ELSE Unused]
    /\ UNCHANGED <<mainVars, tcpRunning, gClient, udpVars, callVars>>

\* An accept that fails ends the program too.
Accept(i) ==
    /\ Runs
    /\ tcp[i].at = "accept"
    /\ \/ /\ tcp' = [tcp EXCEPT ![i].at = "serve", ![i].shut = FALSE]
          /\ gClient' = i
          /\ UNCHANGED sleProgram
       \/ /\ sleProgram' = "exit"
          /\ UNCHANGED <<tcp, gClient>>
    /\ UNCHANGED <<sleInfo, sleThread, sleRunning, raced, tcpRunning, udpVars, callVars>>

\* A message of the client; or its end, or the shutdown, after which the thread is
\* joined.
recv_msg(i) ==
    /\ Runs
    /\ tcp[i].at = "serve"
    /\ \/ /\ ~tcp[i].shut
          /\ tcp' = IF tcpRunning THEN tcp ELSE [tcp EXCEPT ![i].at = "loop"]
       \/ /\ tcp' = [tcp EXCEPT ![i].at = "loop", ![i].shut = FALSE]
    /\ UNCHANGED <<mainVars, tcpRunning, gClient, udpVars, callVars>>

\* A thread in accept is not woken.
sle_stop_tcp_server ==
    /\ tcpRunning' = FALSE
    /\ tcp' = [i \in Servers |->
                  IF i = gClient /\ tcp[i].at = "serve" THEN [tcp[i] EXCEPT !.shut = TRUE]
                  ELSE tcp[i]]

(***************************************************************************)
(* UDP                                                                     *)
(***************************************************************************)
Bound(i) == udp[i].at \in {"loop", "recv", "close"}

udp_init ==
    /\ HasFree(udp)
    /\ udpRunning' = TRUE
    /\ udp' = [udp EXCEPT ![Free(udp)].at = "start"]

create_udp_server(i) ==
    /\ Runs
    /\ udp[i].at = "start"
    /\ \/ /\ \A j \in Servers : Bound(j) => udp[j].port # sleInfo.udp
          /\ udp' = [udp EXCEPT ![i] = [at |-> "loop", port |-> sleInfo.udp,
                                        shut |-> FALSE]]
          /\ gUdp' = i
          /\ udpClient' = FALSE
          /\ UNCHANGED sleProgram
       \/ /\ sleProgram' = "exit"
          /\ UNCHANGED <<udp, gUdp, udpClient>>
    /\ UNCHANGED <<sleInfo, sleThread, sleRunning, raced, tcpVars, udpRunning, callVars>>

\* recvfrom: a datagram, whose sender is remembered.  An empty one ends the thread, as
\* a failure does, and as recvfrom returns nothing once the socket is shut.
udp_recv_msg(i) ==
    /\ Runs
    /\ \/ /\ udp[i].at = "loop"
          /\ udp' = [udp EXCEPT ![i].at = IF udpRunning THEN "recv" ELSE "close"]
          /\ UNCHANGED udpClient
       \/ /\ udp[i].at = "recv"
          /\ ~udp[i].shut
          /\ udp' = [udp EXCEPT ![i].at = "loop"]
          /\ udpClient' = TRUE
       \/ /\ udp[i].at = "recv"
          /\ udp' = [udp EXCEPT ![i].at = "close"]
          /\ UNCHANGED udpClient
    /\ UNCHANGED <<mainVars, tcpVars, udpRunning, gUdp, callVars>>

\* create_udp_server joins the thread and closes the socket.
CloseUdp(i) ==
    /\ Runs
    /\ udp[i].at = "close"
    /\ udp' = [udp EXCEPT ![i] = Unused]
    /\ gUdp' = "none"
    /\ UNCHANGED <<mainVars, tcpVars, udpRunning, udpClient, callVars>>

\* A variant with a defect, here and below: named after it.
NoShutdown_sle_stop_udp_server ==
    /\ udpClient' = FALSE
    /\ udpRunning' = FALSE
    /\ UNCHANGED udp

sle_stop_udp_server ==
    /\ udpClient' = FALSE
    /\ udpRunning' = FALSE
    /\ udp' = [i \in Servers |-> IF i = gUdp THEN [udp[i] EXCEPT !.shut = TRUE]
                                 ELSE udp[i]]

\* The socket of the last client is used, which may have been closed (an error
\* nobody looks at).  A client that has closed its end ends the program with SIGPIPE,
\* which nobody handles.
sle_tcp_server_send ==
    /\ gClient # "none"
    /\ tcp[gClient].at = "serve"
    /\ sleProgram' = "exit"

\* Data of the radio goes to the last TCP client, and to the last sender of a
\* datagram, which changes nothing here.
fast_data_recv_cb ==
    /\ Runs
    /\ sleThread \in {"tcp", "udp", "runs"}
    /\ sle_tcp_server_send
    /\ UNCHANGED <<sleInfo, sleThread, sleRunning, raced, tcpVars, udpVars, callVars>>

(***************************************************************************)
(* wtsl_core_sle                                                           *)
(***************************************************************************)
\* Once SLE is enabled, by the configuration or by a request, which may be never;
\* disabling it later does not stop the servers.
SleStarts ==
    /\ Runs
    /\ sleThread = "waits"
    /\ sleThread' = "tcp"
    /\ UNCHANGED <<sleProgram, sleInfo, sleRunning, raced, tcpVars, udpVars, callVars>>

StartTcp ==
    /\ Runs
    /\ sleThread = "tcp"
    /\ tcp_init
    /\ sleThread' = "udp"
    /\ UNCHANGED <<sleProgram, sleInfo, sleRunning, raced, gClient, udpVars, callVars>>

StartUdp ==
    /\ Runs
    /\ sleThread = "udp"
    /\ udp_init
    /\ sleThread' = "runs"
    /\ raced' = (portCall.at = "sleep udp" \/ \E i \in Servers : udp[i].at # "unused")
    /\ UNCHANGED <<sleProgram, sleInfo, sleRunning, tcpVars, gUdp, udpClient,
                   callVars>>

\* The thread ends and disables SLE; the program goes on.
sle_client_deinit ==
    /\ Runs
    /\ sleThread = "runs" /\ ~sleRunning
    /\ sleThread' = "ended"
    /\ UNCHANGED <<sleProgram, sleInfo, sleRunning, raced, tcpVars, udpVars, callVars>>

\* The thread has replaced main's handler of SIGINT and SIGTERM by its own.
register_signal == sleThread \in {"tcp", "udp", "runs", "ended"}

\* Any of the signals; a second one changes nothing more.
signal_handler ==
    /\ Runs
    /\ register_signal /\ sleRunning
    /\ sleRunning' = FALSE
    /\ sle_stop_tcp_server
    /\ sle_stop_udp_server
    /\ UNCHANGED <<sleProgram, sleInfo, sleThread, raced, gClient, gUdp, callVars>>

(***************************************************************************)
(* Handlers                                                                *)
(***************************************************************************)
\* No thread has yet to start, or to end when it was told to and can: what the sleep
\* is for.
Settled(threads, running) ==
    \A i \in Servers :
       /\ threads[i].at \notin {"start", "close"}
       /\ threads[i].at = "loop" => running
       /\ threads[i].at \in {"loop", "serve", "recv"} => ~threads[i].shut

\* What the request has for each transport.
wtsl_core_set_sle_trans_config ==
    /\ Runs
    /\ portCall.at = "idle"
    /\ portChanges < MaxPortChanges
    /\ \E what \in Requested :
          portCall' = [at |-> "tcp", tcp |-> "tcp" \in what, udp |-> "udp" \in what]
    /\ portChanges' = portChanges + 1
    /\ UNCHANGED <<mainVars, tcpVars, udpVars>>

\* TCP is restarted only for another port.
StopTcp ==
    /\ Runs
    /\ portCall.at = "tcp"
    /\ \E p \in Ports :
          IF portCall.tcp /\ p # sleInfo.tcp
          THEN /\ sleInfo' = [sleInfo EXCEPT !.tcp = p]
               /\ sle_stop_tcp_server
               /\ portCall' = [portCall EXCEPT !.at = "sleep tcp"]
          ELSE /\ portCall' = [portCall EXCEPT !.at = "udp"]
               /\ UNCHANGED <<sleInfo, tcp, tcpRunning>>
    /\ UNCHANGED <<sleProgram, sleThread, sleRunning, raced, gClient, udpVars, portChanges>>

RestartTcp ==
    /\ Runs
    /\ portCall.at = "sleep tcp"
    /\ Settled(tcp, tcpRunning)
    /\ tcp_init
    /\ portCall' = [portCall EXCEPT !.at = "udp"]
    /\ UNCHANGED <<mainVars, gClient, udpVars, portChanges>>

\* UDP is restarted for any port.
StopUdp ==
    /\ Runs
    /\ portCall.at = "udp"
    /\ IF portCall.udp
       THEN /\ \E p \in Ports : sleInfo' = [sleInfo EXCEPT !.udp = p]
            /\ sle_stop_udp_server
            /\ portCall' = [portCall EXCEPT !.at = "sleep udp"]
       ELSE /\ portCall' = NoCall
            /\ UNCHANGED <<sleInfo, udp, udpRunning, udpClient>>
    /\ UNCHANGED <<sleProgram, sleThread, sleRunning, raced, tcpVars, gUdp, portChanges>>

StillStopped_RestartUdp ==
    /\ Runs
    /\ portCall.at = "sleep udp"
    /\ Settled(udp, udpRunning)
    /\ HasFree(udp)
    /\ udp' = [udp EXCEPT ![Free(udp)].at = "start"]
    /\ portCall' = NoCall
    /\ UNCHANGED <<mainVars, tcpVars, udpRunning, gUdp, udpClient, portChanges>>

RestartUdp ==
    /\ Runs
    /\ portCall.at = "sleep udp"
    /\ Settled(udp, udpRunning)
    /\ udp_init
    /\ portCall' = NoCall
    /\ UNCHANGED <<mainVars, tcpVars, gUdp, udpClient, portChanges>>

(***************************************************************************)
(* Specification                                                           *)
(***************************************************************************)
TransportInit ==
    /\ sleProgram = "runs"
    /\ LET p == CHOOSE p \in Ports : TRUE IN sleInfo = [tcp |-> p, udp |-> p]
    /\ sleThread = "waits"
    /\ sleRunning = TRUE
    /\ tcp = [i \in Servers |-> Unused]
    /\ tcpRunning = TRUE
    /\ gClient = "none"
    /\ udp = [i \in Servers |-> Unused]
    /\ udpRunning = TRUE
    /\ gUdp = "none"
    /\ udpClient = FALSE
    /\ portCall = NoCall
    /\ portChanges = 0
    /\ raced = FALSE

TcpServer(i) == create_tcp_server(i) \/ NextClient(i) \/ Accept(i) \/ recv_msg(i)
UdpServer(i) == create_udp_server(i) \/ udp_recv_msg(i) \/ CloseUdp(i)

wtsl_core_sle == SleStarts \/ StartTcp \/ StartUdp \/ sle_client_deinit

TransportHandlers ==
    \/ wtsl_core_set_sle_trans_config
    \/ StopTcp \/ RestartTcp \/ StopUdp \/ RestartUdp

TransportNext ==
    \/ \E i \in Servers : TcpServer(i) \/ UdpServer(i)
    \/ fast_data_recv_cb
    \/ wtsl_core_sle
    \/ signal_handler
    \/ TransportHandlers

TransportSpec == TransportInit /\ [][TransportNext]_transportVars

\* The steps of a UDP server that do not wait for a datagram.
UdpProgress(i) ==
    \/ create_udp_server(i) \/ CloseUdp(i)
    \/ (udp[i].at = "loop" \/ udp[i].shut) /\ udp_recv_msg(i)

\* A thread that can run does; the handler, once it is called, sleeps no longer than
\* its second.
TransportFairness ==
    /\ \A i \in Servers : WF_transportVars(UdpProgress(i))
    /\ WF_transportVars(RestartUdp)

(***************************************************************************)
(* Properties                                                              *)
(***************************************************************************)
TransportTypeOK ==
    /\ sleProgram \in {"runs", "exit"}
    /\ sleInfo \in [tcp : Ports, udp : Ports]
    /\ sleThread \in {"waits", "tcp", "udp", "runs", "ended"}
    /\ \A i \in Servers :
          /\ tcp[i].at \in {"unused", "start", "loop", "accept", "serve"}
          /\ udp[i].at \in {"unused", "start", "loop", "recv", "close"}
    /\ gClient \in Servers \cup {"none"} /\ gUdp \in Servers \cup {"none"}
    /\ portCall.at \in {"idle", "tcp", "sleep tcp", "udp", "sleep udp"}

\* While the program runs, at most one UDP server receives, and answers are never
\* sent through the socket of another one (g_udp_server_fd), through all changes of
\* the port and signals between them: unless wtsl_core_sle, which waits up to five
\* seconds after SLE is enabled, has started a server beside that of a handler.  TCP
\* has no such property: a server without a client is not stopped.
OneUdpServer ==
    Runs /\ ~raced =>
        \A i, j \in Servers :
           udp[i].at = "recv" /\ ~udp[i].shut =>
              /\ gUdp \in {i, "none"}
              /\ udp[j].at = "recv" /\ ~udp[j].shut => i = j

\* A handler that changes the UDP port ends with a server that receives on the port
\* of the configuration, unless a signal stops the bridge or the program ends (which
\* it does when the port is taken).
UdpFollowsConfig ==
    portCall.at = "sleep udp" ~>
       \/ ~Runs
       \/ ~sleRunning
       \/ \E i \in Servers : udp[i].at = "recv" /\ ~udp[i].shut /\ udp[i].port = sleInfo.udp
=============================================================================
