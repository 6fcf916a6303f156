--------------------------- MODULE Services_proofs ---------------------------
(* Proofs about the services beside the link, for any users of them: that at  *)
(* most one UDP server of the bridge receives and a scan lists a device once, *)
(* that a peer that has fallen silent leaves the heartbeat's table, that      *)
(* switching traffic shaping off and on puts back what was set, that the      *)
(* switch of the filter tells the policy of the kernel, and that an upload    *)
(* that succeeds removes no line the network manager does not have; and, with *)
(* the proofs about the web server, about all of them together.               *)
EXTENDS MCServices, Sessions_proofs, FiniteSetTheorems, SequenceTheorems, WellFoundedInduction, TLAPS

-----------------------------------------------------------------------------
(***************************************************************************)
(* Types of the transport side                                             *)
(***************************************************************************)
\* Of the threads, what TransportTypeOK says and what keeps it: they are records.
TcpThread == [at : {"unused", "start", "loop", "accept", "serve"}, port : Ports \cup {0},
              shut : BOOLEAN]
UdpThread == [at : {"unused", "start", "loop", "recv", "close"}, port : Ports \cup {0},
              shut : BOOLEAN]
PortCall == [at : {"idle", "tcp", "sleep tcp", "udp", "sleep udp"}, tcp : BOOLEAN, udp : BOOLEAN]
ThreadsOK ==
  tcp \in [Servers -> TcpThread] /\ udp \in [Servers -> UdpThread] /\ portCall \in PortCall

TransportTypes == TransportTypeOK /\ ThreadsOK

\* A thread that is free for a new server is one of the threads.
LEMMA FreeThread ==
  ASSUME NEW threads, HasFree(threads)
  PROVE  Free(threads) \in Servers /\ threads[Free(threads)].at = "unused"
BY DEF HasFree, Free

\* A thread that changes its state, or whose socket is shut, is still one.
LEMMA ThreadRecords ==
  /\ \A t \in TcpThread :
       /\ \A a \in {"unused", "start", "loop", "accept", "serve"} :
            /\ [t EXCEPT !.at = a] \in TcpThread
            /\ [t EXCEPT !.at = a, !.shut = FALSE] \in TcpThread
       /\ [t EXCEPT !.shut = TRUE] \in TcpThread
  /\ \A t \in UdpThread :
       /\ \A a \in {"unused", "start", "loop", "recv", "close"} :
            [t EXCEPT !.at = a] \in UdpThread
       /\ [t EXCEPT !.shut = TRUE] \in UdpThread
  /\ Unused \in TcpThread /\ Unused \in UdpThread
  /\ \A p \in Ports : /\ [at |-> "loop", port |-> p, shut |-> FALSE] \in TcpThread
                       /\ [at |-> "loop", port |-> p, shut |-> FALSE] \in UdpThread
BY DEF TcpThread, UdpThread, Unused

\* The request in hand is a record too.
LEMMA CallRecords ==
  /\ NoCall \in PortCall
  /\ \A c \in PortCall, a \in {"idle", "tcp", "sleep tcp", "udp", "sleep udp"} :
       [c EXCEPT !.at = a] \in PortCall
  /\ \A t, u \in BOOLEAN : [at |-> "tcp", tcp |-> t, udp |-> u] \in PortCall
BY DEF PortCall, NoCall

\* The initial state is of these types: there is a port to listen on.
LEMMA InitTransportTypes ==
  ASSUME TransportInit
  PROVE  TransportTypes
<1>1. sleInfo \in [tcp : Ports, udp : Ports]
  BY TransportAssumption DEF TransportInit
<1>2. ThreadsOK
  BY ThreadRecords, CallRecords DEF TransportInit, ThreadsOK
<1> QED
  BY <1>1, <1>2 DEF TransportInit, TransportTypes, TransportTypeOK, Unused, NoCall

\* What is left of TransportTypeOK when the threads are of their types.
LEMMA ThreadsSuffice ==
  ASSUME TransportTypes, ThreadsOK', sleProgram' \in {"runs", "exit"},
         sleInfo' \in [tcp : Ports, udp : Ports],
         sleThread' \in {"waits", "tcp", "udp", "runs", "ended"},
         gClient' \in Servers \cup {"none"}, gUdp' \in Servers \cup {"none"}
  PROVE  TransportTypes'
BY DEF TransportTypes, TransportTypeOK, ThreadsOK, TcpThread, UdpThread, PortCall

\* A step of a TCP server keeps the types.
LEMMA TcpServerTypes ==
  ASSUME TransportTypes, NEW i \in Servers, TcpServer(i)
  PROVE  TransportTypes'
<1>1. tcp \in [Servers -> TcpThread] /\ tcp[i] \in TcpThread /\ sleInfo.tcp \in Ports
  BY DEF TransportTypes, TransportTypeOK, ThreadsOK
<1>2. tcp' \in [Servers -> TcpThread]
  <2>1. CASE create_tcp_server(i)
    BY <1>1, <2>1, ThreadRecords DEF create_tcp_server
  <2>2. CASE NextClient(i)
    BY <1>1, <2>2, ThreadRecords DEF NextClient
  <2>3. CASE Accept(i)
    <3>1. CASE UNCHANGED tcp
      BY <1>1, <3>1
    <3>2. CASE tcp' = [tcp EXCEPT ![i].at = "serve", ![i].shut = FALSE]
      BY <1>1, <3>2, ThreadRecords
    <3> QED
      BY <2>3, <3>1, <3>2 DEF Accept
  <2>4. CASE recv_msg(i)
    <3>1. CASE tcp' = tcp \/ tcp' = [tcp EXCEPT ![i].at = "loop"]
      BY <1>1, <3>1, ThreadRecords
    <3>2. CASE tcp' = [tcp EXCEPT ![i].at = "loop", ![i].shut = FALSE]
      BY <1>1, <3>2, ThreadRecords
    <3> QED
      BY <2>4, <3>1, <3>2 DEF recv_msg
  <2> QED
    BY <2>1, <2>2, <2>3, <2>4 DEF TcpServer
<1>3. /\ UNCHANGED <<udp, gUdp, portCall, sleInfo, sleThread>>
      /\ sleProgram' \in {sleProgram, "exit"} /\ gClient' \in {gClient, i}
  BY DEF TcpServer, create_tcp_server, NextClient, Accept, recv_msg, mainVars, udpVars, callVars
<1> QED
  BY <1>2, <1>3, ThreadsSuffice DEF TransportTypes, TransportTypeOK, ThreadsOK

\* So does one of a UDP server.
LEMMA UdpServerTypes ==
  ASSUME TransportTypes, NEW i \in Servers, UdpServer(i)
  PROVE  TransportTypes'
<1>1. udp \in [Servers -> UdpThread] /\ udp[i] \in UdpThread /\ sleInfo.udp \in Ports
  BY DEF TransportTypes, TransportTypeOK, ThreadsOK
<1>2. udp' \in [Servers -> UdpThread]
  <2>1. CASE create_udp_server(i)
    BY <1>1, <2>1, ThreadRecords DEF create_udp_server
  <2>2. CASE udp_recv_msg(i)
    BY <1>1, <2>2, ThreadRecords DEF udp_recv_msg
  <2>3. CASE CloseUdp(i)
    BY <1>1, <2>3, ThreadRecords DEF CloseUdp
  <2> QED
    BY <2>1, <2>2, <2>3 DEF UdpServer
<1>3. /\ UNCHANGED <<tcp, gClient, portCall, sleInfo, sleThread>>
      /\ sleProgram' \in {sleProgram, "exit"} /\ gUdp' \in {gUdp, i, "none"}
  BY DEF UdpServer, create_udp_server, udp_recv_msg, CloseUdp, mainVars, tcpVars, callVars
<1> QED
  BY <1>2, <1>3, ThreadsSuffice DEF TransportTypes, TransportTypeOK, ThreadsOK

\* Starting and stopping servers keeps the types of the threads.
LEMMA StartStopTypes ==
  ASSUME TransportTypes
  PROVE  /\ tcp_init \/ sle_stop_tcp_server => tcp' \in [Servers -> TcpThread]
         /\ udp_init \/ sle_stop_udp_server => udp' \in [Servers -> UdpThread]
<1>0. tcp \in [Servers -> TcpThread] /\ udp \in [Servers -> UdpThread]
  BY DEF TransportTypes, ThreadsOK
<1>2. ASSUME sle_stop_tcp_server PROVE tcp' \in [Servers -> TcpThread]
  BY <1>0, <1>2, ThreadRecords DEF sle_stop_tcp_server
<1>3. ASSUME udp_init PROVE udp' \in [Servers -> UdpThread]
  BY <1>0, <1>3, FreeThread, ThreadRecords DEF udp_init
<1>4. ASSUME sle_stop_udp_server PROVE udp' \in [Servers -> UdpThread]
  BY <1>0, <1>4, ThreadRecords DEF sle_stop_udp_server
<1>5. ASSUME tcp_init PROVE tcp' \in [Servers -> TcpThread]
  BY <1>0, <1>5, FreeThread, ThreadRecords DEF tcp_init
<1> QED
  BY <1>2, <1>3, <1>4, <1>5

\* Every step keeps the types.
LEMMA TransportTypesPreserved ==
  ASSUME TransportTypes, [TransportNext]_transportVars
  PROVE  TransportTypes'
<1>0. /\ ThreadsOK /\ sleProgram \in {"runs", "exit"} /\ sleInfo \in [tcp : Ports, udp : Ports]
      /\ sleThread \in {"waits", "tcp", "udp", "runs", "ended"}
      /\ gClient \in Servers \cup {"none"} /\ gUdp \in Servers \cup {"none"}
  BY DEF TransportTypes, TransportTypeOK
<1> USE DEF mainVars, udpVars, tcpVars, callVars
<1>1. ASSUME NEW i \in Servers, TcpServer(i) \/ UdpServer(i) PROVE TransportTypes'
  BY <1>1, TcpServerTypes, UdpServerTypes
<1>2. CASE fast_data_recv_cb
  BY <1>0, <1>2, ThreadsSuffice DEF fast_data_recv_cb, sle_tcp_server_send, ThreadsOK
<1>3. CASE wtsl_core_sle
  <2>1. tcp' \in [Servers -> TcpThread] /\ udp' \in [Servers -> UdpThread]
    BY <1>0, <1>3, StartStopTypes
       DEF wtsl_core_sle, SleStarts, StartTcp, StartUdp, sle_client_deinit, ThreadsOK
  <2>2. /\ UNCHANGED <<sleProgram, sleInfo, gClient, gUdp, portCall>>
        /\ sleThread' \in {"tcp", "udp", "runs", "ended"}
    BY <1>3 DEF wtsl_core_sle, SleStarts, StartTcp, StartUdp, sle_client_deinit
  <2> QED
    BY <1>0, <2>1, <2>2, ThreadsSuffice DEF ThreadsOK
<1>4. CASE signal_handler
  BY <1>0, <1>4, StartStopTypes, ThreadsSuffice DEF signal_handler, ThreadsOK
<1>5. CASE TransportHandlers
  <2>1. tcp' \in [Servers -> TcpThread] /\ udp' \in [Servers -> UdpThread]
    BY <1>0, <1>5, StartStopTypes DEF TransportHandlers, wtsl_core_set_sle_trans_config,
         StopTcp, RestartTcp, StopUdp, RestartUdp, ThreadsOK
  <2>2. sleInfo' \in [tcp : Ports, udp : Ports]
    BY <1>0, <1>5 DEF TransportHandlers, wtsl_core_set_sle_trans_config,
         StopTcp, RestartTcp, StopUdp, RestartUdp
  <2>3. portCall' \in PortCall
    <3>0. portCall \in PortCall
      BY <1>0 DEF ThreadsOK
    <3>1. CASE wtsl_core_set_sle_trans_config
      <4>1. PICK what \in Requested :
              portCall' = [at |-> "tcp", tcp |-> "tcp" \in what, udp |-> "udp" \in what]
        BY <3>1 DEF wtsl_core_set_sle_trans_config
      <4>2. ("tcp" \in what) \in BOOLEAN /\ ("udp" \in what) \in BOOLEAN
        OBVIOUS
      <4> QED
        BY <4>1, <4>2, CallRecords, Zenon
    <3>2. CASE StopTcp
      BY <3>0, <3>2, CallRecords DEF StopTcp
    <3>3. CASE RestartTcp
      BY <3>0, <3>3, CallRecords DEF RestartTcp
    <3>4. CASE StopUdp
      BY <3>0, <3>4, CallRecords DEF StopUdp
    <3>5. CASE RestartUdp
      BY <3>5, CallRecords DEF RestartUdp
    <3> QED
      BY <1>5, <3>1, <3>2, <3>3, <3>4, <3>5 DEF TransportHandlers
  <2>4. UNCHANGED <<sleProgram, sleThread, gClient, gUdp>>
    BY <1>5 DEF TransportHandlers, wtsl_core_set_sle_trans_config,
         StopTcp, RestartTcp, StopUdp, RestartUdp
  <2> QED
    BY <1>0, <2>1, <2>2, <2>3, <2>4, ThreadsSuffice DEF ThreadsOK
<1>6. CASE UNCHANGED transportVars
  BY <1>0, <1>6, ThreadsSuffice DEF transportVars, ThreadsOK
<1> QED
  BY <1>1, <1>2, <1>3, <1>4, <1>5, <1>6 DEF TransportNext

-----------------------------------------------------------------------------
(***************************************************************************)
(* One UDP server                                                          *)
(***************************************************************************)
\* There is no more than one UDP thread, also one that only starts or ends, and the
\* global descriptor is its socket.
OneUdpThread ==
  /\ \A i, j \in Servers : udp[i].at # "unused" /\ udp[j].at # "unused" => i = j
  /\ \A i \in Servers : Bound(i) => gUdp = i

\* While a handler sleeps, no UDP thread is left to receive for good.
ToldToEnd ==
  portCall.at = "sleep udp" =>
    ~udpRunning /\ \A i \in Servers : udp[i].at = "recv" => udp[i].shut

TransportIInv == TransportTypes /\ (Runs /\ ~raced => OneUdpThread /\ ToldToEnd)

\* When the sleep is over, every UDP thread has ended.
LEMMA AllEnded ==
  ASSUME ToldToEnd, portCall.at = "sleep udp", Settled(udp, udpRunning), TransportTypes
  PROVE  \A i \in Servers : udp[i].at = "unused"
BY DEF ToldToEnd, Settled, TransportTypes, TransportTypeOK

\* A thread is started where there is none.
LEMMA FirstThread ==
  ASSUME TransportTypes, \A i \in Servers : udp[i].at = "unused", udp_init,
         portCall'.at # "sleep udp"
  PROVE  OneUdpThread' /\ ToldToEnd'
<1>1. udp \in [Servers -> UdpThread]
  BY DEF TransportTypes, ThreadsOK
<1>2. PICK k \in Servers : udp' = [udp EXCEPT ![k].at = "start"]
  BY FreeThread DEF udp_init
<1>3. \A i \in Servers : udp'[i].at = IF i = k THEN "start" ELSE "unused"
  BY <1>1, <1>2 DEF UdpThread
<1> QED
  BY <1>3 DEF OneUdpThread, ToldToEnd, Bound

\* A stop shuts the socket of the one thread.
LEMMA StopShuts ==
  ASSUME TransportTypes, OneUdpThread, sle_stop_udp_server, UNCHANGED gUdp
  PROVE  OneUdpThread' /\ ToldToEnd'
<1>1. udp \in [Servers -> UdpThread]
  BY DEF TransportTypes, ThreadsOK
<1>2. \A i \in Servers : udp'[i].at = udp[i].at
  BY <1>1 DEF sle_stop_udp_server, UdpThread
<1>3. udp'[gUdp].shut \/ gUdp \notin Servers
  BY <1>1 DEF sle_stop_udp_server, UdpThread
<1>4. gUdp' = gUdp /\ ~udpRunning'
  BY DEF sle_stop_udp_server
<1>5. OneUdpThread'
  BY <1>2, <1>4 DEF OneUdpThread, Bound
<1>6. ToldToEnd'
  BY <1>2, <1>3, <1>4 DEF OneUdpThread, ToldToEnd, Bound
<1> QED
  BY <1>5, <1>6

\* A step of the thread: it binds its socket, ends, or waits for a datagram only
\* when it has not been told to end.
LEMMA UdpServerStep ==
  ASSUME TransportTypes, OneUdpThread, ToldToEnd, NEW k \in Servers, UdpServer(k), Runs'
  PROVE  OneUdpThread' /\ ToldToEnd'
<1>1. udp \in [Servers -> UdpThread] /\ UNCHANGED <<portCall, udpRunning>>
  BY DEF TransportTypes, ThreadsOK, UdpServer, create_udp_server, udp_recv_msg, CloseUdp,
         callVars
<1>2. CASE create_udp_server(k)
  <2>1. /\ udp' = [udp EXCEPT ![k] = [at |-> "loop", port |-> sleInfo.udp, shut |-> FALSE]]
        /\ gUdp' = k /\ udp[k].at = "start"
    BY <1>2 DEF create_udp_server, Runs
  <2>2. \A i \in Servers : IF i = k THEN udp'[i].at = "loop" ELSE udp'[i] = udp[i]
    BY <1>1, <2>1
  <2> QED
    BY <1>1, <2>1, <2>2 DEF OneUdpThread, ToldToEnd, Bound
<1>3. CASE udp_recv_msg(k)
  <2>1. \A i \in Servers :
          /\ i # k => udp'[i] = udp[i]
          /\ udp[i].at = "unused" <=> udp'[i].at = "unused"
          /\ Bound(i)' => Bound(i)
          /\ udp'[i].at = "recv" /\ i = k => udpRunning
    BY <1>1, <1>3 DEF udp_recv_msg, UdpThread, Bound
  <2>2. gUdp' = gUdp
    BY <1>3 DEF udp_recv_msg
  <2> QED
    BY <1>1, <2>1, <2>2 DEF OneUdpThread, ToldToEnd
<1>4. CASE CloseUdp(k)
  <2>1. \A i \in Servers : IF i = k THEN udp'[i].at = "unused" ELSE udp'[i] = udp[i]
    BY <1>1, <1>4 DEF CloseUdp, Unused
  <2>2. udp[k].at = "close"
    BY <1>4 DEF CloseUdp
  <2> QED
    BY <1>1, <2>1, <2>2 DEF OneUdpThread, ToldToEnd, Bound
<1> QED
  BY <1>2, <1>3, <1>4 DEF UdpServer

\* A step that leaves the UDP threads and where the handler sleeps alone.
LEMMA UdpUntouched ==
  ASSUME OneUdpThread, ToldToEnd, UNCHANGED <<udp, gUdp, udpRunning>>,
         portCall'.at = "sleep udp" => portCall.at = "sleep udp"
  PROVE  OneUdpThread' /\ ToldToEnd'
BY DEF OneUdpThread, ToldToEnd, Bound

\* The program does not run again, and only the start of wtsl_core_sle's own server
\* is a race.
LEMMA OnlyRaces ==
  ASSUME [TransportNext]_transportVars, ~StartUdp
  PROVE  (Runs' => Runs) /\ raced' = raced
<1> USE DEF mainVars, Runs
<1>1. ASSUME NEW i \in Servers, TcpServer(i) PROVE Runs /\ raced' = raced
  BY <1>1 DEF TcpServer, create_tcp_server, NextClient, Accept, recv_msg
<1>2. ASSUME NEW i \in Servers, UdpServer(i) PROVE Runs /\ raced' = raced
  BY <1>2 DEF UdpServer, create_udp_server, udp_recv_msg, CloseUdp
<1>3. CASE fast_data_recv_cb \/ SleStarts \/ StartTcp \/ sle_client_deinit \/ signal_handler
  BY <1>3 DEF fast_data_recv_cb, SleStarts, StartTcp, sle_client_deinit, signal_handler
<1>4. CASE TransportHandlers
  BY <1>4 DEF TransportHandlers, wtsl_core_set_sle_trans_config, StopTcp, RestartTcp,
       StopUdp, RestartUdp
<1>5. CASE UNCHANGED transportVars
  BY <1>5 DEF transportVars
<1> QED
  BY <1>1, <1>2, <1>3, <1>4, <1>5 DEF TransportNext, wtsl_core_sle

\* The initial states satisfy the invariant.
LEMMA InitTransportIInv ==
  ASSUME TransportInit
  PROVE  TransportIInv
<1>1. OneUdpThread /\ ToldToEnd
  BY DEF TransportInit, OneUdpThread, ToldToEnd, Bound, Unused, NoCall
<1> QED
  BY <1>1, InitTransportTypes DEF TransportIInv

\* Every step keeps the invariant, unless it ends the program or starts a second
\* server beside a handler's.
LEMMA NextTransportIInv ==
  ASSUME TransportIInv, [TransportNext]_transportVars
  PROVE  TransportIInv'
<1>1. TransportTypes'
  BY TransportTypesPreserved DEF TransportIInv
<1>2. Runs' /\ ~raced' /\ ~StartUdp => Runs /\ ~raced
  BY OnlyRaces
<1>3. ASSUME Runs', ~raced'
      PROVE  OneUdpThread' /\ ToldToEnd'
  <2>1. CASE StartUdp
    <3>1. /\ \A i \in Servers : udp[i].at = "unused"
          /\ udp_init /\ portCall'.at # "sleep udp"
      BY <1>3, <2>1 DEF StartUdp, callVars
    <3> QED
      BY <3>1, FirstThread DEF TransportIInv
  <2>2. CASE ~StartUdp
    <3>0. TransportTypes /\ OneUdpThread /\ ToldToEnd
      BY <1>2, <1>3, <2>2 DEF TransportIInv
    <3>1. ASSUME NEW i \in Servers, UdpServer(i) PROVE OneUdpThread' /\ ToldToEnd'
      BY <1>3, <3>0, <3>1, UdpServerStep
    <3>2. ASSUME NEW i \in Servers, TcpServer(i) PROVE OneUdpThread' /\ ToldToEnd'
      BY <3>0, <3>2, UdpUntouched
         DEF TcpServer, create_tcp_server, NextClient, Accept, recv_msg, udpVars, callVars
    <3>3. CASE fast_data_recv_cb \/ SleStarts \/ StartTcp \/ sle_client_deinit
      BY <3>0, <3>3, UdpUntouched
         DEF fast_data_recv_cb, SleStarts, StartTcp, sle_client_deinit, udpVars, callVars
    <3>4. CASE signal_handler
      BY <3>0, <3>4, StopShuts DEF signal_handler
    <3>5. CASE wtsl_core_set_sle_trans_config \/ StopTcp \/ RestartTcp
      <4>0. portCall \in PortCall
        BY <3>0 DEF TransportTypes, ThreadsOK
      <4>1. UNCHANGED <<udp, gUdp, udpRunning>>
        BY <3>5 DEF wtsl_core_set_sle_trans_config, StopTcp, RestartTcp, udpVars
      <4>2. portCall'.at \in {"tcp", "sleep tcp", "udp"}
        <5>1. CASE wtsl_core_set_sle_trans_config
          BY <5>1 DEF wtsl_core_set_sle_trans_config
        <5>2. CASE StopTcp
          BY <4>0, <5>2 DEF StopTcp, PortCall
        <5>3. CASE RestartTcp
          BY <4>0, <5>3 DEF RestartTcp, PortCall
        <5> QED
          BY <3>5, <5>1, <5>2, <5>3
      <4> QED
        BY <3>0, <4>1, <4>2, UdpUntouched
    <3>6. CASE StopUdp
      <4>1. CASE portCall.udp
        BY <3>0, <3>6, <4>1, StopShuts DEF StopUdp
      <4>2. CASE ~portCall.udp
        <5>1. portCall' = NoCall /\ UNCHANGED <<udp, gUdp, udpRunning>>
          BY <3>6, <4>2 DEF StopUdp
        <5> QED
          BY <3>0, <5>1, UdpUntouched DEF NoCall
      <4> QED
        BY <4>1, <4>2
    <3>7. CASE RestartUdp
      <4>1. \A i \in Servers : udp[i].at = "unused"
        BY <3>0, <3>7, AllEnded DEF RestartUdp
      <4> QED
        BY <3>0, <3>7, <4>1, FirstThread DEF RestartUdp, NoCall
    <3>8. CASE UNCHANGED transportVars
      BY <3>0, <3>8, UdpUntouched DEF transportVars, udpVars, callVars
    <3> QED
      BY <2>2, <3>1, <3>2, <3>3, <3>4, <3>5, <3>6, <3>7, <3>8
         DEF TransportNext, wtsl_core_sle, TransportHandlers
  <2> QED
    BY <2>1, <2>2
<1> QED
  BY <1>1, <1>3 DEF TransportIInv

\* The invariant holds in every state.
LEMMA TransportSpecIInv == TransportSpec => []TransportIInv
<1>1. TransportInit => TransportIInv
  BY InitTransportIInv
<1>2. TransportIInv /\ [TransportNext]_transportVars => TransportIInv'
  BY NextTransportIInv
<1> QED
  BY <1>1, <1>2, PTL DEF TransportSpec

\* The state of the transport side keeps its type.
THEOREM TransportTypeCorrect == TransportSpec => []TransportTypeOK
<1>1. TransportIInv => TransportTypeOK
  BY DEF TransportIInv, TransportTypes
<1> QED
  BY <1>1, TransportSpecIInv, PTL

\* However often the port changes and signals come, at most one UDP server receives
\* and its socket is the one answers go through (sle_stop_udp_server, udp_init).
THEOREM UdpServerIsOne == TransportSpec => []OneUdpServer
<1>1. TransportIInv => OneUdpServer
  BY DEF TransportIInv, OneUdpThread, OneUdpServer, Bound
<1> QED
  BY <1>1, TransportSpecIInv, PTL

-----------------------------------------------------------------------------
(***************************************************************************)
(* Types of the radio side                                                 *)
(***************************************************************************)
\* What is known of the state of the SLE stack and of the announcement.
Stack == [on : BOOLEAN, enabled : BOOLEAN, asked : BOOLEAN,
          dev : {"none", "client", "server"}, seek : BOOLEAN, conn : BOOLEAN,
          write : BOOLEAN, service : {"none", "added", "started"}, param : BOOLEAN,
          data : SUBSET (sle_set_adv_data \cup sle_set_scan_response_data),
          announces : BOOLEAN]
Radio == [enable : BOOLEAN, type : {"G", "T", "other"}, at : {"waits", "up", "exit"}]
Numbers == 0 .. Cardinality(ConnIds)
RadioTypes ==
  /\ radio \in Radio
  /\ stack \in Stack
  /\ links \in [ConnIds -> {"none", "connected", "disconnected"}]
  /\ announce \in [num : Numbers, ids : [1 .. Cardinality(ConnIds) -> ConnIds \cup {0}]]
  /\ seeker \in SleAddresses \cup {"none"}
  /\ radioCall \in {"idle", "seek", "ids"}

\* Whatever is registered, enabled, announced or asked for, the stack keeps its type.
LEMMA StackRecords ==
  ASSUME NEW s \in Stack
  PROVE  /\ enable_sle(s) \in Stack /\ disable_sle(s) \in Stack
         /\ sle_sample_dev_cbk_register(s) \in Stack
         /\ sle_sample_seek_cbk_register(s) \in Stack
         /\ sle_sample_connect_cbk_register(s) \in Stack
         /\ sle_simple_ota_init(s) \in Stack
         /\ sle_ssaps_register_cbks(s) \in Stack
         /\ sle_uart_announce_register_cbks(s) \in Stack
         /\ sle_set_default_announce_param(s) \in Stack
         /\ sle_set_default_announce_data(s) \in Stack
         /\ [s EXCEPT !.enabled = FALSE] \in Stack
         /\ [s EXCEPT !.announces = TRUE] \in Stack
         /\ [s EXCEPT !.asked = TRUE] \in Stack
         /\ \A service \in sle_uart_server_add : [s EXCEPT !.service = service] \in Stack
         /\ \A a \in BOOLEAN : [s EXCEPT !.asked = FALSE, !.announces = a] \in Stack
<1>1. /\ [s EXCEPT !.dev = "client"] \in Stack /\ [s EXCEPT !.dev = "server"] \in Stack
      /\ [s EXCEPT !.seek = TRUE] \in Stack /\ [s EXCEPT !.seek = FALSE] \in Stack
      /\ [s EXCEPT !.conn = TRUE] \in Stack /\ [s EXCEPT !.write = TRUE] \in Stack
      /\ [s EXCEPT !.param = TRUE] \in Stack
  BY DEF Stack
<1>2. /\ [s EXCEPT !.on = TRUE, !.enabled = TRUE] \in Stack
      /\ [s EXCEPT !.on = FALSE, !.announces = FALSE] \in Stack
      /\ [s EXCEPT !.enabled = FALSE] \in Stack
      /\ [s EXCEPT !.announces = TRUE] \in Stack /\ [s EXCEPT !.asked = TRUE] \in Stack
  BY DEF Stack
<1>3. [s EXCEPT !.data = sle_set_adv_data \cup sle_set_scan_response_data] \in Stack
  BY DEF Stack
<1>4. \A service \in sle_uart_server_add : [s EXCEPT !.service = service] \in Stack
  BY DEF Stack, sle_uart_server_add
<1>5. \A a \in BOOLEAN : [s EXCEPT !.asked = FALSE, !.announces = a] \in Stack
  BY DEF Stack
<1> QED
  BY <1>1, <1>2, <1>3, <1>4, <1>5
     DEF enable_sle, disable_sle, sle_sample_dev_cbk_register, sle_sample_seek_cbk_register,
         sle_sample_connect_cbk_register, sle_simple_ota_init, sle_ssaps_register_cbks,
         sle_uart_announce_register_cbks, sle_set_default_announce_param,
         sle_set_default_announce_data

\* What a T node announces keeps the type too.
LEMMA AnnouncedRecords ==
  ASSUME NEW s \in Stack, NEW r \in sle_uart_server_adv_init(s)
  PROVE  r \in Stack
<1> DEFINE prepared == sle_set_default_announce_data(sle_set_default_announce_param(s))
<1>1. prepared \in Stack
  BY StackRecords
<1>2. [prepared EXCEPT !.announces = TRUE] \in Stack
  BY <1>1, StackRecords
<1>3. r = prepared \/ r = [prepared EXCEPT !.announces = TRUE]
  BY Zenon DEF sle_uart_server_adv_init
<1> HIDE DEF prepared
<1> QED
  BY <1>1, <1>2, <1>3

\* The start of a G or T node keeps the type of the stack.
LEMMA StackStarts ==
  ASSUME stack \in Stack
  PROVE  sle_client_init \in Stack /\ sle_server_init \in Stack
BY StackRecords DEF sle_client_init, sle_server_init

\* The initial states are of these types.
LEMMA InitRadioTypes ==
  ASSUME RadioInit
  PROVE  RadioTypes
<1>1. Cardinality(ConnIds) \in Nat
  BY RadioAssumption, FS_CardinalityType
<1>2. stack \in Stack
  BY DEF RadioInit, Stack
<1>3. announce \in [num : Numbers, ids : [1 .. Cardinality(ConnIds) -> ConnIds \cup {0}]]
  BY <1>1 DEF RadioInit, Numbers
<1> QED
  BY <1>2, <1>3 DEF RadioInit, RadioTypes, Radio

\* Every step keeps the types.
LEMMA RadioTypesPreserved ==
  ASSUME RadioTypes, [RadioNext]_radioVars
  PROVE  RadioTypes'
<1> USE DEF RadioTypes
<1>1. CASE SleStart
  BY <1>1, StackStarts DEF SleStart, Radio
<1>2. CASE EnableCallback
  <2>1. stack' \in Stack
    <3> DEFINE done == [stack EXCEPT !.enabled = FALSE]
    <3>1. done \in Stack
      BY StackRecords
    <3>2. \A s \in sle_uart_server_init(done) : s \in Stack
      <4>1. /\ sle_sample_connect_cbk_register(done) \in Stack
            /\ sle_ssaps_register_cbks(sle_sample_connect_cbk_register(done)) \in Stack
            /\ sle_uart_announce_register_cbks(
                 sle_ssaps_register_cbks(sle_sample_connect_cbk_register(done))) \in Stack
        BY <3>1, StackRecords
      <4> QED
        BY <3>1, <4>1, Zenon DEF sle_uart_server_init
    <3>3. \A s \in Stack : \A r \in sle_uart_server_adv_init(s) : r \in Stack
      BY AnnouncedRecords
    <3>4. ASSUME NEW s \in sle_uart_server_init(done), NEW service \in sle_uart_server_add,
                 stack' \in sle_uart_server_adv_init([s EXCEPT !.service = service])
          PROVE  stack' \in Stack
      <4>1. [s EXCEPT !.service = service] \in Stack
        BY <3>2, StackRecords
      <4> QED
        BY <3>3, <3>4, <4>1, Zenon
    <3> QED
      BY <1>2, <3>1, <3>4, Zenon DEF EnableCallback
  <2> QED
    BY <1>2, <2>1 DEF EnableCallback
<1>3. CASE SeekResult \/ SeekStores
  BY <1>3 DEF SeekResult, SeekStores
<1>4. CASE sle_sample_connect_state_changed_cbk
  <2>1. PICK id \in ConnIds, state \in {"none", "connected", "disconnected"} :
          /\ links' = [links EXCEPT ![id] = state]
          /\ stack' = [stack EXCEPT !.asked = FALSE,
                                   !.announces = stack.announces /\ state # "connected"]
    BY <1>4 DEF sle_sample_connect_state_changed_cbk
  <2>2. (stack.announces /\ state # "connected") \in BOOLEAN
    OBVIOUS
  <2>3. stack' \in Stack
    BY <2>1, <2>2, StackRecords, Zenon
  <2> QED
    BY <1>4, <2>1, <2>3 DEF sle_sample_connect_state_changed_cbk
<1>5. CASE recv_ota_ack
  BY <1>5 DEF recv_ota_ack, Radio
<1>6. CASE sle_client_senddata \/ UsedUp
  <2>1. Cardinality(ConnIds) \in Nat
    BY RadioAssumption, FS_CardinalityType
  <2> QED
    BY <1>6, <2>1 DEF sle_client_senddata, UsedUp, Numbers
<1>7. CASE wtsl_core_sle_start_scan \/ ShowConnections
  BY <1>7 DEF wtsl_core_sle_start_scan, ShowConnections, MayCall
<1>8. CASE wtsl_core_sle_connect
  BY <1>8, StackRecords DEF wtsl_core_sle_connect, MayCall
<1>9. CASE wtsl_core_set_announce_id
  BY <1>9 DEF wtsl_core_set_announce_id, MayCall, Numbers
<1>10. CASE wtsl_core_set_sle_basicinfo
  <2>1. radio' \in Radio
    BY <1>10 DEF wtsl_core_set_sle_basicinfo, Radio
  <2> QED
    BY <1>10, <2>1, StackRecords DEF wtsl_core_set_sle_basicinfo, MayCall
<1>11. CASE UNCHANGED radioVars
  BY <1>11 DEF radioVars
<1> QED
  BY <1>1, <1>2, <1>3, <1>4, <1>5, <1>6, <1>7, <1>8, <1>9, <1>10, <1>11 DEF RadioNext

-----------------------------------------------------------------------------
(***************************************************************************)
(* A scan lists a device once                                              *)
(***************************************************************************)
\* No device is stored twice, and the one being reported is not stored yet: the
\* comparison and the storing are two steps, and a scan may begin between them.
FoundOnce ==
  /\ found \in Seq(SleAddresses)
  /\ \A j, k \in 1 .. Len(found) : found[j] = found[k] => j = k
  /\ seeker # "none" => \A k \in 1 .. Len(found) : found[k] # seeker

RadioIInv == RadioTypes /\ FoundOnce /\ SeekDistinct

\* The initial states satisfy the invariant.
LEMMA InitRadioIInv == RadioInit => RadioIInv
<1> SUFFICES ASSUME RadioInit PROVE RadioIInv
  OBVIOUS
<1>1. found = << >> /\ shown = << >> /\ seeker = "none"
  BY DEF RadioInit
<1>2. FoundOnce /\ SeekDistinct
  BY <1>1 DEF FoundOnce, SeekDistinct
<1> QED
  BY <1>2, InitRadioTypes DEF RadioIInv

\* The connections are listed in their order, and so each of them once.
LEMMA ConnectionsDistinct ==
  ASSUME NEW list \in wtsl_core_sle_conninfo
  PROVE  \A j, k \in 1 .. Len(list) : list[j] = list[k] => j = k
<1>1. IsFiniteSet(Connected) /\ Connected \subseteq Nat
  BY RadioAssumption, FS_Subset DEF Connected
<1>2. Cardinality(Connected) \in Nat
  BY <1>1, FS_CardinalityType
<1>3. list \in [1 .. Cardinality(Connected) -> Connected]
  BY DEF wtsl_core_sle_conninfo
<1>4. Len(list) = Cardinality(Connected)
  BY <1>2, <1>3
<1>5. \A j, k \in 1 .. Cardinality(Connected) : j < k => list[j] < list[k]
  BY <1>3 DEF wtsl_core_sle_conninfo
<1>6. \A j \in 1 .. Cardinality(Connected) : list[j] \in Nat
  BY <1>1, <1>3
<1> QED
  BY <1>2, <1>4, <1>5, <1>6

\* A device that is stored was not stored before.
LEMMA NewFound ==
  ASSUME FoundOnce, seeker \in SleAddresses, SeekStores
  PROVE  FoundOnce'
<1>1. /\ found \in Seq(SleAddresses) /\ found' = Append(found, seeker)
      /\ seeker # "none" /\ seeker' = "none"
  BY DEF SeekStores, FoundOnce
<1>2. /\ found' \in Seq(SleAddresses) /\ Len(found) \in Nat /\ Len(found') = Len(found) + 1
      /\ \A k \in 1 .. Len(found) : found'[k] = found[k]
      /\ found'[Len(found) + 1] = seeker
  BY <1>1
<1> QED
  BY <1>1, <1>2 DEF FoundOnce

\* Every step keeps the invariant.
LEMMA NextRadioIInv == RadioIInv /\ [RadioNext]_radioVars => RadioIInv'
<1> SUFFICES ASSUME RadioIInv, [RadioNext]_radioVars PROVE RadioIInv'
  OBVIOUS
<1>1. RadioTypes'
  BY RadioTypesPreserved DEF RadioIInv
<1>2. FoundOnce' /\ SeekDistinct'
  <2>0. RadioTypes /\ FoundOnce /\ SeekDistinct
    BY DEF RadioIInv
  <2>1. CASE UNCHANGED <<found, seeker, shown>>
    BY <2>0, <2>1 DEF FoundOnce, SeekDistinct
  <2>2. CASE SeekResult
    BY <2>0, <2>2 DEF SeekResult, IsNew, FoundOnce, SeekDistinct
  <2>3. CASE SeekStores
    <3>1. seeker \in SleAddresses /\ shown' = shown
      BY <2>0, <2>3 DEF SeekStores, RadioTypes
    <3> QED
      BY <2>0, <2>3, <3>1, NewFound DEF SeekDistinct
  <2>4. CASE wtsl_core_sle_start_scan
    <3>1. CASE found' = << >> /\ UNCHANGED <<seeker, shown>>
      BY <2>0, <3>1 DEF FoundOnce, SeekDistinct
    <3>2. CASE shown' = found /\ UNCHANGED <<found, seeker>>
      BY <2>0, <3>2 DEF FoundOnce, SeekDistinct
    <3> QED
      BY <2>4, <3>1, <3>2 DEF wtsl_core_sle_start_scan, wtsl_core_sle_show_bss
  <2>5. CASE ShowConnections
    <3>1. shown' \in wtsl_core_sle_conninfo /\ UNCHANGED <<found, seeker>>
      BY <2>5 DEF ShowConnections
    <3> QED
      BY <2>0, <3>1, ConnectionsDistinct DEF FoundOnce, SeekDistinct
  <2> QED
    BY <2>1, <2>2, <2>3, <2>4, <2>5
       DEF RadioNext, SleStart, EnableCallback, sle_sample_connect_state_changed_cbk,
           recv_ota_ack, sle_client_senddata, UsedUp, wtsl_core_sle_connect,
           wtsl_core_set_announce_id, wtsl_core_set_sle_basicinfo, radioVars
<1> QED
  BY <1>1, <1>2 DEF RadioIInv

\* The invariant holds in every state.
LEMMA RadioSpecIInv == RadioSpec => []RadioIInv
BY InitRadioIInv, NextRadioIInv, PTL DEF RadioSpec

\* The state of the radio side keeps its type.
THEOREM RadioTypeCorrect == RadioSpec => []RadioTypeOK
<1>1. RadioIInv => RadioTypeOK
  BY DEF RadioIInv, RadioTypes, RadioTypeOK, Radio, Stack, Numbers
<1> QED
  BY <1>1, RadioSpecIInv, PTL

\* The answer to a scan lists a device once, whichever thread stores what when
\* (sle_sample_seek_result_info_cbk, wtsl_core_sle_start_scan).
THEOREM ScanListsOnce == RadioSpec => []SeekDistinct
<1>1. RadioIInv => SeekDistinct
  BY DEF RadioIInv
<1> QED
  BY <1>1, RadioSpecIInv, PTL

-----------------------------------------------------------------------------
(***************************************************************************)
(* The heartbeat between G nodes                                           *)
(***************************************************************************)
McRow == [ip : McPeers, last : 0 .. MaxClock]

\* The types: the table is a list of rows that is not longer than mc_nodes.
McTypes ==
  /\ mcThread \in {"start", "init", "loop", "clean", "select", "exit"}
  /\ clock \in 0 .. MaxClock
  /\ lastSend \in 0 .. MaxClock
  /\ mcNodes \in Seq(McRow) /\ Len(mcNodes) <= MAX_MC_NODES
  /\ mcThread \in {"start", "init"} => mcNodes = << >>
  /\ roundSeconds \in 0 .. MaxRound

\* No peer has two rows.
PeersDiffer(rows) == \A i, j \in 1 .. Len(rows) : rows[i].ip = rows[j].ip => i = j

\* The rows were not older than NODE_TIMEOUT when the thread last sent; from its next
\* sending to the cleaning after it they may be older by HEARTBEAT_INTERVAL and a round.
RowsInTime ==
  \A i \in 1 .. Len(mcNodes) :
    IF mcThread = "clean"
    THEN lastSend < mcNodes[i].last + NODE_TIMEOUT + HEARTBEAT_INTERVAL + MaxRound
    ELSE lastSend <= mcNodes[i].last + NODE_TIMEOUT

\* While nobody sets the clock the thread is never later than HEARTBEAT_INTERVAL and
\* the seconds of its round after its last sending, once there are rows.
InTime ==
  ~clockSet /\ mcThread # "exit" =>
    /\ lastSend <= clock
    /\ mcThread = "select" \/ (mcThread = "loop" /\ mcNodes # << >>)
         => clock < lastSend + HEARTBEAT_INTERVAL + roundSeconds
    /\ mcThread = "clean" => clock = lastSend + roundSeconds
    /\ RowsInTime

McIInv == McTypes /\ PeersDiffer(mcNodes) /\ InTime

\* The constants are numbers.
LEMMA McConstants ==
  /\ HEARTBEAT_INTERVAL \in Nat /\ HEARTBEAT_INTERVAL > 0 /\ HEARTBEAT_INTERVAL <= MaxClock
  /\ NODE_TIMEOUT \in Nat /\ MAX_MC_NODES \in Nat /\ MaxClock \in Nat /\ MaxRound \in Nat
BY McAssumption

\* Cleaning keeps some of the rows, those that have not timed out.
LEMMA CleanedRows ==
  ASSUME NEW rows \in Seq(McRow), PeersDiffer(rows),
         NEW kept \in clean_timeout_mc_nodes(rows)
  PROVE  /\ kept \in Seq(McRow) /\ Len(kept) <= Len(rows) /\ PeersDiffer(kept)
         /\ \A k \in 1 .. Len(kept) : ~TimedOut(kept[k])
<1> DEFINE n == Cardinality(Kept(rows))
<1>1. Kept(rows) \subseteq 1 .. Len(rows) /\ Len(rows) \in Nat
  BY DEF Kept
<1>2. IsFiniteSet(1 .. Len(rows)) /\ Cardinality(1 .. Len(rows)) = Len(rows)
  <2>1. 1 \in Int /\ Len(rows) \in Int /\ Len(rows) - 1 + 1 = Len(rows)
    BY <1>1
  <2>2. Len(rows) < 1 => Len(rows) = 0
    BY <1>1
  <2> QED
    BY <2>1, <2>2, FS_Interval
<1>3. n \in Nat /\ n <= Len(rows)
  BY <1>1, <1>2, FS_Subset, FS_CardinalityType
<1>4. PICK place \in [1 .. n -> Kept(rows)] :
        /\ \A j, k \in DOMAIN place : j < k => place[j] < place[k]
        /\ kept = [k \in DOMAIN place |-> rows[place[k]]]
  BY DEF clean_timeout_mc_nodes
<1> HIDE DEF n
<1>5. \A k \in 1 .. n : place[k] \in 1 .. Len(rows) /\ kept[k] = rows[place[k]]
                        /\ ~TimedOut(kept[k]) /\ kept[k] \in McRow
  BY <1>1, <1>4 DEF Kept
<1>6. kept \in Seq(McRow) /\ Len(kept) = n
  BY <1>3, <1>4, <1>5
<1>7. ASSUME NEW j \in 1 .. n, NEW k \in 1 .. n, kept[j].ip = kept[k].ip
      PROVE  j = k
  <2>1. place[j] = place[k]
    BY <1>5, <1>7 DEF PeersDiffer
  <2>2. ~(j < k) /\ ~(k < j)
    BY <1>1, <1>4, <1>5, <2>1
  <2> QED
    BY <1>3, <2>2
<1> QED
  BY <1>3, <1>5, <1>6, <1>7 DEF PeersDiffer

\* A heartbeat refreshes the row of its peer or adds one, if there is room.
LEMMA UpdatedRows ==
  ASSUME McTypes, PeersDiffer(mcNodes), NEW ip \in McPeers
  PROVE  LET rows == update_node_list(ip)
         IN  /\ rows \in Seq(McRow) /\ Len(rows) <= MAX_MC_NODES /\ PeersDiffer(rows)
             /\ \A k \in 1 .. Len(rows) :
                  \/ rows[k].last = clock
                  \/ k \in 1 .. Len(mcNodes) /\ rows[k] = mcNodes[k]
<1>1. /\ mcNodes \in Seq(McRow) /\ Len(mcNodes) \in Nat /\ clock \in 0 .. MaxClock
      /\ Len(mcNodes) <= MAX_MC_NODES
  BY DEF McTypes
<1>2. \A k \in 1 .. Len(mcNodes) : mcNodes[k] \in McRow
  BY <1>1
<1> DEFINE seen == \E i \in 1 .. Len(mcNodes) : mcNodes[i].ip = ip
           row == [ip |-> ip, last |-> clock]
           fresh(k) == IF mcNodes[k].ip = ip THEN [mcNodes[k] EXCEPT !.last = clock]
                       ELSE mcNodes[k]
           refreshed == [k \in 1 .. Len(mcNodes) |-> fresh(k)]
<1>3. CASE seen
  <2>1. update_node_list(ip) = refreshed
    BY <1>3 DEF update_node_list
  <2>2. \A k \in 1 .. Len(mcNodes) :
          /\ fresh(k) \in McRow /\ fresh(k).ip = mcNodes[k].ip
          /\ fresh(k).last = clock \/ fresh(k) = mcNodes[k]
    BY <1>1, <1>2 DEF McRow
  <2> HIDE DEF fresh
  <2>3. refreshed \in Seq(McRow) /\ Len(refreshed) = Len(mcNodes)
    BY <1>1, <2>2
  <2>4. \A k \in 1 .. Len(mcNodes) : refreshed[k] = fresh(k)
    OBVIOUS
  <2> HIDE DEF refreshed
  <2> QED
    BY <1>1, <2>1, <2>2, <2>3, <2>4 DEF PeersDiffer
<1>4. CASE ~seen /\ Len(mcNodes) < MAX_MC_NODES
  <2>1. update_node_list(ip) = Append(mcNodes, row)
    BY <1>4 DEF update_node_list
  <2>2. row \in McRow /\ row.ip = ip /\ row.last = clock
    BY <1>1 DEF McRow
  <2> HIDE DEF row
  <2>3. /\ Append(mcNodes, row) \in Seq(McRow)
        /\ Len(Append(mcNodes, row)) = Len(mcNodes) + 1
        /\ \A k \in 1 .. Len(mcNodes) : Append(mcNodes, row)[k] = mcNodes[k]
        /\ Append(mcNodes, row)[Len(mcNodes) + 1] = row
    BY <1>1, <2>2
  <2> DEFINE rows == Append(mcNodes, row)
  <2> HIDE DEF rows
  <2>4. PeersDiffer(rows)
    BY <1>1, <1>4, <2>2, <2>3 DEF PeersDiffer, rows
  <2>5. \A k \in 1 .. Len(rows) :
          \/ rows[k].last = clock
          \/ k \in 1 .. Len(mcNodes) /\ rows[k] = mcNodes[k]
    <3>1. Len(rows) = Len(mcNodes) + 1
      BY <2>3 DEF rows
    <3>2. \A k \in 1 .. Len(rows) : k \in 1 .. Len(mcNodes) \/ k = Len(mcNodes) + 1
      BY <1>1, <3>1
    <3> QED
      <4>1. ASSUME NEW k \in 1 .. Len(mcNodes)
            PROVE  rows[k] = mcNodes[k]
        BY <2>3 DEF rows
      <4>2. rows[Len(mcNodes) + 1].last = clock
        BY <2>2, <2>3 DEF rows
      <4> QED
        BY <3>2, <4>1, <4>2
  <2> QED
    BY <1>1, <1>4, <2>1, <2>3, <2>4, <2>5, McConstants DEF rows
<1>5. CASE ~seen /\ ~(Len(mcNodes) < MAX_MC_NODES)
  BY <1>1, <1>5 DEF update_node_list
<1> QED
  BY <1>3, <1>4, <1>5

\* The initial states satisfy the invariant.
LEMMA InitMcIInv == McInit => McIInv
<1> SUFFICES ASSUME McInit PROVE McIInv
  OBVIOUS
<1>1. clock \in 0 .. MaxClock /\ lastSend \in 0 .. MaxClock
  BY McConstants DEF McInit
<1>2. mcNodes = << >> /\ Len(mcNodes) = 0
  BY DEF McInit
<1>3. McTypes
  <2>1. mcNodes \in Seq(McRow)
    BY <1>2
  <2>2. Len(mcNodes) <= MAX_MC_NODES
    BY <1>2, McConstants
  <2> QED
    BY <1>1, <1>2, <2>1, <2>2, McConstants DEF McInit, McTypes
<1>4. InTime
  BY <1>2, McConstants DEF McInit, InTime, RowsInTime
<1> QED
  BY <1>2, <1>3, <1>4 DEF McIInv, PeersDiffer

\* The top of a round: it is not too late when there is a row.
LEMMA RoundInTime ==
  ASSUME McIInv, Round
  PROVE  McIInv'
<1> USE McConstants DEF McIInv
<1>1. /\ mcThread = "loop" /\ roundSeconds' = 0
      /\ UNCHANGED <<clock, mcNodes, clockSet>>
  BY DEF Round
<1>2. CASE TimeToSend
  <2>1. lastSend' = clock /\ mcThread' = "clean"
    BY <1>2 DEF Round, send_heartbeat
  <2>2. ASSUME ~clockSet, NEW i \in 1 .. Len(mcNodes)
        PROVE  clock < mcNodes[i].last + NODE_TIMEOUT + HEARTBEAT_INTERVAL + MaxRound
    <3>1. mcNodes[i] \in McRow
      BY DEF McTypes
    <3>2. mcNodes[i].last \in Nat
      BY <3>1 DEF McRow
    <3>3. mcNodes # << >>
      BY <2>2
    <3>4. clock < lastSend + HEARTBEAT_INTERVAL + roundSeconds
      BY <1>1, <2>2, <3>3 DEF InTime
    <3>5. lastSend <= mcNodes[i].last + NODE_TIMEOUT
      BY <1>1, <2>2 DEF InTime, RowsInTime
    <3> QED
      BY <3>2, <3>4, <3>5 DEF McTypes
  <2>3. McTypes'
    BY <1>1, <2>1 DEF McTypes
  <2>4. InTime'
    BY <1>1, <2>1, <2>2 DEF McTypes, InTime, RowsInTime
  <2> QED
    BY <1>1, <2>3, <2>4 DEF PeersDiffer
<1>3. CASE ~TimeToSend
  <2>1. mcThread' = "select" /\ lastSend' = lastSend
    BY <1>2, <1>3 DEF Round
  <2>2. clock < lastSend + HEARTBEAT_INTERVAL
    BY <1>3 DEF TimeToSend, McTypes
  <2>3. McTypes'
    BY <1>1, <2>1 DEF McTypes
  <2>4. InTime'
    BY <1>1, <2>1, <2>2 DEF McTypes, InTime, RowsInTime
  <2> QED
    BY <1>1, <2>3, <2>4 DEF PeersDiffer
<1> QED
  BY <1>2, <1>3

\* The cleaning leaves rows that have not timed out.
LEMMA CleanInTime ==
  ASSUME McIInv, Clean
  PROVE  McIInv'
<1> USE McConstants DEF McIInv
<1>1. /\ mcNodes' \in Seq(McRow) /\ Len(mcNodes') <= Len(mcNodes)
      /\ PeersDiffer(mcNodes')
      /\ \A k \in 1 .. Len(mcNodes') : ~TimedOut(mcNodes'[k])
  BY CleanedRows DEF Clean, McTypes
<1>2. /\ mcThread = "clean" /\ mcThread' = "select"
      /\ UNCHANGED <<clock, lastSend, roundSeconds, clockSet>>
  BY DEF Clean
<1>3. \A k \in 1 .. Len(mcNodes') : mcNodes'[k] \in McRow
  BY <1>1
<1>4. \A k \in 1 .. Len(mcNodes') : clock <= mcNodes'[k].last + NODE_TIMEOUT
  BY <1>1, <1>3 DEF TimedOut, McTypes, McRow
<1>5. McTypes'
  <2>1. Len(mcNodes') \in Nat /\ Len(mcNodes) \in Nat /\ Len(mcNodes) <= MAX_MC_NODES
    BY <1>1 DEF McTypes
  <2>2. Len(mcNodes') <= MAX_MC_NODES
    BY <1>1, <2>1
  <2> QED
    BY <1>1, <1>2, <2>2 DEF McTypes
<1>6. ~clockSet => clock = lastSend + roundSeconds
  BY <1>2 DEF InTime
<1>7. ASSUME ~clockSet PROVE RowsInTime'
  <2>1. \A k \in 1 .. Len(mcNodes') : lastSend <= mcNodes'[k].last + NODE_TIMEOUT
    <3> TAKE k \in 1 .. Len(mcNodes')
    <3>1. mcNodes'[k].last \in Nat
      BY <1>3 DEF McRow
    <3>2. clock <= mcNodes'[k].last + NODE_TIMEOUT
      BY <1>4
    <3> QED
      BY <1>6, <1>7, <3>1, <3>2 DEF McTypes
  <2> QED
    BY <1>2, <2>1 DEF RowsInTime
<1>8. InTime'
  BY <1>2, <1>6, <1>7 DEF InTime, McTypes
<1> QED
  BY <1>1, <1>5, <1>8 DEF PeersDiffer

\* A datagram refreshes a row, or adds one.
LEMMA RecvInTime ==
  ASSUME McIInv, recv_heartbeats
  PROVE  McIInv'
<1> USE McConstants DEF McIInv
<1>1. /\ mcThread = "select" /\ mcThread' = "loop"
      /\ UNCHANGED <<clock, lastSend, roundSeconds, clockSet>>
  BY DEF recv_heartbeats
<1>2. PICK from \in McPeers \cup {"other"} :
        mcNodes' = IF from \in McPeers THEN update_node_list(from) ELSE mcNodes
  BY DEF recv_heartbeats
<1>3. CASE from \in McPeers
  <2>1. /\ mcNodes' \in Seq(McRow) /\ Len(mcNodes') <= MAX_MC_NODES
        /\ PeersDiffer(mcNodes')
        /\ \A k \in 1 .. Len(mcNodes') :
             \/ mcNodes'[k].last = clock
             \/ k \in 1 .. Len(mcNodes) /\ mcNodes'[k] = mcNodes[k]
    BY <1>2, <1>3, UpdatedRows
  <2>2. McTypes'
    BY <1>1, <2>1 DEF McTypes
  <2>3. ~clockSet => RowsInTime'
    BY <1>1, <2>1 DEF InTime, RowsInTime, McTypes
  <2>4. InTime'
    BY <1>1, <2>3 DEF InTime, McTypes
  <2> QED
    BY <2>1, <2>2, <2>4 DEF PeersDiffer
<1>4. CASE from \notin McPeers
  <2>1. mcNodes' = mcNodes
    BY <1>2, <1>4
  <2>2. InTime'
    BY <1>1, <2>1 DEF InTime, RowsInTime, McTypes
  <2> QED
    BY <1>1, <2>1, <2>2 DEF McTypes, PeersDiffer
<1> QED
  BY <1>3, <1>4

\* Every step keeps it.
LEMMA NextMcIInv == McIInv /\ [McNext]_mcVars => McIInv'
<1> SUFFICES ASSUME McIInv, [McNext]_mcVars PROVE McIInv'
  OBVIOUS
<1> USE McConstants DEF McIInv
<1>1. CASE init_send_socket \/ init_recv_socket \/ McStop \/ SelectTimeout
  <2>1. /\ mcThread' \in {"init", "loop", "exit"}
        /\ mcThread' = "init" => mcThread = "start"
        /\ mcThread' = "loop" => mcThread \in {"init", "select"}
        /\ UNCHANGED <<clock, lastSend, mcNodes, roundSeconds, clockSet>>
    BY <1>1 DEF init_send_socket, init_recv_socket, McStop, SelectTimeout
  <2>2. McTypes' /\ PeersDiffer(mcNodes')
    BY <2>1 DEF McTypes, PeersDiffer
  <2>3. mcThread = "init" => mcNodes = << >>
    BY DEF McTypes
  <2>4. mcThread # "exit"
    BY <1>1 DEF init_send_socket, init_recv_socket, McStop, SelectTimeout
  <2>5. InTime'
    BY <2>1, <2>3, <2>4 DEF InTime, RowsInTime
  <2> QED
    BY <2>2, <2>5
<1>2. CASE Round
  BY <1>2, RoundInTime
<1>3. CASE Clean
  BY <1>3, CleanInTime
<1>4. CASE recv_heartbeats
  BY <1>4, RecvInTime
<1>5. CASE McTick
  <2>1. /\ clock' = clock + 1 /\ roundSeconds' = roundSeconds + 1
        /\ mcThread \in {"loop", "clean", "select"} /\ clock < MaxClock
        /\ roundSeconds < MaxRound
        /\ UNCHANGED <<mcThread, lastSend, mcNodes, clockSet>>
    BY <1>5 DEF McTick
  <2>2. McTypes' /\ PeersDiffer(mcNodes')
    BY <2>1 DEF McTypes, PeersDiffer
  <2>3. InTime'
    BY <2>1 DEF InTime, RowsInTime, McTypes
  <2> QED
    BY <2>2, <2>3
<1>6. CASE SetClock
  BY <1>6 DEF SetClock, McTypes, PeersDiffer, InTime
<1>7. CASE UNCHANGED mcVars
  BY <1>7 DEF mcVars, McTypes, PeersDiffer, InTime, RowsInTime
<1> QED
  BY <1>1, <1>2, <1>3, <1>4, <1>5, <1>6, <1>7
     DEF McNext, wtsl_core_splink_gnode_service

\* The invariant holds in every state.
LEMMA McSpecIInv == McSpec => []McIInv
BY InitMcIInv, NextMcIInv, PTL DEF McSpec

\* The table never has more than MAX_MC_NODES rows, and the times in it are times.
THEOREM McTypeCorrect == McSpec => []McTypeOK
<1>1. McIInv => McTypeOK
  <2> SUFFICES ASSUME McIInv PROVE McTypeOK
    OBVIOUS
  <2>1. \A i \in 1 .. Len(mcNodes) : mcNodes[i] \in McRow
    BY DEF McIInv, McTypes
  <2> QED
    BY <2>1 DEF McIInv, McTypes, McTypeOK, McRow
<1> QED
  BY <1>1, McSpecIInv, PTL

\* A silent peer is off the table in time, for any interval, timeout and length of a
\* round, and any number of peers and rows: the round in which the thread of
\* wtsl_core_splink_gnode_service is due begins no later than a round after it is due,
\* and cleans before it is over.
THEOREM SilentPeersRemoved == McSpec => []SilentPeersLeave
<1>1. McIInv => SilentPeersLeave
  <2> SUFFICES ASSUME McIInv PROVE SilentPeersLeave
    OBVIOUS
  <2>1. ASSUME ~clockSet, mcThread # "exit", NEW i \in 1 .. Len(mcNodes)
        PROVE  clock < mcNodes[i].last + HEARTBEAT_INTERVAL + NODE_TIMEOUT + 2 * MaxRound
    <3>1. mcNodes[i] \in McRow /\ mcNodes # << >>
      BY DEF McIInv, McTypes
    <3>2. mcNodes[i].last \in Nat
      BY <3>1 DEF McRow
    <3>3. /\ InTime /\ clock \in Nat /\ lastSend \in Nat
          /\ roundSeconds \in Nat /\ roundSeconds <= MaxRound
          /\ mcThread \in {"loop", "clean", "select"}
      BY <2>1, <3>1, McConstants DEF McIInv, McTypes
    <3>4. CASE mcThread = "clean"
      <4>1. /\ clock = lastSend + roundSeconds
            /\ lastSend < mcNodes[i].last + NODE_TIMEOUT + HEARTBEAT_INTERVAL + MaxRound
        BY <2>1, <3>3, <3>4 DEF InTime, RowsInTime
      <4> QED
        BY <3>2, <3>3, <4>1, McConstants
    <3>5. CASE mcThread # "clean"
      <4>1. /\ clock < lastSend + HEARTBEAT_INTERVAL + roundSeconds
            /\ lastSend <= mcNodes[i].last + NODE_TIMEOUT
        BY <2>1, <3>1, <3>3, <3>5 DEF InTime, RowsInTime
      <4> QED
        BY <3>2, <3>3, <4>1, McConstants
    <3> QED
      BY <3>4, <3>5
  <2> QED
    BY <2>1 DEF McIInv, PeersDiffer, SilentPeersLeave
<1> QED
  BY <1>1, McSpecIInv, PTL

-----------------------------------------------------------------------------
(***************************************************************************)
(* Induction and recursive functions                                       *)
(***************************************************************************)
\* A set of numbers that is not empty has a least member: what stands for induction
\* over the number of commands that qos_toggle_switch has replayed.
LEMMA LeastNumber ==
  ASSUME NEW S \in SUBSET Nat, S # {}
  PROVE  \E m \in S : \A k \in S : m <= k
<1> DEFINE T == {0 .. k : k \in S}
<1>1. IsWellFoundedOn(StrictSubsetOrdering(Nat), FiniteSubsetsOf(Nat))
  BY FS_StrictSubsetOrderingWellFounded
<1>2. T \subseteq FiniteSubsetsOf(Nat) /\ T # {}
  <2>1. ASSUME NEW k \in S
        PROVE  0 .. k \in FiniteSubsetsOf(Nat)
    <3>1. 0 \in Int /\ k \in Int /\ 0 .. k \subseteq Nat
      OBVIOUS
    <3>2. IsFiniteSet(0 .. k)
      BY <3>1, FS_Interval
    <3> QED
      BY <3>1, <3>2 DEF FiniteSubsetsOf
  <2> QED
    BY <2>1
<1>3. PICK x \in T : \A y \in T : <<y, x>> \notin StrictSubsetOrdering(Nat)
  BY <1>1, <1>2, WFMin
<1>4. PICK m \in S : x = 0 .. m
  BY <1>3
<1>5. ASSUME NEW k \in S, ~(m <= k)
      PROVE  FALSE
  <2>1. 0 .. k \in T /\ 0 .. k \subseteq x /\ x \subseteq Nat /\ 0 .. k \subseteq Nat
    BY <1>4, <1>5
  <2>2. m \in x /\ m \notin 0 .. k
    BY <1>4, <1>5
  <2> QED
    BY <1>3, <2>1, <2>2 DEF StrictSubsetOrdering
<1> QED
  BY <1>5

\* g tells what becomes of a value in n steps, of which the i-th is step[i].
Follows(g, n, X, first, step) ==
  /\ g \in [0 .. n -> X]
  /\ g[0] = first
  /\ \A i \in 1 .. n : g[i] = step[i][g[i - 1]]

\* There is such a function: that of Replay, whose steps are commands.
LEMMA StepsExist ==
  ASSUME NEW n \in Nat, NEW X, NEW first \in X, NEW step \in [1 .. n -> [X -> X]]
  PROVE  \E g : Follows(g, n, X, first, step)
<1> DEFINE Upto(m) == \E g \in [0 .. m -> X] :
             /\ g[0] = first
             /\ \A i \in 1 .. m : g[i] = step[i][g[i - 1]]
           Bad == {m \in 0 .. n : ~Upto(m)}
<1>1. Bad = {}
  <2> SUFFICES ASSUME Bad # {} PROVE FALSE
    OBVIOUS
  <2>1. PICK m \in Bad : \A k \in Bad : m <= k
    <3> HIDE DEF Upto
    <3>1. Bad \in SUBSET Nat
      OBVIOUS
    <3> QED
      BY <3>1, LeastNumber
  <2>2. m # 0
    <3> DEFINE h == [i \in 0 .. 0 |-> first]
    <3>1. h \in [0 .. 0 -> X] /\ h[0] = first /\ \A i \in 1 .. 0 : h[i] = step[i][h[i - 1]]
      OBVIOUS
    <3> HIDE DEF h
    <3>2. Upto(0)
      BY <3>1
    <3> HIDE DEF Upto
    <3> QED
      BY <3>2
  <2>3. m - 1 \in 0 .. n /\ m \in 1 .. n /\ m - 1 \notin Bad
    <3> HIDE DEF Upto
    <3>1. m \in 0 .. n
      OBVIOUS
    <3> HIDE DEF Bad
    <3> QED
      BY <2>1, <2>2, <3>1
  <2>4. PICK g \in [0 .. (m - 1) -> X] :
          /\ g[0] = first
          /\ \A i \in 1 .. (m - 1) : g[i] = step[i][g[i - 1]]
    BY <2>3
  <2> DEFINE h == [i \in 0 .. m |-> IF i = m THEN step[m][g[m - 1]] ELSE g[i]]
  <2>5. step[m][g[m - 1]] \in X
    BY <2>3
  <2>6. h \in [0 .. m -> X]
    BY <2>3, <2>5
  <2>7. h[0] = first /\ h[m] = step[m][g[m - 1]]
    BY <2>3, <2>4
  <2>8. \A i \in 0 .. (m - 1) : h[i] = g[i]
    BY <2>3
  <2> HIDE DEF h
  <2>9. \A i \in 1 .. m : h[i] = step[i][h[i - 1]]
    <3> TAKE i \in 1 .. m
    <3>1. CASE i = m
      BY <2>3, <2>7, <2>8, <3>1
    <3>2. CASE i # m
      <4>1. i \in 1 .. (m - 1) /\ i - 1 \in 0 .. (m - 1) /\ i \in 0 .. (m - 1)
        BY <2>3, <3>2
      <4> QED
        BY <2>4, <2>8, <4>1
    <3> QED
      BY <3>1, <3>2
  <2>10. Upto(m)
    BY <2>6, <2>7, <2>9
  <2> HIDE DEF Upto
  <2> QED
    BY <2>1, <2>10
<1>2. Upto(n)
  <2> HIDE DEF Upto
  <2> QED
    BY <1>1
<1> QED
  BY <1>2 DEF Follows

-----------------------------------------------------------------------------
(***************************************************************************)
(* Traffic shaping: the record and the kernel                              *)
(***************************************************************************)
Commands == {"add", "replace"} \X TcObjects

\* A command that changes the kernel adds at most its own object.
LEMMA EffectBounded ==
  ASSUME NEW k, NEW action, NEW o
  PROVE  TcEffect(k, action, o) \subseteq k \cup {o}
BY DEF TcEffect, Same

\* The commands that did not fail take effect one after the other.
Unfolds(k, snapshot, failed) ==
  /\ Replay(k, snapshot, failed)[0] = k
  /\ \A i \in 1 .. Len(snapshot) :
       Replay(k, snapshot, failed)[i] =
         IF i \in failed THEN Replay(k, snapshot, failed)[i - 1]
         ELSE TcEffect(Replay(k, snapshot, failed)[i - 1],
                       snapshot[i][1], snapshot[i][2])

\* Replay is what its definition says: a recursive function over the commands.
LEMMA ReplayUnfolds ==
  ASSUME NEW k \in SUBSET TcObjects, NEW snapshot \in Seq(Commands), NEW failed
  PROVE  Unfolds(k, snapshot, failed)
<1> DEFINE n == Len(snapshot)
           X == SUBSET TcObjects
           effect(i, x) == IF i \in failed THEN x
                           ELSE TcEffect(x, snapshot[i][1], snapshot[i][2])
           step == [i \in 1 .. n |-> [x \in X |-> effect(i, x)]]
<1>1. n \in Nat /\ \A i \in 1 .. n : snapshot[i] \in Commands
  OBVIOUS
<1>2. \A i \in 1 .. n, x \in X : effect(i, x) \in X
  <2> TAKE i \in 1 .. n, x \in X
  <2>1. snapshot[i][2] \in TcObjects
    BY <1>1 DEF Commands
  <2>2. TcEffect(x, snapshot[i][1], snapshot[i][2]) \subseteq x \cup {snapshot[i][2]}
    BY EffectBounded
  <2> QED
    BY <2>1, <2>2
<1>3. step \in [1 .. n -> [X -> X]]
  <2> HIDE DEF effect, X, n
  <2> QED
    BY <1>2
<1>4. PICK g : Follows(g, n, X, k, step)
  <2>1. k \in X
    OBVIOUS
  <2> HIDE DEF step, n, X
  <2> QED
    BY <1>1, <1>3, <2>1, StepsExist
<1>5. g = [i \in 0 .. n |-> IF i = 0 THEN k
                            ELSE IF i \in failed THEN g[i - 1]
                            ELSE TcEffect(g[i - 1], snapshot[i][1], snapshot[i][2])]
  <2>1. ASSUME NEW i \in 1 .. n
        PROVE  g[i] = effect(i, g[i - 1])
    <3>1. g[i - 1] \in X
      BY <1>1, <1>4 DEF Follows
    <3> HIDE DEF X, effect, n
    <3>2. step[i][g[i - 1]] = effect(i, g[i - 1])
      BY <3>1
    <3> QED
      BY <1>4, <3>2 DEF Follows
  <2>2. g = [i \in 0 .. n |-> g[i]] /\ g[0] = k
    BY <1>4 DEF Follows
  <2>3. \A i \in 0 .. n : i # 0 => i \in 1 .. n
    BY <1>1
  <2> HIDE DEF step, n, X
  <2> QED
    BY <2>1, <2>2, <2>3
<1> DEFINE r == Replay(k, snapshot, failed)
<1>6. r = [i \in 0 .. n |-> IF i = 0 THEN k
                            ELSE IF i \in failed THEN r[i - 1]
                            ELSE TcEffect(r[i - 1], snapshot[i][1], snapshot[i][2])]
  BY <1>5 DEF Replay
<1> HIDE DEF r, n
<1>7. 0 \in 0 .. n /\ \A i \in 1 .. n : i \in 0 .. n /\ i # 0
  BY <1>1
<1> QED
  BY <1>6, <1>7 DEF Unfolds, r, n

\* What happens to the default device depends on what is there alone: the kernel may
\* hold anything else when qos_toggle_switch replays the record.
LEMMA OnDefaultDecides ==
  ASSUME NEW k1, NEW k2, OnDefault(k1) = OnDefault(k2),
         NEW action \in {"add", "replace"}, NEW o
  PROVE  OnDefault(TcEffect(k1, action, o)) = OnDefault(TcEffect(k2, action, o))
<1>1. CASE o.device # DefaultDevice
  BY <1>1 DEF OnDefault, TcEffect, Same
<1>2. CASE o.device = DefaultDevice
  <2>1. \A p : p.device = DefaultDevice => (p \in k1 <=> p \in k2)
    BY DEF OnDefault
  <2>2. Root(k1, o.device) = Root(k2, o.device)
    BY <1>2, <2>1 DEF Root
  <2>3. Same(k1, o) = Same(k2, o)
    BY <1>2, <2>1 DEF Same
  <2>4. TcPossible(k1, action, o) <=> TcPossible(k2, action, o)
    BY <2>2, <2>3 DEF TcPossible
  <2> QED
    BY <1>2, <2>1, <2>3, <2>4 DEF OnDefault, TcEffect
<1> QED
  BY <1>1, <1>2

\* Replaying gives the same on the default device whatever else the kernel holds.
LEMMA ReplayOnDefault ==
  ASSUME NEW k1 \in SUBSET TcObjects, NEW k2 \in SUBSET TcObjects,
         OnDefault(k1) = OnDefault(k2), NEW snapshot \in Seq(Commands)
  PROVE  OnDefault(Replayed(k1, snapshot, {})) = OnDefault(Replayed(k2, snapshot, {}))
<1> DEFINE n == Len(snapshot)
           r1 == Replay(k1, snapshot, {})
           r2 == Replay(k2, snapshot, {})
           Bad == {m \in 0 .. n : OnDefault(r1[m]) # OnDefault(r2[m])}
<1>1. n \in Nat /\ \A i \in 1 .. n : snapshot[i][1] \in {"add", "replace"}
  <2>1. \A i \in 1 .. n : snapshot[i] \in Commands
    OBVIOUS
  <2> QED
    BY <2>1 DEF Commands
<1>2. /\ r1[0] = k1 /\ r2[0] = k2
      /\ \A i \in 1 .. n : /\ r1[i] = TcEffect(r1[i - 1], snapshot[i][1], snapshot[i][2])
                           /\ r2[i] = TcEffect(r2[i - 1], snapshot[i][1], snapshot[i][2])
  <2>1. r1[0] = k1 /\ \A i \in 1 .. n : r1[i] = TcEffect(r1[i - 1], snapshot[i][1], snapshot[i][2])
    BY ReplayUnfolds DEF Unfolds
  <2>2. r2[0] = k2 /\ \A i \in 1 .. n : r2[i] = TcEffect(r2[i - 1], snapshot[i][1], snapshot[i][2])
    BY ReplayUnfolds DEF Unfolds
  <2> QED
    BY <2>1, <2>2
<1> HIDE DEF r1, r2, n
<1>3. Bad = {}
  <2> SUFFICES ASSUME Bad # {} PROVE FALSE
    OBVIOUS
  <2>1. PICK m \in Bad : \A k \in Bad : m <= k
    <3>1. Bad \in SUBSET Nat
      OBVIOUS
    <3> QED
      BY <3>1, LeastNumber
  <2>2. m \in 1 .. n /\ m - 1 \in 0 .. n /\ m - 1 \notin Bad
    BY <1>1, <1>2, <2>1
  <2>3. OnDefault(r1[m - 1]) = OnDefault(r2[m - 1])
    BY <2>2
  <2>4. OnDefault(r1[m]) = OnDefault(r2[m])
    <3>1. snapshot[m][1] \in {"add", "replace"}
      BY <1>1, <2>2
    <3>2. OnDefault(TcEffect(r1[m - 1], snapshot[m][1], snapshot[m][2]))
            = OnDefault(TcEffect(r2[m - 1], snapshot[m][1], snapshot[m][2]))
      <4> DEFINE x1 == r1[m - 1]
                 x2 == r2[m - 1]
                 a == snapshot[m][1]
                 o == snapshot[m][2]
      <4>1. a \in {"add", "replace"} /\ OnDefault(x1) = OnDefault(x2)
        BY <2>3, <3>1
      <4> HIDE DEF x1, x2, a, o
      <4>2. OnDefault(TcEffect(x1, a, o)) = OnDefault(TcEffect(x2, a, o))
        BY <4>1, OnDefaultDecides
      <4> QED
        BY <4>2 DEF x1, x2, a, o
    <3> QED
      BY <1>2, <2>2, <3>2
  <2> QED
    BY <2>1, <2>4
<1> QED
  BY <1>1, <1>3 DEF Replayed, r1, r2, n

\* A record with one command more replays to what that command makes of the rest.
LEMMA ReplayAppend ==
  ASSUME NEW k \in SUBSET TcObjects, NEW snapshot \in Seq(Commands), NEW c \in Commands
  PROVE  Replayed(k, Append(snapshot, c), {}) = TcEffect(Replayed(k, snapshot, {}), c[1], c[2])
<1> DEFINE n == Len(snapshot)
           longer == Append(snapshot, c)
           r == Replay(k, snapshot, {})
           l == Replay(k, longer, {})
           Bad == {m \in 0 .. n : r[m] # l[m]}
<1>1. /\ n \in Nat /\ longer \in Seq(Commands) /\ Len(longer) = n + 1
      /\ longer[n + 1] = c /\ \A i \in 1 .. n : longer[i] = snapshot[i]
  OBVIOUS
<1>2. r[0] = k /\ \A i \in 1 .. n : r[i] = TcEffect(r[i - 1], snapshot[i][1], snapshot[i][2])
  BY ReplayUnfolds DEF Unfolds
<1>3. /\ l[0] = k
      /\ \A i \in 1 .. (n + 1) : l[i] = TcEffect(l[i - 1], longer[i][1], longer[i][2])
  <2> HIDE DEF longer, n
  <2> QED
    BY <1>1, ReplayUnfolds DEF Unfolds
<1>4. Replayed(k, longer, {}) = l[n + 1] /\ Replayed(k, snapshot, {}) = r[n]
  BY <1>1 DEF Replayed
<1> HIDE DEF r, l, n, longer
<1>5. /\ r[0] = k /\ l[0] = k
      /\ \A i \in 1 .. n : /\ r[i] = TcEffect(r[i - 1], snapshot[i][1], snapshot[i][2])
                           /\ l[i] = TcEffect(l[i - 1], snapshot[i][1], snapshot[i][2])
      /\ l[n + 1] = TcEffect(l[n], c[1], c[2])
  <2>3. \A i \in 1 .. n : l[i] = TcEffect(l[i - 1], snapshot[i][1], snapshot[i][2])
    BY <1>1, <1>3
  <2>4. l[n + 1] = TcEffect(l[n], c[1], c[2])
    <3>1. n + 1 \in 1 .. (n + 1) /\ n + 1 - 1 = n
      BY <1>1
    <3> QED
      BY <1>1, <1>3, <3>1
  <2> QED
    BY <1>2, <1>3, <2>3, <2>4
<1>6. Bad = {}
  <2> SUFFICES ASSUME Bad # {} PROVE FALSE
    OBVIOUS
  <2>1. PICK m \in Bad : \A j \in Bad : m <= j
    <3>1. Bad \in SUBSET Nat
      OBVIOUS
    <3> QED
      BY <3>1, LeastNumber
  <2>2. m \in 1 .. n /\ m - 1 \in 0 .. n /\ m - 1 \notin Bad
    BY <1>1, <1>5, <2>1
  <2> QED
    BY <1>5, <2>2
<1>7. r[n] = l[n]
  BY <1>1, <1>6
<1> QED
  BY <1>4, <1>5, <1>7 DEF longer

\* The record has room for MaxRecorded commands and holds each once.
Short(record) == Len(record) <= MaxRecorded /\ NoRepeats(record)

AclCommands == {"-A", "-I"} \X FilterRules

RulesTypes ==
  /\ rulesReady \in BOOLEAN
  /\ qosState \in [enabled : BOOLEAN, snapshot : Seq(Commands)] /\ Short(qosState.snapshot)
  /\ aclState \in [enabled : BOOLEAN, rules : Seq(AclCommands)] /\ Short(aclState.rules)
  /\ tcKernel \in SUBSET TcObjects
  /\ forward \in [policy : {"ACCEPT", "DROP"}, rules : SUBSET (FilterRules \cup {Established})]
  /\ regular \in BOOLEAN

\* What the record misses nothing of is what the default device holds, or would hold
\* if shaping were switched on.
Mirrored ==
  regular =>
    /\ rulesReady
    /\ OnDefault(tcKernel) = IF qosState.enabled
                             THEN OnDefault(Replayed({}, qosState.snapshot, {})) ELSE {}

RulesIInv == RulesTypes /\ Mirrored /\ FilterAgrees

\* record_rule drops what does not fit and what is there already.
LEMMA RecordGrows ==
  ASSUME NEW S, NEW record \in Seq(S), Short(record), NEW cmd \in S
  PROVE  record_rule(record, cmd) \in Seq(S) /\ Short(record_rule(record, cmd))
<1>1. CASE Len(record) >= MaxRecorded \/ cmd \in Range(record)
  BY <1>1 DEF record_rule
<1>2. CASE ~(Len(record) >= MaxRecorded \/ cmd \in Range(record))
  <2> DEFINE longer == Append(record, cmd)
  <2>1. record_rule(record, cmd) = longer
    BY <1>2 DEF record_rule
  <2>2. /\ longer \in Seq(S) /\ Len(longer) = Len(record) + 1 /\ Len(record) \in Nat
        /\ longer[Len(record) + 1] = cmd /\ DOMAIN longer = 1 .. (Len(record) + 1)
        /\ \A i \in 1 .. Len(record) : longer[i] = record[i]
    OBVIOUS
  <2>3. Len(longer) <= MaxRecorded
    BY <1>2, <2>2, RulesAssumption
  <2>4. \A i \in 1 .. Len(record) : record[i] # cmd
    BY <1>2 DEF Range
  <2>5. \A i, j \in 1 .. Len(record) : record[i] = record[j] => i = j
    BY DEF Short, NoRepeats
  <2> HIDE DEF longer
  <2>6. \A i \in DOMAIN longer : i \in 1 .. Len(record) \/ i = Len(record) + 1
    BY <2>2
  <2>7. NoRepeats(longer)
    BY <2>2, <2>4, <2>5, <2>6 DEF NoRepeats
  <2> QED
    BY <2>1, <2>2, <2>3, <2>7 DEF Short
<1> QED
  BY <1>1, <1>2

\* A command for traffic control changes no more than what the invariant says.
LEMMA TcRequest ==
  ASSUME RulesIInv, wtsl_core_qos_set_rules
  PROVE  RulesIInv'
<1>1. PICK action \in {"add", "replace", "change", "del"}, o \in TcObjects :
        tc_handle_request(action, o)
  BY DEF wtsl_core_qos_set_rules
<1> DEFINE cmd == <<action, o>>
           recorded(ok) == IF ok /\ Recorded(action)
                           THEN record_rule(qosState.snapshot, cmd) ELSE qosState.snapshot
<1>2. PICK ok \in BOOLEAN :
        /\ tcKernel' = IF ok THEN TcEffect(tcKernel, action, o) ELSE tcKernel
        /\ qosState' = [qosState EXCEPT !.snapshot = recorded(ok)]
        /\ regular' = (regular /\ (ok => /\ qosState.enabled
                                         /\ action \in {"add", "replace"}
                                         /\ ~Contains(qosState.snapshot, cmd)
                                         /\ Len(qosState.snapshot) < MaxRecorded))
  <2>1. \A ok \in ex_command(TcPossible(tcKernel, action, o)) : ok \in BOOLEAN
    BY DEF ex_command, TcPossible
  <2> QED
    BY <1>1, <2>1 DEF tc_handle_request
<1>3. UNCHANGED <<rulesReady, aclState, forward, switchFailed, leftOn>>
  BY DEF wtsl_core_qos_set_rules
<1>4. tcKernel' \in SUBSET TcObjects
  BY <1>2, EffectBounded DEF RulesIInv, RulesTypes
<1>5. Recorded(action) => cmd \in Commands
  BY DEF Recorded, Commands
<1>6. recorded(ok) \in Seq(Commands) /\ Short(recorded(ok))
  BY <1>5, RecordGrows DEF RulesIInv, RulesTypes
<1>7. /\ qosState'.enabled = qosState.enabled /\ qosState'.snapshot = recorded(ok)
      /\ qosState' \in [enabled : BOOLEAN, snapshot : Seq(Commands)]
  BY <1>2, <1>6 DEF RulesIInv, RulesTypes
<1>8. RulesTypes'
  BY <1>2, <1>3, <1>4, <1>6, <1>7 DEF RulesIInv, RulesTypes
<1>9. FilterAgrees'
  BY <1>3 DEF RulesIInv, FilterAgrees, wtsl_core_acl_get_status, acl_get_status
<1>10. Mirrored'
  <2> SUFFICES ASSUME regular'
               PROVE  /\ rulesReady'
                      /\ OnDefault(tcKernel') =
                           IF qosState'.enabled
                           THEN OnDefault(Replayed({}, qosState'.snapshot, {})) ELSE {}
    BY DEF Mirrored, OnDefault, Replayed, Replay, TcEffect, TcPossible, Root, Same
  <2>1. /\ regular /\ rulesReady' = rulesReady /\ rulesReady
        /\ OnDefault(tcKernel) = IF qosState.enabled
                                 THEN OnDefault(Replayed({}, qosState.snapshot, {})) ELSE {}
    BY <1>2, <1>3 DEF RulesIInv, Mirrored
  <2>2. CASE ~ok
    BY <1>2, <1>7, <2>1, <2>2
  <2>3. CASE ok
    <3>1. /\ qosState.enabled /\ action \in {"add", "replace"}
          /\ ~Contains(qosState.snapshot, cmd) /\ Len(qosState.snapshot) < MaxRecorded
      BY <1>2, <2>3
    <3>2. qosState.snapshot \in Seq(Commands) /\ cmd \in Commands
      BY <1>5, <3>1 DEF RulesIInv, RulesTypes, Recorded
    <3>3. cmd \notin Range(qosState.snapshot)
      BY <3>1, <3>2 DEF Contains, Range
    <3>4. recorded(ok) = Append(qosState.snapshot, cmd)
      <4>1. ~(Len(qosState.snapshot) >= MaxRecorded)
        BY <3>1, <3>2, RulesAssumption
      <4> QED
        BY <2>3, <3>1, <3>3, <4>1 DEF Recorded, record_rule
    <3>5. Replayed({}, recorded(ok), {}) =
            TcEffect(Replayed({}, qosState.snapshot, {}), cmd[1], cmd[2])
      BY <3>2, <3>4, ReplayAppend
    <3>6. cmd[1] = action /\ cmd[2] = o
      OBVIOUS
    <3>7. OnDefault(tcKernel) = OnDefault(Replayed({}, qosState.snapshot, {}))
      BY <2>1, <3>1
    <3> HIDE DEF cmd, recorded
    <3>8. OnDefault(TcEffect(tcKernel, action, o))
            = OnDefault(TcEffect(Replayed({}, qosState.snapshot, {}), action, o))
      BY <3>1, <3>7, OnDefaultDecides
    <3> QED
      BY <1>2, <1>7, <2>1, <2>3, <3>1, <3>5, <3>6, <3>8
  <2> QED
    BY <2>2, <2>3
<1> QED
  BY <1>8, <1>9, <1>10 DEF RulesIInv

\* Replaying the record leaves the kernel with objects clients asked for.
LEMMA ReplayBounded ==
  ASSUME NEW k \in SUBSET TcObjects, NEW snapshot \in Seq(Commands), NEW failed
  PROVE  Replayed(k, snapshot, failed) \in SUBSET TcObjects
<1> DEFINE n == Len(snapshot)
           r == Replay(k, snapshot, failed)
           Bad == {m \in 0 .. n : ~(r[m] \subseteq TcObjects)}
<1>1. n \in Nat /\ \A i \in 1 .. n : snapshot[i][2] \in TcObjects
  <2>1. \A i \in 1 .. n : snapshot[i] \in Commands
    OBVIOUS
  <2> QED
    BY <2>1 DEF Commands
<1>2. /\ r[0] = k
      /\ \A i \in 1 .. n : r[i] = IF i \in failed THEN r[i - 1]
                                  ELSE TcEffect(r[i - 1], snapshot[i][1], snapshot[i][2])
  <2>1. Unfolds(k, snapshot, failed)
    BY ReplayUnfolds
  <2> QED
    BY <2>1 DEF Unfolds
<1> HIDE DEF r, n
<1>3. \A i \in 1 .. n : r[i] \subseteq r[i - 1] \cup {snapshot[i][2]}
  <2> TAKE i \in 1 .. n
  <2>1. TcEffect(r[i - 1], snapshot[i][1], snapshot[i][2]) \subseteq r[i - 1] \cup {snapshot[i][2]}
    BY EffectBounded
  <2> QED
    BY <1>2, <2>1
<1>4. Bad = {}
  <2> SUFFICES ASSUME Bad # {} PROVE FALSE
    OBVIOUS
  <2>1. PICK m \in Bad : \A j \in Bad : m <= j
    <3>1. Bad \in SUBSET Nat
      OBVIOUS
    <3> QED
      BY <3>1, LeastNumber
  <2>2. m # 0
    BY <1>2, <2>1
  <2>3. m \in 1 .. n /\ m - 1 \in 0 .. n /\ m - 1 \notin Bad
    BY <1>1, <2>1, <2>2
  <2>4. r[m - 1] \subseteq TcObjects
    BY <2>3
  <2> QED
    BY <1>1, <1>3, <2>1, <2>3, <2>4
<1> QED
  BY <1>1, <1>4 DEF Replayed, r, n

\* Switching traffic shaping off takes everything off the default device; switching it
\* on replays the record.
LEMMA QosSwitched ==
  ASSUME RulesIInv, wtsl_core_qos_switch
  PROVE  RulesIInv'
<1>1. PICK enable \in BOOLEAN : qos_toggle_switch(enable)
  BY DEF wtsl_core_qos_switch
<1>2. UNCHANGED <<rulesReady, aclState, forward, switchFailed, leftOn>>
  BY DEF wtsl_core_qos_switch
<1>3. FilterAgrees'
  BY <1>2 DEF RulesIInv, FilterAgrees, wtsl_core_acl_get_status, acl_get_status
<1>4. CASE UNCHANGED <<qosState, tcKernel, regular>>
  BY <1>2, <1>3, <1>4 DEF RulesIInv, RulesTypes, Mirrored
<1>5. CASE /\ qosState.enabled /\ ~enable
           /\ \E ok \in BOOLEAN :
                /\ tcKernel' = IF ok /\ rulesReady THEN tcKernel \ OnDefault(tcKernel)
                               ELSE tcKernel
                /\ regular' = (regular /\ ok)
           /\ qosState' = [qosState EXCEPT !.enabled = FALSE]
  <2>1. PICK ok \in BOOLEAN :
          /\ tcKernel' = IF ok /\ rulesReady THEN tcKernel \ OnDefault(tcKernel) ELSE tcKernel
          /\ regular' = (regular /\ ok)
    BY <1>5
  <2>2. /\ qosState' \in [enabled : BOOLEAN, snapshot : Seq(Commands)]
        /\ qosState'.snapshot = qosState.snapshot /\ qosState'.enabled = FALSE
    BY <1>5 DEF RulesIInv, RulesTypes
  <2>3. RulesTypes'
    BY <1>2, <2>1, <2>2 DEF RulesIInv, RulesTypes
  <2>4. regular' => rulesReady /\ OnDefault(tcKernel') = {}
    BY <2>1 DEF RulesIInv, Mirrored, OnDefault
  <2>5. Mirrored'
    BY <1>2, <2>2, <2>4 DEF Mirrored, OnDefault
  <2> QED
    BY <1>3, <2>3, <2>5 DEF RulesIInv
<1>6. CASE /\ ~qosState.enabled /\ enable
           /\ \E failed \in {{}} \cup {{i} : i \in 1 .. Len(qosState.snapshot)} :
                /\ tcKernel' = Replayed(tcKernel, qosState.snapshot, failed)
                /\ regular' = (regular /\ failed = {})
           /\ qosState' = [qosState EXCEPT !.enabled = TRUE]
  <2>1. PICK failed : /\ tcKernel' = Replayed(tcKernel, qosState.snapshot, failed)
                      /\ regular' = (regular /\ failed = {})
    BY <1>6
  <2>2. /\ qosState' \in [enabled : BOOLEAN, snapshot : Seq(Commands)]
        /\ qosState'.snapshot = qosState.snapshot /\ qosState'.enabled = TRUE
    BY <1>6 DEF RulesIInv, RulesTypes
  <2>3. tcKernel' \in SUBSET TcObjects
    BY <2>1, ReplayBounded DEF RulesIInv, RulesTypes
  <2>4. regular' \in BOOLEAN
    BY <2>1 DEF RulesIInv, RulesTypes
  <2>5. RulesTypes'
    BY <1>2, <2>2, <2>3, <2>4 DEF RulesIInv, RulesTypes
  <2>6. ASSUME regular'
        PROVE  /\ rulesReady
               /\ OnDefault(tcKernel') = OnDefault(Replayed({}, qosState.snapshot, {}))
    <3>1. regular /\ failed = {}
      BY <2>1, <2>6
    <3>2. rulesReady /\ OnDefault(tcKernel) = {}
      BY <1>6, <3>1 DEF RulesIInv, Mirrored
    <3>3. OnDefault({}) = OnDefault(tcKernel)
      BY <3>2 DEF OnDefault
    <3>4. qosState.snapshot \in Seq(Commands) /\ tcKernel \in SUBSET TcObjects
      BY DEF RulesIInv, RulesTypes
    <3>5. OnDefault(Replayed(tcKernel, qosState.snapshot, {}))
            = OnDefault(Replayed({}, qosState.snapshot, {}))
      BY <3>3, <3>4, ReplayOnDefault
    <3> QED
      BY <2>1, <3>1, <3>2, <3>5
  <2>7. Mirrored'
    <3>1. regular' =>
            /\ rulesReady'
            /\ OnDefault(tcKernel') = IF qosState'.enabled
                 THEN OnDefault(Replayed({}, qosState'.snapshot, {})) ELSE {}
      BY <1>2, <2>2, <2>6
    <3> QED
      BY <3>1 DEF Mirrored, OnDefault, Replayed, Replay, TcEffect, TcPossible, Root, Same
  <2> QED
    BY <1>3, <2>5, <2>7 DEF RulesIInv
<1> QED
  BY <1>1, <1>4, <1>5, <1>6 DEF qos_toggle_switch

\* A rule of the filter changes neither the policy nor the switch.
LEMMA AclRequest ==
  ASSUME RulesIInv, wtsl_core_acl_set_rules
  PROVE  RulesIInv'
<1>1. PICK action \in {"add", "insert", "replace", "delete", "append"}, rule \in FilterRules :
        acl_handle_request(action, rule)
  BY DEF wtsl_core_acl_set_rules
<1> DEFINE flag == build_iptables_cmd(action)
<1>2. PICK ok :
        /\ forward' = IF ok THEN [forward EXCEPT !.rules = AclEffect(flag, rule)] ELSE forward
        /\ aclState' = IF ok /\ action \in {"add", "insert"}
                       THEN [aclState EXCEPT !.rules = record_acl_rule(aclState.rules, flag, rule)]
                       ELSE aclState
  BY <1>1 DEF acl_handle_request
<1>3. UNCHANGED <<rulesReady, qosState, tcKernel, regular, switchFailed, leftOn>>
  BY DEF wtsl_core_acl_set_rules
<1>4. action \in {"add", "insert"} => <<flag, rule>> \in AclCommands
  BY DEF build_iptables_cmd, AclCommands
<1> HIDE DEF flag
<1>5. /\ forward' \in [policy : {"ACCEPT", "DROP"}, rules : SUBSET (FilterRules \cup {Established})]
      /\ forward'.policy = forward.policy
  BY <1>2 DEF AclEffect, RulesIInv, RulesTypes
<1>6. /\ aclState' \in [enabled : BOOLEAN, rules : Seq(AclCommands)]
      /\ Short(aclState'.rules) /\ aclState'.enabled = aclState.enabled
  <2>1. CASE ok /\ action \in {"add", "insert"}
    <3>1. /\ record_acl_rule(aclState.rules, flag, rule) \in Seq(AclCommands)
          /\ Short(record_acl_rule(aclState.rules, flag, rule))
      BY <1>4, <2>1, RecordGrows DEF record_acl_rule, RulesIInv, RulesTypes
    <3> QED
      BY <1>2, <2>1, <3>1 DEF RulesIInv, RulesTypes
  <2>2. CASE ~(ok /\ action \in {"add", "insert"})
    BY <1>2, <2>2 DEF RulesIInv, RulesTypes
  <2> QED
    BY <2>1, <2>2
<1>7. RulesTypes'
  BY <1>3, <1>5, <1>6 DEF RulesIInv, RulesTypes
<1>8. FilterAgrees'
  BY <1>3, <1>5, <1>6 DEF RulesIInv, FilterAgrees, wtsl_core_acl_get_status, acl_get_status
<1> QED
  BY <1>3, <1>7, <1>8 DEF RulesIInv, Mirrored

\* The switch of the filter sets the policy, unless one of its commands fails.
LEMMA AclSwitched ==
  ASSUME RulesIInv, wtsl_core_acl_switch
  PROVE  RulesIInv'
<1>1. PICK enable \in BOOLEAN : acl_toggle_switch(enable)
  BY DEF wtsl_core_acl_switch
<1>2. UNCHANGED <<rulesReady, qosState, tcKernel, regular, leftOn>>
  BY DEF wtsl_core_acl_switch
<1>3. CASE aclState.enabled = enable
  BY <1>1, <1>2, <1>3
     DEF acl_toggle_switch, RulesIInv, RulesTypes, Mirrored, FilterAgrees,
         wtsl_core_acl_get_status, acl_get_status
<1>4. CASE aclState.enabled # enable
  <2>1. PICK first \in BOOLEAN, second \in BOOLEAN :
          /\ forward' =
                [policy |-> IF enable /\ first THEN "DROP"
                            ELSE IF ~enable /\ second THEN "ACCEPT"
                            ELSE forward.policy,
                 rules  |-> IF enable /\ second THEN forward.rules \cup {Established}
                            ELSE IF ~enable /\ first THEN {}
                            ELSE forward.rules]
          /\ aclState' = [aclState EXCEPT !.enabled = enable]
          /\ switchFailed' = (switchFailed \/ ~first \/ ~second)
    BY <1>1, <1>4 DEF acl_toggle_switch
  <2>2. /\ forward' \in [policy : {"ACCEPT", "DROP"},
                          rules : SUBSET (FilterRules \cup {Established})]
        /\ aclState' \in [enabled : BOOLEAN, rules : Seq(AclCommands)]
        /\ aclState'.rules = aclState.rules /\ aclState'.enabled = enable
    BY <2>1 DEF RulesIInv, RulesTypes
  <2>3. RulesTypes'
    BY <1>2, <2>2 DEF RulesIInv, RulesTypes
  <2>4. ~switchFailed' => forward'.policy = IF enable THEN "DROP" ELSE "ACCEPT"
    BY <2>1
  <2>5. FilterAgrees'
    BY <2>2, <2>4 DEF FilterAgrees, wtsl_core_acl_get_status, acl_get_status
  <2> QED
    BY <1>2, <2>2, <2>3, <2>5 DEF RulesIInv, Mirrored
<1> QED
  BY <1>3, <1>4

\* The empty record.
LEMMA EmptyRecord ==
  /\ << >> \in Seq(Commands) /\ << >> \in Seq(AclCommands) /\ Short(<< >>)
  /\ Replayed({}, << >>, {}) = {}
<1>1. << >> \in Seq(Commands) /\ << >> \in Seq(AclCommands) /\ Len(<< >>) = 0
  OBVIOUS
<1>2. Short(<< >>)
  BY RulesAssumption DEF Short, NoRepeats
<1>3. Replayed({}, << >>, {}) = {}
  BY <1>1, ReplayUnfolds DEF Unfolds, Replayed
<1> QED
  BY <1>1, <1>2, <1>3

\* The initial states satisfy the invariant.
LEMMA InitRulesIInv == RulesInit => RulesIInv
<1> SUFFICES ASSUME RulesInit PROVE RulesIInv
  OBVIOUS
<1>1. /\ qosState = [enabled |-> FALSE, snapshot |-> << >>]
      /\ aclState = [enabled |-> FALSE, rules |-> << >>]
      /\ forward = [policy |-> "ACCEPT", rules |-> {}]
      /\ rulesReady = FALSE /\ regular = FALSE /\ tcKernel = {}
  BY DEF RulesInit, NoQos, NoAcl
<1>2. RulesTypes
  BY <1>1, EmptyRecord DEF RulesTypes
<1>3. FilterAgrees
  BY <1>1 DEF FilterAgrees, wtsl_core_acl_get_status, acl_get_status
<1> QED
  BY <1>1, <1>2, <1>3 DEF RulesIInv, Mirrored

\* Every step keeps it.
LEMMA NextRulesIInv == RulesIInv /\ [RulesNext]_ruleVars => RulesIInv'
<1> SUFFICES ASSUME RulesIInv, [RulesNext]_ruleVars PROVE RulesIInv'
  OBVIOUS
<1>1. CASE RulesStart
  <2>1. /\ rulesReady' = TRUE /\ UNCHANGED <<tcKernel, forward>>
        /\ qosState' = [enabled |-> TRUE, snapshot |-> << >>]
        /\ aclState' = [enabled |-> FALSE, rules |-> << >>]
        /\ regular' = (tcKernel = {}) /\ leftOn' = (forward.policy = "DROP")
    BY <1>1 DEF RulesStart, qos_init_state, acl_init_state
  <2>2. RulesTypes'
    BY <2>1, EmptyRecord DEF RulesIInv, RulesTypes
  <2>3. FilterAgrees'
    BY <2>1 DEF RulesIInv, RulesTypes, FilterAgrees, wtsl_core_acl_get_status, acl_get_status
  <2>4. Mirrored'
    BY <2>1, EmptyRecord DEF Mirrored, OnDefault
  <2> QED
    BY <2>2, <2>3, <2>4 DEF RulesIInv
<1>2. CASE RulesRestart
  <2>1. /\ rulesReady' = FALSE /\ UNCHANGED <<tcKernel, forward>>
        /\ qosState' = [enabled |-> FALSE, snapshot |-> << >>]
        /\ aclState' = [enabled |-> FALSE, rules |-> << >>]
        /\ regular' = FALSE /\ leftOn' = (forward.policy = "DROP")
    BY <1>2 DEF RulesRestart, NoQos, NoAcl
  <2>2. RulesTypes'
    BY <2>1, EmptyRecord DEF RulesIInv, RulesTypes
  <2>3. FilterAgrees'
    BY <2>1 DEF RulesIInv, RulesTypes, FilterAgrees, wtsl_core_acl_get_status, acl_get_status
  <2> QED
    BY <2>1, <2>2, <2>3 DEF RulesIInv, Mirrored
<1>3. CASE UNCHANGED ruleVars
  BY <1>3 DEF ruleVars, RulesIInv, RulesTypes, Mirrored, FilterAgrees,
              wtsl_core_acl_get_status, acl_get_status
<1> QED
  BY <1>1, <1>2, <1>3, TcRequest, QosSwitched, AclRequest, AclSwitched
     DEF RulesNext, QosRequests, AclRequests

\* The invariant holds in every state.
LEMMA RulesSpecIInv == RulesSpec => []RulesIInv
BY InitRulesIInv, NextRulesIInv, PTL DEF RulesSpec

\* The records never hold more than their arrays have room for, and no command twice,
\* and the kernel no rule that was not asked for.
THEOREM RulesTypeCorrect == RulesSpec => []RulesTypeOK
<1>1. RulesIInv => RulesTypeOK
  <2> SUFFICES ASSUME RulesIInv PROVE RulesTypeOK
    OBVIOUS
  <2>1. /\ Range(qosState.snapshot) \subseteq Commands
        /\ Range(aclState.rules) \subseteq AclCommands
    BY DEF Range, RulesIInv, RulesTypes
  <2>2. /\ Len(qosState.snapshot) \in 0 .. MaxRecorded
        /\ Len(aclState.rules) \in 0 .. MaxRecorded
    BY RulesAssumption DEF RulesIInv, RulesTypes, Short
  <2> QED
    BY <2>1, <2>2
       DEF RulesIInv, RulesTypes, RulesTypeOK, Short, Commands, AclCommands,
           wtsl_core_qos_get_status, wtsl_core_acl_get_status, acl_get_status,
           wtsl_core_acl_get_rules
<1> QED
  BY <1>1, RulesSpecIInv, PTL

\* Switching traffic shaping off and on puts back what was set, for any objects, any
\* limit of the record and any sequence of requests that add or replace: the commands
\* that record_rule has kept, replayed by qos_toggle_switch, give what the default
\* device holds, until a request is a del or a change, which are not recorded.
THEOREM ShapingRestored == RulesSpec => []QosRestored
<1>1. RulesIInv => QosRestored
  BY DEF RulesIInv, Mirrored, QosRestored, wtsl_core_qos_get_status, wtsl_core_qos_get_rules
<1> QED
  BY <1>1, RulesSpecIInv, PTL

\* The switch of the filter, as acl_toggle_switch leaves it, tells the policy of the
\* kernel, whatever rules come and go.
THEOREM FilterTellsPolicy == RulesSpec => []FilterAgrees
<1>1. RulesIInv => FilterAgrees
  BY DEF RulesIInv
<1> QED
  BY <1>1, RulesSpecIInv, PTL

-----------------------------------------------------------------------------
(***************************************************************************)
(* The log and its upload                                                  *)
(***************************************************************************)
Steps == {"wait", "close", "read", "connect", "info", "data", "reopen", "given up"}
Uploader == [at : Steps, lines : SUBSET (1 .. lineCount), name : LogNames \cup {NoFile},
             ok : BOOLEAN]
Writer == [at : {"idle", "lock", "write"}, closed : BOOLEAN]

\* The types: what is on the disk, was read or has arrived has been logged.
LogTypes ==
  /\ logHandle \in LogNames \cup {NoFile} /\ logPath \in LogNames /\ today \in LogNames
  /\ DOMAIN disk \subseteq LogNames
  /\ \A n \in DOMAIN disk : disk[n] \subseteq 1 .. lineCount
  /\ logMode \in {"ALL", "PRODUCT", "UNKNOWN"}
  /\ writer \in [LogWriters -> Writer]
  /\ logMutex \in LogWriters \cup {"free"}
  /\ uploader \in Uploader
  /\ renaming \in LogNames \cup {NoFile}
  /\ received \subseteq 1 .. lineCount
  /\ lineCount \in 0 .. MaxLines

\* From the closing of the file to its being opened again.
Uploading == uploader.at \in {"read", "connect", "info", "data", "reopen"}

\* Nobody writes a line during an upload: the file is closed for those who test it,
\* and for those who tested it before.
NobodyWrites ==
  /\ Uploading => logHandle = NoFile
  /\ \A w \in LogWriters : writer[w].at = "write" =>
       /\ Uploading => writer[w].closed
       /\ ~writer[w].closed => logHandle # NoFile

\* So the file holds what was read from it, and what has arrived is what it holds.
FileUnchanged ==
  /\ uploader.at # "reopen" => ~uploader.ok
  /\ uploader.at \in {"wait", "close", "read", "given up"} => uploader.name = NoFile
  /\ uploader.at \in {"connect", "info", "data"} /\ uploader.name # NoFile =>
       LinesOf(uploader.name) = uploader.lines
  /\ uploader.ok /\ uploader.name # NoFile => LinesOf(uploader.name) \subseteq received

LogIInv == LogTypes /\ NobodyWrites /\ FileUnchanged /\ NothingRemovedUnsent

\* A file that is written keeps the others as they are, and one that is removed too.
LEMMA FilesChange ==
  ASSUME NEW files, NEW name, NEW lines
  PROVE  /\ DOMAIN With(files, name, lines) = DOMAIN files \cup {name}
         /\ With(files, name, lines)[name] = lines
         /\ \A n \in DOMAIN files \ {name} : With(files, name, lines)[n] = files[n]
         /\ DOMAIN Without(files, name) = DOMAIN files \ {name}
         /\ \A n \in DOMAIN files \ {name} : Without(files, name)[n] = files[n]
BY DEF With, Without

\* The disk keeps its type when a file gets lines that have been logged.
LEMMA DiskTypes ==
  ASSUME NEW files, NEW name \in LogNames, NEW n, NEW lines \in SUBSET (1 .. n),
         DOMAIN files \subseteq LogNames, \A f \in DOMAIN files : files[f] \subseteq 1 .. n
  PROVE  LET disk1 == With(files, name, lines)
         IN  /\ DOMAIN disk1 \subseteq LogNames
             /\ \A f \in DOMAIN disk1 : disk1[f] \subseteq 1 .. n
<1> DEFINE disk1 == With(files, name, lines)
<1>1. /\ DOMAIN disk1 = DOMAIN files \cup {name} /\ disk1[name] = lines
      /\ \A f \in DOMAIN files \ {name} : disk1[f] = files[f]
  BY DEF With
<1> HIDE DEF disk1
<1>2. \A f \in DOMAIN disk1 : disk1[f] \subseteq 1 .. n
  BY <1>1
<1> QED
  BY <1>1, <1>2 DEF disk1

\* What a file holds has been logged.
LEMMA LinesLogged ==
  ASSUME LogTypes, NEW name
  PROVE  LinesOf(name) \in SUBSET (1 .. lineCount)
BY DEF LogTypes, LinesOf, Exists

\* The upload thread changes its step, and what it has read, within their types.
LEMMA UploaderRecords ==
  ASSUME uploader \in Uploader
  PROVE  /\ \A a \in Steps : [uploader EXCEPT !.at = a] \in Uploader
         /\ \A a \in Steps, l \in SUBSET (1 .. lineCount), f \in LogNames :
              [uploader EXCEPT !.at = a, !.lines = l, !.name = f] \in Uploader
         /\ \A a \in Steps, ok \in BOOLEAN : [uploader EXCEPT !.at = a, !.ok = ok] \in Uploader
         /\ [uploader EXCEPT !.name = NoFile] \in Uploader
         /\ Resting \in Uploader
         /\ [Resting EXCEPT !.at = "given up"] \in Uploader
BY DEF Uploader, Resting, Steps

\* The initial states satisfy the invariant.
LEMMA InitLogIInv == LogInit => LogIInv
<1> SUFFICES ASSUME LogInit PROVE LogIInv
  OBVIOUS
<1>1. /\ today \in LogNames /\ logPath = today /\ logHandle = today
      /\ disk = [n \in {today} |-> {}] /\ logMode \in {"ALL", "PRODUCT"}
      /\ writer = Waiting /\ logMutex = "free" /\ uploader = Resting /\ renaming = NoFile
      /\ received = {} /\ lineCount = 0 /\ unreported = {}
  BY DEF LogInit
<1>2. writer \in [LogWriters -> Writer] /\ \A w \in LogWriters : writer[w].at = "idle"
  BY <1>1 DEF Waiting, Writer
<1>3. /\ uploader \in Uploader /\ uploader.at = "wait" /\ uploader.ok = FALSE
      /\ uploader.name = NoFile
  BY <1>1 DEF Resting, Uploader, Steps
<1>4. LogTypes
  BY <1>1, <1>2, <1>3, LogsAssumption DEF LogTypes
<1>5. NobodyWrites
  BY <1>2, <1>3 DEF NobodyWrites, Uploading
<1>6. FileUnchanged
  BY <1>3 DEF FileUnchanged
<1> QED
  BY <1>1, <1>4, <1>5, <1>6 DEF LogIInv, NothingRemovedUnsent

\* Logging a line: the reload and the level, the test of the file, the writing.
LEMMA WriterSteps ==
  ASSUME LogIInv, NEW w \in LogWriters,
         wtsl_logger_log(w) \/ TestLogFile(w) \/ WriteLine(w)
  PROVE  LogIInv'
<1>1. CASE wtsl_logger_log(w)
  <2>1. /\ writer' = [writer EXCEPT ![w] = [at |-> "lock", closed |-> FALSE]]
        /\ UNCHANGED <<logHandle, logPath, today, disk, logMutex, uploader, renaming,
                       serverAnswers, received, lineCount, unreported>>
    BY <1>1 DEF wtsl_logger_log
  <2>2. logMode' \in {"ALL", "PRODUCT", "UNKNOWN"}
    BY <1>1 DEF wtsl_logger_log, wtsl_logger_reload_config, parse_config_file, LogIInv, LogTypes
  <2>3. /\ writer' \in [LogWriters -> Writer]
        /\ writer'[w].at = "lock" /\ \A v \in LogWriters \ {w} : writer'[v] = writer[v]
    BY <2>1 DEF Writer, LogIInv, LogTypes
  <2>4. LogTypes'
    BY <2>1, <2>2, <2>3 DEF LogIInv, LogTypes, Uploader
  <2>5. NobodyWrites'
    BY <2>1, <2>3 DEF LogIInv, NobodyWrites, Uploading
  <2>6. FileUnchanged' /\ NothingRemovedUnsent'
    BY <2>1 DEF LogIInv, FileUnchanged, NothingRemovedUnsent, LinesOf, Exists
  <2> QED
    BY <2>4, <2>5, <2>6 DEF LogIInv
<1>2. CASE TestLogFile(w)
  <2>1. UNCHANGED <<logHandle, logPath, today, disk, logMode, uploader, renaming,
                    serverAnswers, received, lineCount, unreported>>
    BY <1>2 DEF TestLogFile
  <2>2. /\ writer' \in [LogWriters -> Writer] /\ logMutex' \in LogWriters \cup {"free"}
        /\ writer'[w].at = "write" => logHandle # NoFile
        /\ \A v \in LogWriters \ {w} : writer'[v] = writer[v]
    BY <1>2 DEF TestLogFile, Writer, LogIInv, LogTypes
  <2>4. LogTypes'
    BY <2>1, <2>2 DEF LogIInv, LogTypes, Uploader
  <2>5. NobodyWrites'
    BY <2>1, <2>2 DEF LogIInv, NobodyWrites, Uploading
  <2>6. FileUnchanged' /\ NothingRemovedUnsent'
    BY <2>1 DEF LogIInv, FileUnchanged, NothingRemovedUnsent, LinesOf, Exists
  <2> QED
    BY <2>4, <2>5, <2>6 DEF LogIInv
<1>3. CASE WriteLine(w)
  <2>1. /\ writer[w].at = "write" /\ lineCount < MaxLines /\ logMutex' = "free"
        /\ writer' = [writer EXCEPT ![w] = [at |-> "idle", closed |-> FALSE]]
        /\ IF writer[w].closed THEN UNCHANGED <<disk, lineCount>>
           ELSE /\ disk' = With(disk, logHandle, LinesOf(logHandle) \cup {lineCount + 1})
                /\ lineCount' = lineCount + 1
        /\ UNCHANGED <<logHandle, logPath, today, logMode, uploader, renaming,
                       serverAnswers, received, unreported>>
    BY <1>3 DEF WriteLine
  <2>2. /\ writer' \in [LogWriters -> Writer] /\ writer'[w].at = "idle"
        /\ \A v \in LogWriters \ {w} : writer'[v] = writer[v]
    BY <2>1 DEF Writer, LogIInv, LogTypes
  <2>3. NobodyWrites'
    BY <2>1, <2>2 DEF LogIInv, NobodyWrites, Uploading
  <2>4. lineCount' \in 0 .. MaxLines /\ 1 .. lineCount \subseteq 1 .. lineCount'
    BY <2>1, LogsAssumption DEF LogIInv, LogTypes
  <2>5. uploader' \in Uploader'
    BY <2>1, <2>4 DEF LogIInv, LogTypes, Uploader
  <2>6. CASE writer[w].closed
    <3>1. LogTypes'
      BY <2>1, <2>2, <2>5, <2>6 DEF LogIInv, LogTypes
    <3>2. FileUnchanged' /\ NothingRemovedUnsent'
      BY <2>1, <2>6 DEF LogIInv, FileUnchanged, NothingRemovedUnsent, LinesOf, Exists
    <3> QED
      BY <2>3, <3>1, <3>2 DEF LogIInv
  <2>7. CASE ~writer[w].closed
    <3>1. logHandle \in LogNames /\ ~Uploading
      BY <2>1, <2>7 DEF LogIInv, LogTypes, NobodyWrites
    <3>2. /\ disk' = With(disk, logHandle, LinesOf(logHandle) \cup {lineCount + 1})
          /\ lineCount' = lineCount + 1
      BY <2>1, <2>7
    <3>3. LinesOf(logHandle) \cup {lineCount + 1} \in SUBSET (1 .. lineCount')
      <4>1. LinesOf(logHandle) \in SUBSET (1 .. lineCount)
        BY LinesLogged DEF LogIInv
      <4>2. lineCount + 1 \in 1 .. lineCount'
        BY <3>2 DEF LogIInv, LogTypes
      <4> QED
        BY <2>4, <4>1, <4>2
    <3>4. DOMAIN disk \subseteq LogNames /\ \A f \in DOMAIN disk : disk[f] \subseteq 1 .. lineCount'
      BY <2>4 DEF LogIInv, LogTypes
    <3>5. DOMAIN disk' \subseteq LogNames /\ \A f \in DOMAIN disk' : disk'[f] \subseteq 1 .. lineCount'
      BY <3>1, <3>2, <3>3, <3>4, DiskTypes
    <3>6. LogTypes'
      BY <2>1, <2>2, <2>4, <2>5, <3>5 DEF LogIInv, LogTypes
    <3>7. FileUnchanged' /\ NothingRemovedUnsent'
      BY <2>1, <3>1 DEF LogIInv, FileUnchanged, NothingRemovedUnsent, Uploading
    <3> QED
      BY <2>3, <3>6, <3>7 DEF LogIInv
  <2> QED
    BY <2>6, <2>7
<1> QED
  BY <1>1, <1>2, <1>3

\* The upload: the closing of the file takes it away from every writer, so that it
\* still holds what was read when it is emptied.
LEMMA UploadSteps ==
  ASSUME LogIInv, upload_thread_func
  PROVE  LogIInv'
<1>1. CASE need_upload_and_clear
  <2>1. /\ uploader.at = "wait" /\ uploader' = [uploader EXCEPT !.at = "close"]
        /\ UNCHANGED <<logHandle, logPath, today, disk, logMode, writer, logMutex,
                       renaming, serverAnswers, received, lineCount, unreported>>
    BY <1>1 DEF need_upload_and_clear
  <2>2. /\ uploader' \in Uploader /\ uploader'.at = "close"
        /\ uploader'.ok = uploader.ok /\ uploader'.name = uploader.name
    BY <2>1 DEF LogIInv, LogTypes, Uploader, Steps
  <2>3. LogTypes'
    BY <2>1, <2>2 DEF LogIInv, LogTypes, Uploader
  <2>4. NobodyWrites' /\ FileUnchanged' /\ NothingRemovedUnsent'
    BY <2>1, <2>2 DEF LogIInv, NobodyWrites, Uploading, FileUnchanged, NothingRemovedUnsent
  <2> QED
    BY <2>3, <2>4 DEF LogIInv
<1>2. CASE CloseLogFile
  <2>1. /\ uploader.at = "close" /\ uploader' = [uploader EXCEPT !.at = "read"]
        /\ logHandle' = NoFile
        /\ writer' = [w \in LogWriters |->
                        IF writer[w].at = "write" THEN [writer[w] EXCEPT !.closed = TRUE]
                        ELSE writer[w]]
        /\ UNCHANGED <<logPath, today, disk, logMode, logMutex, renaming, serverAnswers,
                       received, lineCount, unreported>>
    BY <1>2 DEF CloseLogFile
  <2>2. /\ uploader' \in Uploader /\ uploader'.at = "read"
        /\ uploader'.ok = uploader.ok /\ uploader'.name = uploader.name
    BY <2>1 DEF LogIInv, LogTypes, Uploader, Steps
  <2>3. /\ writer' \in [LogWriters -> Writer]
        /\ \A w \in LogWriters : writer'[w].at = "write" => writer'[w].closed
    BY <2>1 DEF LogIInv, LogTypes, Writer
  <2>4. LogTypes'
    BY <2>1, <2>2, <2>3 DEF LogIInv, LogTypes, Uploader
  <2>5. NobodyWrites'
    BY <2>1, <2>3 DEF NobodyWrites
  <2>6. FileUnchanged' /\ NothingRemovedUnsent'
    BY <2>1, <2>2 DEF LogIInv, FileUnchanged, NothingRemovedUnsent
  <2> QED
    BY <2>4, <2>5, <2>6 DEF LogIInv
<1>3. CASE read_log_file_content
  <2>1. /\ uploader.at = "read"
        /\ uploader' = IF LinesOf(logPath) = {} THEN [uploader EXCEPT !.at = "reopen"]
                       ELSE [uploader EXCEPT !.at = "connect", !.lines = LinesOf(logPath),
                                             !.name = logPath]
        /\ UNCHANGED <<logHandle, logPath, today, disk, logMode, writer, logMutex,
                       renaming, serverAnswers, received, lineCount, unreported>>
    BY <1>3 DEF read_log_file_content
  <2>2. LinesOf(logPath) \in SUBSET (1 .. lineCount) /\ logPath \in LogNames
    BY LinesLogged DEF LogIInv, LogTypes
  <2>3. /\ uploader' \in Uploader /\ uploader'.ok = uploader.ok
        /\ \/ uploader'.at = "reopen" /\ uploader'.name = uploader.name
           \/ /\ uploader'.at = "connect" /\ uploader'.name = logPath
              /\ uploader'.lines = LinesOf(logPath)
    BY <2>1, <2>2 DEF LogIInv, LogTypes, Uploader, Steps
  <2>4. LogTypes'
    BY <2>1, <2>3 DEF LogIInv, LogTypes, Uploader
  <2>5. NobodyWrites'
    BY <2>1, <2>3 DEF LogIInv, NobodyWrites, Uploading
  <2>6. FileUnchanged' /\ NothingRemovedUnsent'
    BY <2>1, <2>3 DEF LogIInv, FileUnchanged, NothingRemovedUnsent, LinesOf, Exists
  <2> QED
    BY <2>4, <2>5, <2>6 DEF LogIInv
<1>4. CASE Connect \/ SendFileInfo
  <2>1. PICK a \in {"info", "data", "reopen"} : uploader' = [uploader EXCEPT !.at = a]
    BY <1>4 DEF Connect, SendFileInfo
  <2>2. /\ uploader.at \in {"connect", "info"}
        /\ UNCHANGED <<logHandle, logPath, today, disk, logMode, writer, logMutex,
                       renaming, serverAnswers, received, lineCount, unreported>>
    BY <1>4 DEF Connect, SendFileInfo
  <2>3. /\ uploader' \in Uploader /\ uploader'.at = a /\ uploader'.ok = uploader.ok
        /\ uploader'.name = uploader.name /\ uploader'.lines = uploader.lines
    BY <2>1 DEF LogIInv, LogTypes, Uploader, Steps
  <2>4. LogTypes'
    BY <2>2, <2>3 DEF LogIInv, LogTypes, Uploader
  <2>5. NobodyWrites'
    BY <2>2, <2>3 DEF LogIInv, NobodyWrites, Uploading
  <2>6. FileUnchanged' /\ NothingRemovedUnsent'
    BY <2>2, <2>3 DEF LogIInv, FileUnchanged, NothingRemovedUnsent, LinesOf, Exists
  <2> QED
    BY <2>4, <2>5, <2>6 DEF LogIInv
<1>5. CASE SendLogData
  <2>1. PICK sent, ack :
          /\ received' = IF sent THEN received \cup uploader.lines ELSE received
          /\ uploader' = [uploader EXCEPT !.at = "reopen", !.ok = sent /\ ack]
    BY <1>5 DEF SendLogData
  <2>2. /\ uploader.at = "data"
        /\ UNCHANGED <<logHandle, logPath, today, disk, logMode, writer, logMutex,
                       renaming, serverAnswers, lineCount, unreported>>
    BY <1>5 DEF SendLogData
  <2> DEFINE ok == sent /\ ack
  <2>3. ok \in BOOLEAN
    OBVIOUS
  <2>4. ok => sent
    OBVIOUS
  <2> HIDE DEF ok
  <2>5. uploader' = [uploader EXCEPT !.at = "reopen", !.ok = ok]
    BY <2>1 DEF ok
  <2>6. /\ uploader' \in Uploader /\ uploader'.at = "reopen" /\ uploader'.ok = ok
        /\ uploader'.name = uploader.name /\ uploader.lines \subseteq 1 .. lineCount
    BY <2>3, <2>5 DEF LogIInv, LogTypes, Uploader, Steps
  <2>7. LogTypes'
    BY <2>1, <2>2, <2>6 DEF LogIInv, LogTypes, Uploader
  <2>8. NobodyWrites'
    BY <2>2, <2>6 DEF LogIInv, NobodyWrites, Uploading
  <2>9. ok => uploader.lines \subseteq received'
    BY <2>1, <2>4
  <2>10. FileUnchanged' /\ NothingRemovedUnsent'
    BY <2>2, <2>6, <2>9 DEF LogIInv, FileUnchanged, NothingRemovedUnsent, LinesOf, Exists
  <2> QED
    BY <2>7, <2>8, <2>10 DEF LogIInv
<1>6. CASE ReopenLogFile
  <2>1. /\ uploader.at = "reopen" /\ logPath' = today
        /\ UNCHANGED <<today, logMode, writer, logMutex, renaming, serverAnswers,
                       received, lineCount>>
    BY <1>6 DEF ReopenLogFile, generate_file_name
  <2>2. \/ /\ logHandle' = NoFile /\ UNCHANGED <<disk, unreported>>
           /\ uploader' = [Resting EXCEPT !.at = "given up"]
        \/ /\ logHandle' = today /\ disk' = With(disk, today, {}) /\ uploader' = Resting
           /\ unreported' = IF uploader.ok /\ uploader.name = today
                            THEN unreported \cup (LinesOf(today) \ received) ELSE unreported
    BY <1>6 DEF ReopenLogFile
  <2>3. /\ uploader' \in Uploader /\ uploader'.at \in {"wait", "given up"}
        /\ uploader'.ok = FALSE /\ uploader'.name = NoFile
    <3> DEFINE last == [Resting EXCEPT !.at = "given up"]
    <3>1. Resting \in Uploader /\ last \in Uploader
      BY UploaderRecords DEF LogIInv, LogTypes
    <3>2. /\ Resting.at = "wait" /\ Resting.ok = FALSE /\ Resting.name = NoFile
          /\ last.at = "given up" /\ last.ok = FALSE /\ last.name = NoFile
      BY DEF Resting
    <3> QED
      BY <2>2, <3>1, <3>2
  <2>4. today \in LogNames /\ today # NoFile
    BY LogsAssumption DEF LogIInv, LogTypes, NoFile
  <2>5. logHandle' \in LogNames \cup {NoFile}
    BY <2>2, <2>4
  <2>6. DOMAIN disk' \subseteq LogNames /\ \A f \in DOMAIN disk' : disk'[f] \subseteq 1 .. lineCount
    <3>1. DOMAIN disk \subseteq LogNames /\ \A f \in DOMAIN disk : disk[f] \subseteq 1 .. lineCount
      BY DEF LogIInv, LogTypes
    <3>2. {} \in SUBSET (1 .. lineCount)
      OBVIOUS
    <3>3. /\ DOMAIN With(disk, today, {}) \subseteq LogNames
          /\ \A f \in DOMAIN With(disk, today, {}) : With(disk, today, {})[f] \subseteq 1 .. lineCount
      BY <2>4, <3>1, <3>2, DiskTypes
    <3> QED
      BY <2>2, <3>1, <3>3
  <2>7. LogTypes'
    BY <2>1, <2>3, <2>4, <2>5, <2>6 DEF LogIInv, LogTypes, Uploader
  <2>8. NobodyWrites'
    BY <2>1, <2>3 DEF LogIInv, NobodyWrites, Uploading
  <2>9. FileUnchanged'
    BY <2>3 DEF FileUnchanged
  <2>10. unreported' = {}
    BY <2>2, <2>4 DEF LogIInv, FileUnchanged, NothingRemovedUnsent
  <2> QED
    BY <2>7, <2>8, <2>9, <2>10 DEF LogIInv, NothingRemovedUnsent
<1> QED
  BY <1>1, <1>2, <1>3, <1>4, <1>5, <1>6
     DEF upload_thread_func, upload_and_clear_logs, tcp_upload_logs

\* A handler renames the file, which an upload under way then knows under no name.
LEMMA RenamingStep ==
  ASSUME LogIInv, RenameLogFile
  PROVE  LogIInv'
<1>1. PICK name \in LogNames :
        /\ today' = name
        /\ IF Exists(logPath)
           THEN /\ disk' = With(Without(disk, logPath), name, LinesOf(logPath))
                /\ logHandle' = IF logHandle = logPath THEN name ELSE logHandle
                /\ renaming' = name
           ELSE UNCHANGED <<disk, logHandle, renaming>>
  BY DEF RenameLogFile
<1>2. /\ uploader' = [uploader EXCEPT !.name = NoFile]
      /\ UNCHANGED <<logPath, logMode, writer, logMutex, serverAnswers, received, lineCount,
                     unreported>>
  BY DEF RenameLogFile
<1>3. /\ uploader' \in Uploader /\ uploader'.at = uploader.at /\ uploader'.ok = uploader.ok
      /\ uploader'.name = NoFile
  BY <1>2 DEF LogIInv, LogTypes, Uploader
<1>4. name # NoFile /\ logPath # NoFile
  BY LogsAssumption DEF LogIInv, LogTypes, NoFile
<1>5. logHandle' \in LogNames \cup {NoFile} /\ (logHandle' = NoFile <=> logHandle = NoFile)
  BY <1>1, <1>4 DEF LogIInv, LogTypes
<1>6. DOMAIN disk' \subseteq LogNames /\ \A f \in DOMAIN disk' : disk'[f] \subseteq 1 .. lineCount
  <2>1. DOMAIN disk \subseteq LogNames /\ \A f \in DOMAIN disk : disk[f] \subseteq 1 .. lineCount
    BY DEF LogIInv, LogTypes
  <2> DEFINE rest == Without(disk, logPath)
  <2>2. DOMAIN rest \subseteq LogNames /\ \A f \in DOMAIN rest : rest[f] \subseteq 1 .. lineCount
    BY <2>1 DEF Without
  <2>3. LinesOf(logPath) \in SUBSET (1 .. lineCount)
    BY LinesLogged DEF LogIInv
  <2> HIDE DEF rest
  <2>4. /\ DOMAIN With(rest, name, LinesOf(logPath)) \subseteq LogNames
        /\ \A f \in DOMAIN With(rest, name, LinesOf(logPath)) :
             With(rest, name, LinesOf(logPath))[f] \subseteq 1 .. lineCount
    BY <2>2, <2>3, DiskTypes
  <2> QED
    BY <1>1, <2>1, <2>4 DEF rest
<1>7. LogTypes'
  BY <1>1, <1>2, <1>3, <1>5, <1>6 DEF LogIInv, LogTypes, Uploader
<1>8. NobodyWrites'
  BY <1>2, <1>3, <1>5 DEF LogIInv, NobodyWrites, Uploading
<1>9. FileUnchanged' /\ NothingRemovedUnsent'
  BY <1>2, <1>3 DEF LogIInv, FileUnchanged, NothingRemovedUnsent
<1> QED
  BY <1>7, <1>8, <1>9 DEF LogIInv

\* The program is started again and appends to the file that there is.
LEMMA LogRestarts ==
  ASSUME LogIInv, LogRestart
  PROVE  LogIInv'
<1>1. /\ logPath' = today /\ writer' = Waiting /\ logMutex' = "free" /\ renaming' = NoFile
      /\ UNCHANGED <<today, serverAnswers, received, lineCount, unreported>>
      /\ \/ /\ logHandle' = today /\ disk' = With(disk, today, LinesOf(today))
            /\ logMode' \in {"ALL", "PRODUCT"} /\ uploader' = Resting
         \/ /\ logHandle' = NoFile /\ logMode' = "UNKNOWN" /\ UNCHANGED disk
            /\ uploader' = [Resting EXCEPT !.at = "given up"]
  BY DEF LogRestart, wtsl_logger_init, generate_file_name, open_log_file, parse_config_file
<1>2. /\ uploader' \in Uploader /\ uploader'.at \in {"wait", "given up"}
      /\ uploader'.ok = FALSE /\ uploader'.name = NoFile
  <2> DEFINE last == [Resting EXCEPT !.at = "given up"]
  <2>1. Resting \in Uploader /\ last \in Uploader
    BY UploaderRecords DEF LogIInv, LogTypes
  <2>2. /\ Resting.at = "wait" /\ Resting.ok = FALSE /\ Resting.name = NoFile
        /\ last.at = "given up" /\ last.ok = FALSE /\ last.name = NoFile
    BY DEF Resting
  <2> QED
    BY <1>1, <2>1, <2>2
<1>3. writer' \in [LogWriters -> Writer] /\ \A w \in LogWriters : writer'[w].at = "idle"
  BY <1>1 DEF Waiting, Writer
<1>4. DOMAIN disk' \subseteq LogNames /\ \A f \in DOMAIN disk' : disk'[f] \subseteq 1 .. lineCount
  <2>1. DOMAIN disk \subseteq LogNames /\ \A f \in DOMAIN disk : disk[f] \subseteq 1 .. lineCount
    BY DEF LogIInv, LogTypes
  <2>2. LinesOf(today) \in SUBSET (1 .. lineCount) /\ today \in LogNames
    BY LinesLogged DEF LogIInv, LogTypes
  <2>3. /\ DOMAIN With(disk, today, LinesOf(today)) \subseteq LogNames
        /\ \A f \in DOMAIN With(disk, today, LinesOf(today)) :
             With(disk, today, LinesOf(today))[f] \subseteq 1 .. lineCount
    BY <2>1, <2>2, DiskTypes
  <2> QED
    BY <1>1, <2>1, <2>3
<1>5. logHandle' \in LogNames \cup {NoFile} /\ logMode' \in {"ALL", "PRODUCT", "UNKNOWN"}
  BY <1>1 DEF LogIInv, LogTypes
<1>6. LogTypes'
  BY <1>1, <1>2, <1>3, <1>4, <1>5 DEF LogIInv, LogTypes, Uploader
<1>7. NobodyWrites'
  BY <1>2, <1>3 DEF NobodyWrites, Uploading
<1>8. FileUnchanged' /\ NothingRemovedUnsent'
  BY <1>1, <1>2 DEF LogIInv, FileUnchanged, NothingRemovedUnsent
<1> QED
  BY <1>6, <1>7, <1>8 DEF LogIInv

\* Every step keeps the invariant.
LEMMA NextLogIInv == LogIInv /\ [LogNext]_logVars => LogIInv'
<1> SUFFICES ASSUME LogIInv, [LogNext]_logVars PROVE LogIInv'
  OBVIOUS
<1>1. CASE NoteLogPath \/ Midnight \/ ServerChanges
  <2>1. UNCHANGED <<logHandle, disk, logMode, writer, logMutex, uploader, received, lineCount,
                    unreported>>
    BY <1>1 DEF NoteLogPath, Midnight, ServerChanges
  <2>2. logPath' \in LogNames /\ today' \in LogNames /\ renaming' \in LogNames \cup {NoFile}
    BY <1>1 DEF NoteLogPath, Midnight, ServerChanges, LogIInv, LogTypes
  <2>3. LogTypes'
    BY <2>1, <2>2 DEF LogIInv, LogTypes, Uploader
  <2>4. NobodyWrites' /\ FileUnchanged' /\ NothingRemovedUnsent'
    BY <2>1 DEF LogIInv, NobodyWrites, Uploading, FileUnchanged, NothingRemovedUnsent,
                LinesOf, Exists
  <2> QED
    BY <2>3, <2>4 DEF LogIInv
<1>2. CASE UNCHANGED logVars
  <2>1. UNCHANGED <<logHandle, logPath, today, disk, logMode, writer, logMutex, uploader,
                    renaming, received, lineCount, unreported>>
    BY <1>2 DEF logVars
  <2>2. LogTypes'
    BY <2>1 DEF LogIInv, LogTypes, Uploader
  <2>3. NobodyWrites' /\ FileUnchanged' /\ NothingRemovedUnsent'
    BY <2>1 DEF LogIInv, NobodyWrites, Uploading, FileUnchanged, NothingRemovedUnsent,
                LinesOf, Exists
  <2> QED
    BY <2>2, <2>3 DEF LogIInv
<1> QED
  BY <1>1, <1>2, WriterSteps, UploadSteps, RenamingStep, LogRestarts DEF LogNext

\* The invariant holds in every state.
LEMMA LogSpecIInv == LogSpec => []LogIInv
BY InitLogIInv, NextLogIInv, PTL DEF LogSpec

\* The names of files are names, and what is on the disk or has arrived was logged.
THEOREM LogTypeCorrect == LogSpec => []LogTypeOK
<1>1. LogIInv => LogTypeOK
  BY DEF LogIInv, LogTypes, LogTypeOK, Writer, Uploader, Steps
<1> QED
  BY <1>1, LogSpecIInv, PTL

\* An upload that reports success removes no line the network manager does not have,
\* for any number of writers and names: upload_and_clear_logs closes the file before
\* it reads it, and a writer that tested it before loses its line.
THEOREM UploadRemovesSent == LogSpec => []NothingRemovedUnsent
<1>1. LogIInv => NothingRemovedUnsent
  BY DEF LogIInv
<1> QED
  BY <1>1, LogSpecIInv, PTL

-----------------------------------------------------------------------------
(***************************************************************************)
(* All services                                                            *)
(***************************************************************************)
\* A step of one service is a step of it, and no step of another one: they share no
\* state.  What is proved of each then holds of the program that runs them.
LEMMA ServicesApart ==
  Spec => SessionSpec /\ RulesSpec /\ LogSpec /\ McSpec /\ TransportSpec /\ RadioSpec
<1>1. Init => /\ SessionInit /\ RulesInit /\ LogInit /\ McInit /\ TransportInit
              /\ RadioInit
  BY DEF Init
<1>2. [Next]_serviceVars => [SessionNext]_sessionVars
  BY DEF Next, serviceVars
<1>3. [Next]_serviceVars => [RulesNext]_ruleVars
  BY DEF Next, serviceVars, RulesNext
<1>4. [Next]_serviceVars => [LogNext]_logVars
  BY DEF Next, serviceVars
<1>5. [Next]_serviceVars => [McNext]_mcVars
  BY DEF Next, serviceVars
<1>6. [Next]_serviceVars => [TransportNext]_transportVars
  BY DEF Next, serviceVars
<1>7. [Next]_serviceVars => [RadioNext]_radioVars
  BY DEF Next, serviceVars
<1> QED
  BY <1>1, <1>2, <1>3, <1>4, <1>5, <1>6, <1>7, PTL
  DEF Spec, SessionSpec, RulesSpec, LogSpec, McSpec, TransportSpec, RadioSpec

\* Type correctness of the services beside the link, started by main one after the
\* other: users and requests, traffic rules, log, heartbeat and the SLE bridge.
THEOREM ServicesTypeCorrect == Spec => []ServicesTypeOK
<1>1. /\ SessionTypeOK /\ RulesTypeOK /\ LogTypeOK /\ McTypeOK /\ TransportTypeOK
      /\ RadioTypeOK
      => ServicesTypeOK
  BY DEF ServicesTypeOK
<1> QED
  BY <1>1, ServicesApart, SessionTypeCorrect, RulesTypeCorrect, LogTypeCorrect,
     McTypeCorrect, TransportTypeCorrect, RadioTypeCorrect, PTL

\* What the services promise holds of the program that runs them all: the permissions
\* of users, the rules of tc and iptables, the log, the heartbeat's table, the UDP server
\* and the scan list.
THEOREM ServicesKeepPromises ==
  Spec => [](/\ PermissionEarned /\ UsersConsistent
             /\ QosRestored /\ FilterAgrees
             /\ NothingRemovedUnsent /\ SilentPeersLeave
             /\ OneUdpServer /\ SeekDistinct)
BY ServicesApart, FunctionsNeedLogin, UsersStayConsistent, ShapingRestored,
   FilterTellsPolicy, UploadRemovesSent, SilentPeersRemoved, UdpServerIsOne, ScanListsOnce,
   PTL
=============================================================================
