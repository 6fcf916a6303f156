-------------------------- MODULE NodeTable_proofs --------------------------
(* Proofs that the list of nodes is well formed and bounded, and lists a     *)
(* node once while no address changes, for any peers,                        *)
(* addresses and versions, and however many datagrams are under way.         *)
EXTENDS NodeTable, FiniteSetTheorems, FunctionTheorems, SequenceTheorems, TLAPS

-----------------------------------------------------------------------------
(***************************************************************************)
(* The strengthening: the device's own row is the first and stays its own, *)
(* every other row is of a peer at an address DHCP gave out.               *)
(***************************************************************************)
OwnRowFirst ==
  /\ Len(table) >= 1
  /\ table[1].addr = OwnAddr /\ table[1].mac = Self
  /\ \A i \in DOMAIN table : i > 1 => table[i].addr \in Addr /\ table[i].mac \in Peer

IInv == TypeOK /\ OwnRowFirst /\ StaleRowsDiffer

\* The two ways a step changes the list: a row for an unknown node at its end,
\* or new info for a row that is the first with its address.
NewRow(r) ==
  /\ r \in Row
  /\ r.id = Len(table) /\ r.addr \in Addr /\ r.mac \in Peer
  /\ RowsOf(r.mac) = {}
  /\ table' = Append(table, r)
NewInfo(i, r) ==
  /\ i \in DOMAIN table /\ First(i)
  /\ r \in Row
  /\ r.id = table[i].id /\ r.addr = table[i].addr
  /\ i = 1 => r.mac = Self
  /\ i > 1 => r.mac \in Peer
  /\ table' = [table EXCEPT ![i] = r]

-----------------------------------------------------------------------------
\* The initial states satisfy the invariant.
LEMMA InitIInv == Init => IInv
<1> SUFFICES ASSUME Init PROVE IInv
  OBVIOUS
<1> DEFINE own == [id |-> 0, addr |-> OwnAddr, mac |-> Self, ver |-> 0]
<1>1. own \in Row
  BY NodeAssumption DEF Row, Node, Ver
<1>2. table = <<own>> /\ Len(table) = 1 /\ DOMAIN table = 1..1 /\ table[1] = own
  BY DEF Init
<1>3. table \in Seq(Row)
  BY <1>1, <1>2
<1>4. addr \in [Peer -> Addr] /\ ver \in [Node -> Ver]
  BY NodeAssumption DEF Init, Ver
<1>5. TypeOK
  <2>1. \A i \in DOMAIN table : table[i].id = i - 1
    BY <1>2
  <2>2. net \subseteq Heartbeat /\ moved \in BOOLEAN
    BY DEF Init
  <2> QED
    BY <2>1, <2>2, <1>3, <1>4 DEF TypeOK
<1>6. OwnRowFirst
  BY <1>2 DEF OwnRowFirst
<1>7. StaleRowsDiffer
  BY <1>2 DEF StaleRowsDiffer
<1> QED
  BY <1>5, <1>6, <1>7 DEF IInv

\* A new row keeps the list well formed: its node has no other row.
LEMMA NewRowStep ==
  ASSUME IInv, NEW r, NewRow(r)
  PROVE  /\ table' \in Seq(Row)
         /\ \A i \in DOMAIN table' : table'[i].id = i - 1
         /\ OwnRowFirst' /\ StaleRowsDiffer'
<1> DEFINE n == Len(table)
<1>1. /\ table \in Seq(Row) /\ n \in Nat /\ DOMAIN table = 1..n
      /\ \A i \in 1..n : table[i].id = i - 1
  BY LenProperties DEF IInv, TypeOK
<1>2. /\ table' \in Seq(Row) /\ Len(table') = n + 1 /\ DOMAIN table' = 1..(n+1)
      /\ \A i \in 1..n : table'[i] = table[i]
      /\ table'[n+1] = r
  BY <1>1, AppendProperties, LenProperties DEF NewRow
<1>3. \A i \in DOMAIN table' : table'[i].id = i - 1
  BY <1>1, <1>2 DEF NewRow
<1>4. OwnRowFirst'
  BY <1>1, <1>2 DEF IInv, OwnRowFirst, NewRow
<1>5. \A i \in 1..n : table[i].mac # r.mac
  BY <1>1 DEF NewRow, RowsOf
<1>6. \A i \in 1..n : First(i)' <=> First(i)
  BY <1>1, <1>2 DEF First
<1>7. StaleRowsDiffer'
  <2> SUFFICES ASSUME NEW i \in 1..(n+1), NEW j \in 1..(n+1), i # j,
                      ~First(i)', ~First(j)'
               PROVE  table'[i].mac # table'[j].mac
    BY <1>2 DEF StaleRowsDiffer
  <2>1. CASE i \in 1..n /\ j \in 1..n
    BY <2>1, <1>1, <1>2, <1>6 DEF IInv, StaleRowsDiffer
  <2>2. CASE i = n + 1 \/ j = n + 1
    BY <2>2, <1>1, <1>2, <1>5
  <2> QED
    BY <2>1, <2>2, <1>1
<1> QED
  BY <1>2, <1>3, <1>4, <1>7

\* New info does too: addresses stay, so the rows that are not the first with
\* their address are the same, and none of them is written.
LEMMA NewInfoStep ==
  ASSUME IInv, NEW k, NEW r, NewInfo(k, r)
  PROVE  /\ table' \in Seq(Row)
         /\ \A i \in DOMAIN table' : table'[i].id = i - 1
         /\ OwnRowFirst' /\ StaleRowsDiffer'
<1> DEFINE n == Len(table)
<1>1. /\ table \in Seq(Row) /\ n \in Nat /\ DOMAIN table = 1..n
      /\ \A i \in 1..n : table[i].id = i - 1
  BY LenProperties DEF IInv, TypeOK
<1>2. /\ table' \in Seq(Row) /\ Len(table') = n /\ DOMAIN table' = 1..n
      /\ \A i \in 1..n : table'[i] = IF i = k THEN r ELSE table[i]
  BY <1>1, ExceptSeq, LenProperties DEF NewInfo
<1>3. \A i \in DOMAIN table' : table'[i].id = i - 1
  BY <1>1, <1>2 DEF NewInfo
<1>4. OwnRowFirst'
  BY <1>1, <1>2 DEF IInv, OwnRowFirst, NewInfo
<1>5. \A i \in 1..n : table'[i].addr = table[i].addr
  BY <1>1, <1>2 DEF NewInfo
<1>6. \A i \in 1..n : First(i)' <=> First(i)
  BY <1>1, <1>2, <1>5 DEF First
<1>7. StaleRowsDiffer'
  <2> SUFFICES ASSUME NEW i \in 1..n, NEW j \in 1..n, i # j, ~First(i)', ~First(j)'
               PROVE  table'[i].mac # table'[j].mac
    BY <1>2 DEF StaleRowsDiffer
  <2>1. ~First(i) /\ ~First(j) /\ i # k /\ j # k
    BY <1>6 DEF NewInfo
  <2> QED
    BY <2>1, <1>1, <1>2 DEF IInv, StaleRowsDiffer
<1> QED
  BY <1>2, <1>3, <1>4, <1>7

-----------------------------------------------------------------------------
\* A heartbeat adds a row, changes the info of one, or leaves the list alone.
LEMMA HeartbeatStep ==
  ASSUME IInv, NEW h \in net, NEW again \in BOOLEAN, parse_data_heartbeat(h, again)
  PROVE  \/ \E r : NewRow(r)
         \/ \E i, r : NewInfo(i, r)
         \/ UNCHANGED table
<1>1. h \in Heartbeat /\ h.mac \in Peer /\ h.ver \in Ver /\ h.from \in Addr
  BY DEF IInv, TypeOK, Heartbeat
<1>2. table \in Seq(Row) /\ Len(table) \in Nat /\ DOMAIN table = 1..Len(table)
  BY LenProperties DEF IInv, TypeOK
<1>3. CASE is_node_not_exist(h)
  <2> DEFINE r == [id |-> Len(table), addr |-> h.from, mac |-> h.mac, ver |-> h.ver]
  <2>1. r \in Row
    BY <1>1, <1>2 DEF Row, Node
  <2>2. NewRow(r)
    BY <1>1, <1>3, <2>1
       DEF parse_data_heartbeat, add_wtsl_node_to_list_tail, NewRow, is_node_not_exist
  <2> QED
    BY <2>2
<1>4. CASE ~is_node_not_exist(h)
  <2>1. update_heartbeat(h)
    BY <1>4 DEF parse_data_heartbeat
  <2>2. CASE UNCHANGED table
    BY <2>2
  <2>3. CASE RowsAt(h.from) # {} /\ ~UNCHANGED table
    <3>1. PICK i \in RowsAt(h.from) :
            /\ \A j \in RowsAt(h.from) : i <= j
            /\ table' = [table EXCEPT ![i] = [@ EXCEPT !.mac = h.mac, !.ver = h.ver]]
      BY <2>1, <2>3 DEF update_heartbeat
    <3> DEFINE r == [table[i] EXCEPT !.mac = h.mac, !.ver = h.ver]
    <3>2. i \in 1..Len(table) /\ table[i] \in Row /\ table[i].addr = h.from
      BY <3>1, <1>2, ElementOfSeq DEF RowsAt
    <3>3. r \in Row /\ r.id = table[i].id /\ r.addr = table[i].addr /\ r.mac = h.mac
      BY <3>2, <1>1 DEF Row, Node
    <3>4. i # 1
      BY <3>2, <1>1, NodeAssumption DEF IInv, OwnRowFirst
    <3>5. First(i)
      BY <3>1, <3>2, <1>2 DEF First, RowsAt
    <3>6. table' = [table EXCEPT ![i] = r]
      BY <3>1
    <3>7. NewInfo(i, r)
      BY <3>2, <3>3, <3>4, <3>5, <3>6, <1>1, <1>2 DEF NewInfo
    <3> QED
      BY <3>7
  <2> QED
    BY <2>1, <2>2, <2>3 DEF update_heartbeat
<1> QED
  BY <1>3, <1>4

\* The watcher changes the info of the first row.
LEMMA WatcherStep ==
  ASSUME IInv, update_wtsl_node_basicinfo
  PROVE  \E i, r : NewInfo(i, r)
<1>1. table \in Seq(Row) /\ Len(table) \in Nat /\ DOMAIN table = 1..Len(table)
  BY LenProperties DEF IInv, TypeOK
<1>2. PICK i \in RowsOf(Self) :
        /\ \A j \in RowsOf(Self) : i <= j
        /\ table' = [table EXCEPT ![i] = [@ EXCEPT !.ver = ver[Self]]]
  BY DEF update_wtsl_node_basicinfo
<1> DEFINE r == [table[i] EXCEPT !.ver = ver[Self]]
<1>3. i \in 1..Len(table) /\ table[i] \in Row /\ table[i].mac = Self
  BY <1>1, <1>2, ElementOfSeq DEF RowsOf
<1>4. i = 1
  BY <1>1, <1>3, NodeAssumption DEF IInv, OwnRowFirst
<1>5. ver[Self] \in Ver
  BY DEF IInv, TypeOK, Node
<1>6. r \in Row /\ r.id = table[i].id /\ r.addr = table[i].addr /\ r.mac = Self
  BY <1>3, <1>5 DEF Row
<1>7. First(i)
  BY <1>1, <1>4 DEF First
<1>8. table' = [table EXCEPT ![i] = r]
  BY <1>2
<1>9. NewInfo(i, r)
  BY <1>1, <1>3, <1>4, <1>6, <1>7, <1>8 DEF NewInfo
<1> QED
  BY <1>9

\* Every step keeps the peers and the network well typed.
LEMMA NetStep ==
  ASSUME IInv, [Next]_vars
  PROVE  /\ addr' \in [Peer -> Addr] /\ ver' \in [Node -> Ver]
         /\ net' \subseteq Heartbeat /\ moved' \in BOOLEAN
<1> USE DEF IInv, TypeOK
<1>1. ASSUME NEW p \in Peer, send_heartbeat_req(p)
      PROVE  net' \subseteq Heartbeat /\ UNCHANGED <<addr, ver, moved>>
  <2>1. [mac |-> p, ver |-> ver[p], from |-> addr[p]] \in Heartbeat
    BY DEF Heartbeat, Node
  <2> QED
    BY <1>1, <2>1 DEF send_heartbeat_req
<1>2. ASSUME NEW p \in Peer, NEW a \in Addr, AddressChange(p, a)
      PROVE  addr' \in [Peer -> Addr] /\ moved' \in BOOLEAN /\ UNCHANGED <<ver, net>>
  BY <1>2 DEF AddressChange
<1>3. ASSUME NEW n \in Node, InfoChange(n)
      PROVE  ver' \in [Node -> Ver] /\ UNCHANGED <<addr, net, moved>>
  BY <1>3, NodeAssumption DEF InfoChange, Ver
<1>4. ASSUME NEW h \in net, Lose(h)
      PROVE  net' \subseteq Heartbeat /\ UNCHANGED <<addr, ver, moved>>
  BY <1>4 DEF Lose
<1>5. ASSUME NEW h \in net, NEW again \in BOOLEAN, parse_data_heartbeat(h, again)
      PROVE  net' \subseteq Heartbeat /\ UNCHANGED <<addr, ver, moved>>
  BY <1>5 DEF parse_data_heartbeat
<1>6. CASE update_wtsl_node_basicinfo
  BY <1>6 DEF update_wtsl_node_basicinfo
<1>7. CASE UNCHANGED vars
  BY <1>7 DEF vars
<1> QED
  BY <1>1, <1>2, <1>3, <1>4, <1>5, <1>6, <1>7 DEF Next

\* Every step changes the list in one of the two ways, or not at all.
LEMMA ListStep ==
  ASSUME IInv, [Next]_vars
  PROVE  \/ \E r : NewRow(r)
         \/ \E i, r : NewInfo(i, r)
         \/ UNCHANGED table
<1>1. ASSUME NEW h \in net, NEW again \in BOOLEAN, parse_data_heartbeat(h, again)
      PROVE  (\E r : NewRow(r)) \/ (\E i, r : NewInfo(i, r)) \/ UNCHANGED table
  BY <1>1, HeartbeatStep
<1>2. CASE update_wtsl_node_basicinfo
  BY <1>2, WatcherStep
<1>3. CASE \/ \E p \in Peer : send_heartbeat_req(p)
           \/ \E p \in Peer, a \in Addr : AddressChange(p, a)
           \/ \E n \in Node : InfoChange(n)
           \/ \E h \in net : Lose(h)
           \/ UNCHANGED vars
  BY <1>3 DEF send_heartbeat_req, AddressChange, InfoChange, Lose, vars
<1> QED
  BY <1>1, <1>2, <1>3 DEF Next

\* The strengthening is inductive.
LEMMA NextIInv == IInv /\ [Next]_vars => IInv'
<1> SUFFICES ASSUME IInv, [Next]_vars PROVE IInv'
  OBVIOUS
<1>1. /\ addr' \in [Peer -> Addr] /\ ver' \in [Node -> Ver]
      /\ net' \subseteq Heartbeat /\ moved' \in BOOLEAN
  BY NetStep
<1>2. /\ table' \in Seq(Row)
      /\ \A i \in DOMAIN table' : table'[i].id = i - 1
      /\ OwnRowFirst' /\ StaleRowsDiffer'
  <2>1. CASE \E r : NewRow(r)
    BY <2>1, NewRowStep
  <2>2. CASE \E i, r : NewInfo(i, r)
    BY <2>2, NewInfoStep
  <2>3. CASE UNCHANGED table
    BY <2>3 DEF IInv, TypeOK, OwnRowFirst, StaleRowsDiffer, First
  <2> QED
    BY <2>1, <2>2, <2>3, ListStep
<1> QED
  BY <1>1, <1>2 DEF IInv, TypeOK

\* The strengthening holds in every reachable state.
LEMMA Invariance == Spec => []IInv
  BY InitIInv, NextIInv, PTL DEF Spec

-----------------------------------------------------------------------------
\* Rows that are the first with their address are at most as many as there are
\* addresses, the device's own included, and the others as there are peers.
LEMMA Counting == IInv => TableBounded
<1> SUFFICES ASSUME IInv PROVE TableBounded
  OBVIOUS
<1> DEFINE n      == Len(table)
           firsts == {i \in 1..n : First(i)}
           stale  == {i \in 1..n : ~First(i)}
<1>1. /\ table \in Seq(Row) /\ n \in Nat /\ DOMAIN table = 1..n
      /\ \A i \in 1..n : table[i] \in Row
  BY LenProperties, ElementOfSeq DEF IInv, TypeOK
<1>2. IsFiniteSet(firsts) /\ Cardinality(firsts) <= Cardinality(Addr) + 1
  <2> DEFINE f == [i \in firsts |-> table[i].addr]
  <2>1. f \in [firsts -> Addr \cup {OwnAddr}]
    BY <1>1 DEF Row
  <2>2. \A i, j \in firsts : table[i].addr = table[j].addr => i = j
    BY <1>1 DEF First
  <2>3. f \in Injection(firsts, Addr \cup {OwnAddr})
    BY <2>1, <2>2 DEF Injection, IsInjective
  <2>4. /\ IsFiniteSet(Addr \cup {OwnAddr})
        /\ Cardinality(Addr \cup {OwnAddr}) = Cardinality(Addr) + 1
    BY NodeAssumption, FS_AddElement
  <2> HIDE DEF f, firsts
  <2> QED
    BY <2>3, <2>4, FS_Injection
<1>3. IsFiniteSet(stale) /\ Cardinality(stale) <= Cardinality(Peer)
  <2> DEFINE f == [i \in stale |-> table[i].mac]
  <2>1. \A i \in stale : i > 1
    BY <1>1 DEF First
  <2>2. f \in [stale -> Peer]
    BY <2>1, <1>1 DEF IInv, OwnRowFirst
  <2>3. \A i, j \in stale : table[i].mac = table[j].mac => i = j
    BY <1>1 DEF IInv, StaleRowsDiffer
  <2>4. f \in Injection(stale, Peer)
    BY <2>2, <2>3 DEF Injection, IsInjective
  <2> HIDE DEF f, stale
  <2> QED
    BY <2>4, NodeAssumption, FS_Injection
<1>4. firsts \cup stale = 1..n /\ firsts \cap stale = {}
  OBVIOUS
<1>5. Cardinality(1..n) = n
  <2> HIDE DEF n
  <2>1. Cardinality(1..n) = IF 1 > n THEN 0 ELSE n - 1 + 1
    BY <1>1, FS_Interval
  <2> QED
    BY <2>1, <1>1
<1>6. Cardinality({}) = 0
  BY FS_EmptySet
<1>7. /\ Cardinality(firsts) \in Nat /\ Cardinality(stale) \in Nat
      /\ Cardinality(Addr) \in Nat /\ Cardinality(Peer) \in Nat
  BY <1>2, <1>3, NodeAssumption, FS_CardinalityType
<1>8. n = Cardinality(firsts) + Cardinality(stale)
  <2> HIDE DEF n, firsts, stale
  <2>1. Cardinality(firsts \cup stale)
          = Cardinality(firsts) + Cardinality(stale) - Cardinality(firsts \cap stale)
    BY <1>2, <1>3, FS_Union
  <2>2. n = Cardinality(firsts) + Cardinality(stale) - 0
    BY <2>1, <1>4, <1>5, <1>6
  <2> QED
    BY <2>2, <1>1, <1>7
<1> HIDE DEF firsts, stale
<1> QED
  BY <1>2, <1>3, <1>7, <1>8 DEF TableBounded

-----------------------------------------------------------------------------
(***************************************************************************)
(* The properties.                                                         *)
(***************************************************************************)
\* Every variable keeps its type, and the id of a row stays its position, which
\* the loops over ids in is_node_not_exist and update_heartbeat rely on.
THEOREM TableTypeCorrect == Spec => []TypeOK
<1>1. IInv => TypeOK
  BY DEF IInv
<1> QED
  BY Invariance, <1>1, PTL

\* Two rows that update_heartbeat can no longer reach are of different nodes.
THEOREM StaleRowsAreDifferent == Spec => []StaleRowsDiffer
<1>1. IInv => StaleRowsDiffer
  BY DEF IInv
<1> QED
  BY Invariance, <1>1, PTL

\* The list, from which nothing is removed, stays bounded whatever addresses
\* DHCP gives out and whatever the network does with the heartbeats.
THEOREM TableIsBounded == Spec => []TableBounded
  BY Invariance, Counting, PTL

-----------------------------------------------------------------------------
(***************************************************************************)
(* While no address has changed: the addresses of the peers are distinct,  *)
(* a datagram tells the address its sender still has, and a row is found   *)
(* by its address just where it is found by its node.                      *)
(***************************************************************************)
AddressesDistinct == \A p, q \in Peer : addr[p] = addr[q] => p = q
DatagramsCurrent == \A h \in net : h.from = addr[h.mac]
ListedOnce == \A i, j \in DOMAIN table : table[i].mac = table[j].mac => i = j
ListedAtHome == \A i \in DOMAIN table : table[i].mac \in Peer => table[i].addr = addr[table[i].mac]
Unmoved == ~moved => AddressesDistinct /\ DatagramsCurrent /\ ListedOnce /\ ListedAtHome

LEMMA InitUnmoved == Init => Unmoved
BY NodeAssumption
DEF Init, Unmoved, AddressesDistinct, DatagramsCurrent, ListedOnce, ListedAtHome

\* A heartbeat adds a row for a node that has none, or rewrites the row of its sender.
LEMMA HeartbeatUnmoved ==
  ASSUME IInv, Unmoved, ~moved, NEW h \in net, NEW again \in BOOLEAN,
         parse_data_heartbeat(h, again)
  PROVE  ListedOnce' /\ ListedAtHome'
<1> DEFINE n == Len(table)
<1>1. h.mac \in Peer /\ h.from \in Addr /\ h.from = addr[h.mac] /\ h \in Heartbeat
  BY DEF IInv, TypeOK, Heartbeat, Unmoved, DatagramsCurrent
<1>2. /\ table \in Seq(Row) /\ n \in Nat /\ DOMAIN table = 1..n
      /\ \A i \in 1..n : table[i] \in Row
      /\ addr' = addr
  BY LenProperties, ElementOfSeq DEF IInv, TypeOK, parse_data_heartbeat
<1>3. CASE is_node_not_exist(h)
  <2> DEFINE r == [id |-> n, addr |-> h.from, mac |-> h.mac, ver |-> h.ver]
  <2>1. r \in Row /\ r.mac = h.mac /\ r.addr = h.from
    BY <1>1, <1>2 DEF Row, Node, Heartbeat
  <2>2. table' = Append(table, r)
    BY <1>3 DEF parse_data_heartbeat, add_wtsl_node_to_list_tail
  <2> HIDE DEF r
  <2>3. /\ DOMAIN table' = 1..(n+1) /\ table'[n+1] = r
        /\ \A i \in 1..n : table'[i] = table[i]
    BY <1>2, <2>1, <2>2, AppendProperties, LenProperties
  <2>4. \A i \in 1..n : table[i].mac # h.mac
    BY <1>2, <1>3 DEF is_node_not_exist, RowsOf
  <2>5. \A i \in 1..(n+1) : i \in 1..n \/ i = n + 1
    BY <1>2
  <2>6. ListedOnce'
    BY <1>2, <2>1, <2>3, <2>4, <2>5 DEF ListedOnce, Unmoved
  <2>7. ListedAtHome'
    BY <1>1, <1>2, <2>1, <2>3, <2>5 DEF ListedAtHome, Unmoved
  <2> QED
    BY <2>6, <2>7
<1>4. CASE ~is_node_not_exist(h) /\ UNCHANGED table
  BY <1>2, <1>4 DEF Unmoved, ListedOnce, ListedAtHome
<1>5. CASE ~is_node_not_exist(h) /\ ~UNCHANGED table
  <2>1. PICK k \in RowsAt(h.from) :
          table' = [table EXCEPT ![k] = [@ EXCEPT !.mac = h.mac, !.ver = h.ver]]
    BY <1>5 DEF parse_data_heartbeat, update_heartbeat
  <2>2. k \in 1..n /\ table[k].addr = h.from /\ table[k] \in Row
    BY <1>2, <2>1 DEF RowsAt
  <2>3. table[k].mac = h.mac
    <3>1. k > 1
      BY <1>1, <2>2, NodeAssumption DEF IInv, OwnRowFirst
    <3>2. table[k].mac \in Peer
      BY <1>2, <2>2, <3>1 DEF IInv, OwnRowFirst
    <3> QED
      BY <1>1, <1>2, <2>2, <3>2 DEF Unmoved, ListedAtHome, AddressesDistinct
  <2>4. /\ DOMAIN table' = 1..n
        /\ \A i \in 1..n : table'[i].mac = table[i].mac /\ table'[i].addr = table[i].addr
    <3> DEFINE r == [table[k] EXCEPT !.mac = h.mac, !.ver = h.ver]
    <3>1. r.mac = table[k].mac /\ r.addr = table[k].addr
      BY <2>2, <2>3 DEF Row
    <3>2. table' = [table EXCEPT ![k] = r]
      BY <2>1
    <3> HIDE DEF r
    <3> QED
      BY <1>2, <2>2, <3>1, <3>2
  <2> QED
    BY <1>2, <2>4 DEF Unmoved, ListedOnce, ListedAtHome
<1> QED
  BY <1>3, <1>4, <1>5

\* The watcher rewrites the first row with what it has: its node and address stay.
LEMMA WatcherUnmoved ==
  ASSUME IInv, Unmoved, ~moved, update_wtsl_node_basicinfo
  PROVE  ListedOnce' /\ ListedAtHome'
<1>1. table \in Seq(Row) /\ DOMAIN table = 1..Len(table) /\ addr' = addr
  BY LenProperties DEF IInv, TypeOK, update_wtsl_node_basicinfo
<1>2. PICK k \in RowsOf(Self) : table' = [table EXCEPT ![k] = [@ EXCEPT !.ver = ver[Self]]]
  BY DEF update_wtsl_node_basicinfo
<1> DEFINE r == [table[k] EXCEPT !.ver = ver[Self]]
<1>3. k \in DOMAIN table /\ table[k] \in Row
  BY <1>1, <1>2, ElementOfSeq DEF RowsOf
<1>4. r.mac = table[k].mac /\ r.addr = table[k].addr
  BY <1>3 DEF Row
<1>5. table' = [table EXCEPT ![k] = r]
  BY <1>2
<1> HIDE DEF r
<1>6. /\ DOMAIN table' = DOMAIN table
      /\ \A i \in DOMAIN table : table'[i].mac = table[i].mac /\ table'[i].addr = table[i].addr
  BY <1>1, <1>3, <1>4, <1>5
<1> QED
  BY <1>1, <1>6 DEF Unmoved, ListedOnce, ListedAtHome

LEMMA NextUnmoved == IInv /\ Unmoved /\ [Next]_vars => Unmoved'
<1> SUFFICES ASSUME IInv, Unmoved, [Next]_vars, ~moved' PROVE Unmoved'
  BY DEF Unmoved
<1>1. ASSUME NEW h \in net, NEW again \in BOOLEAN, parse_data_heartbeat(h, again)
      PROVE  Unmoved'
  <2>1. ~moved /\ addr' = addr /\ net' \subseteq net
    BY <1>1 DEF parse_data_heartbeat
  <2>2. ListedOnce' /\ ListedAtHome'
    BY <1>1, <2>1, HeartbeatUnmoved
  <2> QED
    BY <2>1, <2>2 DEF Unmoved, AddressesDistinct, DatagramsCurrent
<1>2. CASE update_wtsl_node_basicinfo
  <2>1. ~moved /\ addr' = addr /\ net' = net
    BY <1>2 DEF update_wtsl_node_basicinfo
  <2>2. ListedOnce' /\ ListedAtHome'
    BY <1>2, <2>1, WatcherUnmoved
  <2> QED
    BY <2>1, <2>2 DEF Unmoved, AddressesDistinct, DatagramsCurrent
<1>3. ASSUME UNCHANGED <<table, addr, moved>>, \A h \in net' : h \in net \/ h.from = addr[h.mac]
      PROVE  Unmoved'
  BY <1>3 DEF Unmoved, AddressesDistinct, DatagramsCurrent, ListedOnce, ListedAtHome
<1>4. ASSUME NEW p \in Peer, send_heartbeat_req(p)
      PROVE  Unmoved'
  BY <1>3, <1>4 DEF send_heartbeat_req
<1>5. CASE \/ \E n \in Node : InfoChange(n)
           \/ \E h \in net : Lose(h)
           \/ UNCHANGED vars
  BY <1>3, <1>5 DEF InfoChange, Lose, vars
<1>6. ASSUME NEW p \in Peer, NEW a \in Addr, AddressChange(p, a)
      PROVE  FALSE
  BY <1>6 DEF AddressChange
<1> QED
  BY <1>1, <1>2, <1>4, <1>5, <1>6 DEF Next

\* As long as no address changes a node has one row, at its address: a heartbeat finds
\* by address (update_heartbeat) the row that is_node_not_exist found by node.
THEOREM NodesListedOnce == Spec => []OneRowPerPeer
<1>1. IInv /\ Unmoved => OneRowPerPeer
  <2> SUFFICES ASSUME IInv, Unmoved, ~moved, NEW i \in DOMAIN table
               PROVE  /\ RowsOf(table[i].mac) = {i}
                      /\ table[i].mac \in Peer => table[i].addr = addr[table[i].mac]
    BY DEF OneRowPerPeer
  <2> QED
    BY DEF Unmoved, ListedOnce, ListedAtHome, RowsOf
<1> QED
  BY <1>1, Invariance, InitUnmoved, NextUnmoved, PTL DEF Spec
=============================================================================
