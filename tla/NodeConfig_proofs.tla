-------------------------- MODULE NodeConfig_proofs --------------------------
(***************************************************************************)
(* Whatever the requests are, and however a reboot or a crash interrupts   *)
(* them, the interface vap0 is up between requests unless a command has    *)
(* failed; and the variables keep their types.                             *)
(*                                                                         *)
(* First the functions of NodeApi, none of which is looked at as a         *)
(* sequence: each is put together from fragments, and a kind (Plain, Test, *)
(* Work, Rises, ...) says of a fragment what matters when another follows. *)
(* What comes out is that every function raises the interface after the    *)
(* last step that drops it, that no condition skips that, and that no      *)
(* request is refused after such a step (Good).  Then the invariant IInv:  *)
(* a thread that has dropped the interface still has that step ahead.      *)
(***************************************************************************)
EXTENDS NodeConfig, TLAPS

-----------------------------------------------------------------------------
(***************************************************************************)
(* The functions of NodeApi, and how they are put together.                *)
(***************************************************************************)
Setters == {"set_mac_address", "slb_set_channel", "slb_set_bw", "slb_set_tfc_bw",
            "slb_set_cc_start_pos", "slb_set_cell_id", "slb_set_essid",
            "slb_set_range_opt", "slb_set_mib_params", "slb_set_sec_auth_pwd",
            "slb_set_sec_exch_cap", "slb_set_tx_power", "slb_set_fisa_enable",
            "slb_set_acs_enable", "init_net_bridge", "slb_create_device",
            "set_acs_enable", "bss_chan_switch"}

\* Those that leave the interface as it is.
HotSetters == {"slb_set_sec_auth_pwd", "slb_set_sec_exch_cap", "slb_set_tx_power",
               "slb_set_fisa_enable", "slb_set_acs_enable", "init_net_bridge",
               "slb_create_device", "set_acs_enable", "bss_chan_switch"}

Getters == {"slb_get_channel", "slb_get_bw", "slb_get_tfc_bw", "slb_get_cc_start_pos",
            "slb_get_cell_id", "slb_get_acs_enable", "slb_get_range_opt",
            "slb_get_sec_exch_cap", "slb_get_mib_params", "slb_get_chip_temperature",
            "slb_get_sec_sec_cap", "slb_get_pps_switch", "slb_get_lce_mode",
            "get_wt_vap_interface_count", "slb_get_timestamp_cnt", "slb_get_wds_mode",
            "slb_get_real_power", "slb_fem_check", "slb_get_view_mcs_info",
            "slb_get_rssi_info"}

\* Values of parameters, among other things; and nothing else.
Valued(v)   == \A p \in DOMAIN v \cap Params : v[p] \in Int
Literals(v) == DOMAIN v \subseteq Params /\ \A p \in DOMAIN v : v[p] \in Int

\* Nothing is saved under the key that symbol_type is read from.
Saved == Key \ {"SYMBOL_TYPE"}

\* A step with the arguments its operation needs.
StepOK(s) ==
  /\ Literals(s.lits)
  /\ CASE s.op \in {"set", "must", "adopt"} -> s.arg \in Setters
       [] s.op = "get" -> s.arg \in Getters
       [] s.op = "query" -> \/ s.arg = "slb_get_channel" /\ s.name = <<"channel", "tmp_channel">>
                            \/ s.arg = "slb_get_bw" /\ s.name = <<"bw", "bw_now">>
       [] s.op = "assign" -> s.arg \in Params /\ s.name = "tmp_channel"
       [] s.op \in {"take", "copy", "clear"} -> s.arg \in Params
       [] s.op = "read" -> s.arg \in Key /\ s.name \in Params
       [] s.op = "save" -> s.arg \in Saved /\ s.name \in Params
       [] s.op = "ifconfig" -> s.arg \in BOOLEAN
       [] s.op = "if" -> s.name \in Nat
       [] OTHER -> TRUE

Drops(s) == \/ s.op \in {"set", "must", "adopt"} /\ s.arg \notin HotSetters
            \/ s.op = "ifconfig" /\ s.arg = FALSE

Raises(s) == s.op = "ifconfig" /\ s.arg = TRUE

Refuses(s) == s.op \in {"must", "remove", "parse", "joined", "null", "ask", "popen"}

\* What is said of a step where fragments of functions are put together.
Does(s) == {s.op} \cup (IF Drops(s) THEN {"drops"} ELSE {})
                  \cup (IF Refuses(s) THEN {"refuses"} ELSE {})

\* No step of P is of the kind c.
Without(c, P) == \A i \in 1 .. Len(P) : c \notin Does(P[i])

IsSeq(P) == \E S : P \in Seq(S)

\* A fragment of a function: its tests skip steps of its own, none of which
\* asks the driver for what is assigned later.
Fragment(P) ==
  /\ IsSeq(P)
  /\ \A i \in 1 .. Len(P) :
       /\ StepOK(P[i])
       /\ P[i].op = "if" =>
            /\ i + P[i].name <= Len(P)
            /\ \A k \in i + 1 .. i + P[i].name : P[k].op # "query"

\* The local variable tmp_channel gets a value.
Asks(P) == \E i \in 1 .. Len(P) : P[i].op = "query" /\ P[i].name[2] = "tmp_channel"

\* It has one where it is assigned.
Asked(P) ==
  \A i \in 1 .. Len(P) : P[i].op = "assign" =>
    \E k \in 1 .. i - 1 : P[k].op = "query" /\ P[k].name[2] = "tmp_channel"

\* From step k on the interface will be raised: no test skips that.
Ahead(P, k) ==
  \E i \in k .. Len(P) :
    /\ Raises(P[i])
    /\ \A t \in k .. i - 1 : P[t].op = "if" => t + P[t].name < i

\* It is raised after every step that drops it; it is raised at all.
Lifted(P) == \A k \in 1 .. Len(P) : Drops(P[k]) => Ahead(P, k + 1)
Lifts(P)  == Ahead(P, 1)

\* No request is refused at or after a step that drops the interface.
Early(P) ==
  \A i \in 1 .. Len(P) : Refuses(P[i]) => \A k \in 1 .. i : ~Drops(P[k])

\* R is P followed by Q.
InTwo(P, Q, R) ==
  /\ Len(P) \in Nat /\ Len(Q) \in Nat /\ Len(R) = Len(P) + Len(Q)
  /\ \A i \in 1 .. Len(P) : i \in 1 .. Len(R) /\ R[i] = P[i]
  /\ \A i \in 1 .. Len(Q) : Len(P) + i \in 1 .. Len(R) /\ R[Len(P) + i] = Q[i]
  /\ \A i \in 1 .. Len(R) :
          \/ i \in 1 .. Len(P) /\ R[i] = P[i]
          \/ i - Len(P) \in 1 .. Len(Q) /\ R[i] = Q[i - Len(P)]

\* A step of P \o Q is one of P or one of Q.
LEMMA Halves ==
  ASSUME NEW P, NEW Q, IsSeq(P), IsSeq(Q)
  PROVE  InTwo(P, Q, P \o Q) /\ IsSeq(P \o Q)
<1>1. PICK S : P \in Seq(S)
  BY DEF IsSeq
<1>2. PICK T : Q \in Seq(T)
  BY DEF IsSeq
<1>3. P \in Seq(S \cup T) /\ Q \in Seq(S \cup T)
  BY <1>1, <1>2
<1>4. /\ Len(P) \in Nat /\ Len(Q) \in Nat /\ Len(P \o Q) = Len(P) + Len(Q)
      /\ \A i \in 1 .. Len(P) : (P \o Q)[i] = P[i]
      /\ \A i \in Len(P) + 1 .. Len(P) + Len(Q) : (P \o Q)[i] = Q[i - Len(P)]
  BY <1>3
<1> DEFINE m == Len(P)
           n == Len(Q)
           R == P \o Q
<1>5. /\ m \in Nat /\ n \in Nat /\ Len(R) = m + n
      /\ \A i \in 1 .. m : R[i] = P[i]
      /\ \A i \in m + 1 .. m + n : R[i] = Q[i - m]
  BY <1>4
<1> HIDE DEF m, n, R
<1>6. ASSUME NEW i \in 1 .. n
      PROVE  m + i \in 1 .. Len(R) /\ R[m + i] = Q[i]
  <2>1. m + i \in m + 1 .. m + n /\ (m + i) - m = i
    BY <1>5
  <2> QED
    BY <2>1, <1>5
<1>7. \A i \in 1 .. Len(R) :
        \/ i \in 1 .. m /\ R[i] = P[i]
        \/ i - m \in 1 .. n /\ R[i] = Q[i - m]
  <2> TAKE i \in 1 .. Len(R)
  <2>1. i \in 1 .. m \/ (i \in m + 1 .. m + n /\ i - m \in 1 .. n)
    BY <1>5
  <2>2. CASE i \in 1 .. m
    <3>1. R[i] = P[i]
      BY <2>2, <1>5
    <3> QED
      BY <2>2, <3>1, Zenon
  <2>3. CASE i \in m + 1 .. m + n /\ i - m \in 1 .. n
    <3>1. R[i] = Q[i - m]
      BY <2>3, <1>5
    <3> QED
      BY <2>3, <3>1, Zenon
  <2> QED
    BY <2>1, <2>2, <2>3
<1>8. \A i \in 1 .. m : i \in 1 .. Len(R) /\ R[i] = P[i]
  BY <1>5
<1>9. IsSeq(R)
  BY <1>3 DEF R, IsSeq
<1> QED
  BY <1>5, <1>6, <1>7, <1>8, <1>9 DEF InTwo, m, n, R

\* Fragments put together.
LEMMA Joined ==
  \A P, Q : Fragment(P) /\ Fragment(Q) => Fragment(P \o Q)
<1> SUFFICES ASSUME NEW P, NEW Q, Fragment(P), Fragment(Q) PROVE Fragment(P \o Q)
  OBVIOUS
<1>4. IsSeq(P \o Q)
  BY Halves DEF Fragment
<1>5. /\ Len(P) \in Nat /\ Len(Q) \in Nat /\ Len(P \o Q) = Len(P) + Len(Q)
      /\ \A i \in 1 .. Len(P) : (P \o Q)[i] = P[i]
      /\ \A i \in Len(P) + 1 .. Len(P) + Len(Q) : (P \o Q)[i] = Q[i - Len(P)]
  BY Halves DEF Fragment, InTwo
<1>6. ASSUME NEW i \in 1 .. Len(P \o Q)
      PROVE  /\ StepOK((P \o Q)[i])
             /\ (P \o Q)[i].op = "if" =>
                  /\ i + (P \o Q)[i].name <= Len(P \o Q)
                  /\ \A k \in i + 1 .. i + (P \o Q)[i].name : (P \o Q)[k].op # "query"
  <2>1. CASE i \in 1 .. Len(P)
    <3>1. (P \o Q)[i] = P[i]
      BY <2>1, <1>5
    <3>2. ASSUME P[i].op = "if" 
          PROVE  /\ P[i].name \in Nat /\ i + P[i].name <= Len(P)
                 /\ \A k \in i + 1 .. i + P[i].name : P[k].op # "query" /\ k \in 1 .. Len(P)
      BY <2>1, <1>5, <3>2 DEF Fragment, StepOK
    <3> QED
      BY <3>1, <3>2, <2>1, <1>5 DEF Fragment
  <2>2. CASE i \in Len(P) + 1 .. Len(P) + Len(Q)
    <3> DEFINE j == i - Len(P)
    <3>0. j \in 1 .. Len(Q)
      BY <2>2, <1>5
    <3>1. (P \o Q)[i] = Q[j]
      BY <2>2, <1>5
    <3>2. ASSUME Q[j].op = "if" 
          PROVE  /\ Q[j].name \in Nat /\ j + Q[j].name <= Len(Q)
                 /\ \A k \in j + 1 .. j + Q[j].name : Q[k].op # "query"
      BY <3>0, <3>2 DEF Fragment, StepOK
    <3>3. ASSUME Q[j].op = "if", NEW k \in i + 1 .. i + Q[j].name
          PROVE  (P \o Q)[k].op # "query"
      <4>1. k - Len(P) \in j + 1 .. j + Q[j].name /\ k \in Len(P) + 1 .. Len(P) + Len(Q)
        BY <3>0, <3>2, <3>3, <1>5
      <4> QED
        BY <4>1, <3>2, <3>3, <1>5
    <3>4. StepOK(Q[j])
      BY <3>0 DEF Fragment
    <3>5. ASSUME Q[j].op = "if" 
          PROVE  i + Q[j].name <= Len(P \o Q)
      BY <3>0, <3>2, <3>5, <1>5
    <3> HIDE DEF j
    <3>6. StepOK((P \o Q)[i])
      BY <3>1, <3>4, Zenon
    <3>7. (P \o Q)[i].op = "if" =>
             /\ i + (P \o Q)[i].name <= Len(P \o Q)
             /\ \A k \in i + 1 .. i + (P \o Q)[i].name : (P \o Q)[k].op # "query"
      BY <3>1, <3>3, <3>5, Zenon
    <3> QED
      BY <3>6, <3>7, Zenon
  <2>3. i \in 1 .. Len(P) \/ i \in Len(P) + 1 .. Len(P) + Len(Q)
    BY <1>5
  <2> QED
    BY <2>1, <2>2, <2>3, Zenon
<1> QED
  BY <1>4, <1>6 DEF Fragment

\* What neither does, both together do not.
LEMMA JoinedWithout ==
  \A P, Q, c : Fragment(P) /\ Fragment(Q) /\ Without(c, P) /\ Without(c, Q)
                 => Without(c, P \o Q)
<1> SUFFICES ASSUME NEW P, NEW Q, NEW c, Fragment(P), Fragment(Q),
                    Without(c, P), Without(c, Q),
                    NEW i \in 1 .. Len(P \o Q)
             PROVE  c \notin Does((P \o Q)[i])
  BY DEF Without
<1>1. CASE i \in 1 .. Len(P)
  BY <1>1, Halves DEF Fragment, InTwo, Without
<1>2. CASE i \in Len(P) + 1 .. Len(P) + Len(Q)
  <2>1. i - Len(P) \in 1 .. Len(Q) /\ (P \o Q)[i] = Q[i - Len(P)]
    BY <1>2, Halves DEF Fragment, InTwo
  <2> QED
    BY <2>1 DEF Without
<1> QED
  BY <1>1, <1>2, Halves DEF Fragment, InTwo

\* What is assigned in either part has been asked for in it, or in the part before.
LEMMA JoinedAsks ==
  \A P, Q : Fragment(P) /\ Fragment(Q) =>
    /\ Asks(P) \/ Asks(Q) => Asks(P \o Q)
    /\ Without("assign", P) => Asked(P)
    /\ Asked(P) /\ Without("assign", Q) => Asked(P \o Q)
    /\ Asked(P) /\ Asked(Q) => Asked(P \o Q)
    /\ Asked(P) /\ Asks(P) => Asked(P \o Q)
<1> SUFFICES ASSUME NEW P, NEW Q, Fragment(P), Fragment(Q)
             PROVE  /\ Asks(P) \/ Asks(Q) => Asks(P \o Q)
                    /\ Without("assign", P) => Asked(P)
                    /\ Asked(P) /\ Without("assign", Q) => Asked(P \o Q)
                    /\ Asked(P) /\ Asked(Q) => Asked(P \o Q)
                    /\ Asked(P) /\ Asks(P) => Asked(P \o Q)
  OBVIOUS
<1> DEFINE m == Len(P)
           n == Len(Q)
           R == P \o Q
<1>0. InTwo(P, Q, R)
  BY Halves DEF Fragment
<1>1. /\ m \in Nat /\ n \in Nat /\ Len(R) = m + n
      /\ \A i \in 1 .. m : i \in 1 .. Len(R) /\ R[i] = P[i]
      /\ \A i \in 1 .. n : m + i \in 1 .. Len(R) /\ R[m + i] = Q[i]
      /\ \A i \in 1 .. Len(R) :
              \/ i \in 1 .. m /\ R[i] = P[i]
              \/ i - m \in 1 .. n /\ R[i] = Q[i - m]
  BY <1>0, Zenon DEF InTwo
<1> HIDE DEF R, m, n
<1>2. Asks(P) \/ Asks(Q) => Asks(R)
  <2>1. CASE Asks(P)
    BY <1>1, <2>1 DEF Asks, m
  <2>2. CASE Asks(Q)
    <3>1. PICK i \in 1 .. n : Q[i].op = "query" /\ Q[i].name[2] = "tmp_channel"
      BY <2>2 DEF Asks, n
    <3>2. m + i \in 1 .. Len(R) /\ R[m + i] = Q[i]
      BY <1>1
    <3> QED
      BY <3>1, <3>2 DEF Asks
  <2> QED
    BY <2>1, <2>2
<1>3. Without("assign", P) => Asked(P)
  BY DEF Without, Asked, Does
<1>4. ASSUME Asked(P), Asked(Q), NEW i \in 1 .. Len(R), R[i].op = "assign"
      PROVE  \E k \in 1 .. i - 1 : R[k].op = "query" /\ R[k].name[2] = "tmp_channel"
  <2>1. CASE i \in 1 .. m
    <3>1. PICK k \in 1 .. i - 1 : P[k].op = "query" /\ P[k].name[2] = "tmp_channel"
      BY <2>1, <1>1, <1>4 DEF Asked, m
    <3>2. R[k] = P[k]
      BY <2>1, <1>1, <3>1
    <3> QED
      BY <3>1, <3>2
  <2>2. CASE i - m \in 1 .. n /\ R[i] = Q[i - m]
    <3>1. PICK k \in 1 .. i - m - 1 : Q[k].op = "query" /\ Q[k].name[2] = "tmp_channel"
      BY <2>2, <1>1, <1>4 DEF Asked, n
    <3>2. i \in Int /\ k \in 1 .. n
      BY <2>2, <1>1, <3>1
    <3>3. m + k \in 1 .. i - 1
      BY <1>1, <3>1, <3>2
    <3>4. R[m + k] = Q[k]
      BY <1>1, <3>2
    <3> QED
      BY <3>1, <3>3, <3>4
  <2> QED
    BY <2>1, <2>2, <1>1
<1>5. Asked(P) /\ Asked(Q) => Asked(R)
  BY <1>4 DEF Asked
<1>6. Without("assign", Q) => Asked(Q)
  BY DEF Without, Asked, Does
<1>7. ASSUME Asked(P), Asks(P), NEW i \in 1 .. Len(R), R[i].op = "assign"
      PROVE  \E k \in 1 .. i - 1 : R[k].op = "query" /\ R[k].name[2] = "tmp_channel"
  <2>1. CASE i \in 1 .. m
    <3>1. PICK k \in 1 .. i - 1 : P[k].op = "query" /\ P[k].name[2] = "tmp_channel"
      BY <2>1, <1>1, <1>7 DEF Asked, m
    <3>2. R[k] = P[k]
      BY <2>1, <1>1, <3>1
    <3> QED
      BY <3>1, <3>2
  <2>2. CASE i - m \in 1 .. n /\ R[i] = Q[i - m]
    <3>1. PICK k \in 1 .. m : P[k].op = "query" /\ P[k].name[2] = "tmp_channel"
      BY <1>7 DEF Asks, m
    <3>2. k \in 1 .. i - 1 /\ R[k] = P[k]
      BY <2>2, <1>1, <3>1
    <3> QED
      BY <3>1, <3>2
  <2> QED
    BY <2>1, <2>2, <1>1
<1>8. Asked(P) /\ Asks(P) => Asked(R)
  BY <1>7 DEF Asked
<1> QED
  BY <1>2, <1>3, <1>5, <1>6, <1>8 DEF R

\* Whether the interface will be raised is not changed by what is put in front or
\* behind.
LEMMA JoinedAhead ==
  ASSUME NEW P, NEW Q, Fragment(P), Fragment(Q)
  PROVE  /\ \A k \in 1 .. Len(P) + 1 : Ahead(P, k) => Ahead(P \o Q, k)
         /\ \A k \in 1 .. Len(P) + 1 : Lifts(Q) => Ahead(P \o Q, k)
         /\ \A k \in 1 .. Len(Q) + 1 : Ahead(Q, k) => Ahead(P \o Q, Len(P) + k)
<1> DEFINE m == Len(P)
           n == Len(Q)
           R == P \o Q
<1>0. InTwo(P, Q, R)
  BY Halves DEF Fragment
<1>1. /\ m \in Nat /\ n \in Nat /\ Len(R) = m + n
      /\ \A i \in 1 .. m : i \in 1 .. Len(R) /\ R[i] = P[i]
      /\ \A i \in 1 .. n : m + i \in 1 .. Len(R) /\ R[m + i] = Q[i]
      /\ \A i \in 1 .. Len(R) :
            \/ i \in 1 .. m /\ R[i] = P[i]
            \/ i - m \in 1 .. n /\ R[i] = Q[i - m]
  BY <1>0, Zenon DEF InTwo
<1>2. \A t \in 1 .. m : P[t].op = "if" => t + P[t].name <= m
  BY DEF Fragment
<1>3. \A t \in 1 .. n : Q[t].op = "if" => Q[t].name \in Nat
  BY DEF Fragment, StepOK
<1>p. \A t \in 1 .. m : P[t].op = "if" => P[t].name \in Nat
  BY DEF Fragment, StepOK
<1> HIDE DEF R, m, n
<1>4. ASSUME NEW k \in 1 .. m + 1, Ahead(P, k)
      PROVE  Ahead(R, k)
  <2>1. PICK i \in k .. m : /\ Raises(P[i])
                            /\ \A t \in k .. i - 1 : P[t].op = "if" => t + P[t].name < i
    BY <1>4 DEF Ahead, m
  <2>2. i \in k .. Len(R) /\ R[i] = P[i]
    BY <1>1
  <2>3. \A t \in k .. i - 1 : R[t] = P[t]
    BY <1>1
  <2> QED
    BY <2>1, <2>2, <2>3 DEF Ahead
<1>5. ASSUME NEW j \in 1 .. n + 1, NEW k \in 1 .. m + j, j > 1 => k = m + j, Ahead(Q, j)
      PROVE  Ahead(R, k)
  <2>1. PICK i \in j .. n : /\ Raises(Q[i])
                            /\ \A t \in j .. i - 1 : Q[t].op = "if" => t + Q[t].name < i
    BY <1>5 DEF Ahead, n
  <2>2. m + i \in k .. Len(R) /\ R[m + i] = Q[i]
    BY <1>1, <1>5
  <2>3. ASSUME NEW t \in k .. (m + i) - 1, R[t].op = "if"
        PROVE  t + R[t].name < m + i
    <3>1. CASE t \in 1 .. m
      BY <3>1, <2>3, <1>1, <1>2, <1>p
    <3>2. CASE t \in m + 1 .. m + n
      <4>1. t - m \in j .. i - 1 /\ t - m \in 1 .. n
        BY <3>2, <2>3, <1>1, <1>5
      <4>2. R[t] = Q[t - m]
        <5>1. m + (t - m) = t
          BY <3>2, <1>1
        <5>2. R[m + (t - m)] = Q[t - m]
          BY <4>1, <1>1, Zenon
        <5> QED
          BY <5>1, <5>2
      <4> QED
        BY <4>1, <4>2, <2>1, <2>3, <1>1, <1>3
    <3> QED
      BY <3>1, <3>2, <1>1, <1>5
  <2> QED
    BY <2>1, <2>2, <2>3 DEF Ahead
<1>6. \A k \in 1 .. m + 1 : Lifts(Q) => Ahead(R, k)
  BY <1>1, <1>5 DEF Lifts
<1>7. \A k \in 1 .. n + 1 : Ahead(Q, k) => Ahead(R, m + k)
  BY <1>1, <1>5
<1> QED
  BY <1>4, <1>6, <1>7 DEF R, m, n

\* A function that drops the interface raises it again where its last part does.
LEMMA JoinedLifted ==
  \A P, Q : Fragment(P) /\ Fragment(Q) =>
    /\ Without("drops", P) => Lifted(P)
    /\ Lifted(P) /\ Lifted(Q) => Lifted(P \o Q)
    /\ Lifts(Q) /\ Lifted(Q) => Lifted(P \o Q) /\ Lifts(P \o Q)
    /\ Lifts(P) => Lifts(P \o Q)
<1> SUFFICES ASSUME NEW P, NEW Q, Fragment(P), Fragment(Q)
             PROVE  /\ Without("drops", P) => Lifted(P)
                    /\ Lifted(P) /\ Lifted(Q) => Lifted(P \o Q)
                    /\ Lifts(Q) /\ Lifted(Q) => Lifted(P \o Q) /\ Lifts(P \o Q)
                    /\ Lifts(P) => Lifts(P \o Q)
  OBVIOUS
<1> DEFINE m == Len(P)
           n == Len(Q)
           R == P \o Q
<1>0. InTwo(P, Q, R)
  BY Halves DEF Fragment
<1>1. /\ m \in Nat /\ n \in Nat /\ Len(R) = m + n
      /\ \A i \in 1 .. Len(R) :
            \/ i \in 1 .. m /\ R[i] = P[i]
            \/ i - m \in 1 .. n /\ R[i] = Q[i - m]
  BY <1>0, Zenon DEF InTwo
<1>2. /\ \A k \in 1 .. m + 1 : Ahead(P, k) => Ahead(R, k)
      /\ \A k \in 1 .. m + 1 : Lifts(Q) => Ahead(R, k)
      /\ \A k \in 1 .. n + 1 : Ahead(Q, k) => Ahead(R, m + k)
  BY JoinedAhead
<1>3. Without("drops", P) => Lifted(P)
  BY DEF Without, Lifted, Does
<1> HIDE DEF R, m, n
<1>4. ASSUME Lifted(Q), NEW i \in 1 .. Len(R), Drops(R[i]), i - m \in 1 .. n, R[i] = Q[i - m]
      PROVE  Ahead(R, i + 1)
  <2>1. Ahead(Q, (i - m) + 1)
    BY <1>4 DEF Lifted, n
  <2>2. (i - m) + 1 \in 1 .. n + 1 /\ m + ((i - m) + 1) = i + 1
    BY <1>1, <1>4
  <2> QED
    BY <2>1, <2>2, <1>2
<1>5. ASSUME Lifted(P), Lifted(Q), NEW i \in 1 .. Len(R), Drops(R[i])
      PROVE  Ahead(R, i + 1)
  <2>1. CASE i \in 1 .. m /\ R[i] = P[i]
    <3>1. Ahead(P, i + 1)
      BY <2>1, <1>5 DEF Lifted, m
    <3> QED
      BY <3>1, <2>1, <1>1, <1>2
  <2> QED
    BY <2>1, <1>1, <1>4, <1>5
<1>6. ASSUME Lifts(Q), Lifted(Q), NEW i \in 1 .. Len(R), Drops(R[i])
      PROVE  Ahead(R, i + 1)
  <2>1. CASE i \in 1 .. m
    BY <2>1, <1>1, <1>2, <1>6
  <2> QED
    BY <2>1, <1>1, <1>4, <1>6
<1>7. Lifts(P) \/ Lifts(Q) => Lifts(R)
  BY <1>1, <1>2 DEF Lifts
<1>8. (Lifted(P) /\ Lifted(Q) => Lifted(R)) /\ (Lifts(Q) /\ Lifted(Q) => Lifted(R))
  BY <1>5, <1>6 DEF Lifted
<1> QED
  BY <1>3, <1>7, <1>8 DEF R

\* Nothing is refused after the interface was dropped.
LEMMA JoinedEarly ==
  \A P, Q : Fragment(P) /\ Fragment(Q) =>
    /\ Without("refuses", P) \/ Without("drops", P) => Early(P)
    /\ Early(P) /\ Without("refuses", Q) => Early(P \o Q)
    /\ Without("drops", P) /\ Early(Q) => Early(P \o Q)
<1> SUFFICES ASSUME NEW P, NEW Q, Fragment(P), Fragment(Q)
             PROVE  /\ Without("refuses", P) \/ Without("drops", P) => Early(P)
                    /\ Early(P) /\ Without("refuses", Q) => Early(P \o Q)
                    /\ Without("drops", P) /\ Early(Q) => Early(P \o Q)
  OBVIOUS
<1> DEFINE m == Len(P)
           n == Len(Q)
           R == P \o Q
<1>0. InTwo(P, Q, R)
  BY Halves DEF Fragment
<1>1. /\ m \in Nat /\ n \in Nat /\ Len(R) = m + n
      /\ \A i \in 1 .. m : i \in 1 .. Len(R) /\ R[i] = P[i]
      /\ \A i \in 1 .. Len(R) :
            \/ i \in 1 .. m /\ R[i] = P[i]
            \/ i - m \in 1 .. n /\ R[i] = Q[i - m]
  BY <1>0, Zenon DEF InTwo
<1>2. Len(P) \in Nat
  BY <1>1
<1>3. Without("refuses", P) \/ Without("drops", P) => Early(P)
  <2>1. ASSUME Without("drops", P), NEW i \in 1 .. Len(P), NEW k \in 1 .. i
        PROVE  ~Drops(P[k])
    <3>1. k \in 1 .. Len(P)
      BY <1>2
    <3> QED
      BY <2>1, <3>1 DEF Without, Does
  <2>2. ASSUME Without("refuses", P), NEW i \in 1 .. Len(P)
        PROVE  ~Refuses(P[i])
    BY <2>2 DEF Without, Does
  <2> QED
    BY <2>1, <2>2 DEF Early
<1> HIDE DEF R, m, n
<1>4. ASSUME Early(P), Without("refuses", Q), NEW i \in 1 .. Len(R), Refuses(R[i]),
             NEW k \in 1 .. i
      PROVE  ~Drops(R[k])
  <2>1. CASE i \in 1 .. m /\ R[i] = P[i]
    <3>1. k \in 1 .. m
      BY <2>1, <1>1
    <3> QED
      BY <2>1, <3>1, <1>1, <1>4 DEF Early, m
  <2>2. CASE i - m \in 1 .. n /\ R[i] = Q[i - m]
    BY <2>2, <1>4 DEF Without, Does, n
  <2> QED
    BY <2>1, <2>2, <1>1
<1>5. ASSUME Without("drops", P), Early(Q), NEW i \in 1 .. Len(R), Refuses(R[i]),
             NEW k \in 1 .. i
      PROVE  ~Drops(R[k])
  <2>0. k \in 1 .. Len(R)
    BY <1>1
  <2>1. CASE k \in 1 .. m /\ R[k] = P[k]
    BY <2>1, <1>5 DEF Without, Does, m
  <2>2. CASE k - m \in 1 .. n /\ R[k] = Q[k - m]
    <3>1. i - m \in 1 .. n /\ R[i] = Q[i - m]
      BY <2>2, <1>1
    <3>2. k - m \in 1 .. (i - m)
      BY <2>2, <3>1, <1>1
    <3> QED
      BY <2>2, <3>1, <3>2, <1>5 DEF Early, n
  <2> QED
    BY <2>0, <2>1, <2>2, <1>1
<1>6. /\ Early(P) /\ Without("refuses", Q) => Early(R)
      /\ Without("drops", P) /\ Early(Q) => Early(R)
  BY <1>4, <1>5 DEF Early
<1> QED
  BY <1>3, <1>6 DEF R

-----------------------------------------------------------------------------
(***************************************************************************)
(* Kinds of fragments                                                      *)
(***************************************************************************)
\* Neither asks the driver for a local variable nor assigns one, drops nothing,
\* refuses nothing; may refuse; may drop; may drop and ask; may assign.
Plain(P) == /\ Fragment(P) /\ Without("query", P) /\ Without("assign", P)
            /\ Without("drops", P) /\ Without("refuses", P)
Test(P)  == /\ Fragment(P) /\ Without("query", P) /\ Without("assign", P)
            /\ Without("drops", P)
Work(P)  == /\ Fragment(P) /\ Without("query", P) /\ Without("assign", P)
            /\ Without("refuses", P)
Body(P)  == Fragment(P) /\ Without("assign", P) /\ Without("refuses", P)
Note(P)  == Fragment(P) /\ Without("query", P) /\ Without("drops", P)

\* Raises the interface where it drops it; and in every case.
Rises(P) == Body(P) /\ Lifted(P)
Boots(P) == Rises(P) /\ Lifts(P)

\* Leaves the interface alone; and knows the driver's channel.
Still(P)  == Fragment(P) /\ Without("drops", P) /\ Asked(P)
Learns(P) == Still(P) /\ Asks(P)

\* A function of which nothing bad can be said.
Good(P) == Fragment(P) /\ Asked(P) /\ Lifted(P) /\ Early(P)

\* The kinds include one another.
LEMMA Kinds ==
  \A P :
        /\ Plain(P) => Test(P) /\ Work(P) /\ Note(P) /\ Rises(P)
        /\ Work(P) => Body(P)
        /\ Boots(P) => Rises(P)
        /\ Rises(P) => Good(P) /\ Body(P)
        /\ Test(P) => Still(P)
        /\ Still(P) => Good(P)
        /\ Learns(P) => Still(P)
<1> SUFFICES ASSUME NEW P
             PROVE  /\ Plain(P) => Test(P) /\ Work(P) /\ Note(P) /\ Rises(P)
                    /\ Work(P) => Body(P)
                    /\ Boots(P) => Rises(P)
                    /\ Rises(P) => Good(P) /\ Body(P)
                    /\ Test(P) => Still(P)
                    /\ Still(P) => Good(P)
                    /\ Learns(P) => Still(P)
  OBVIOUS
<1>1. Fragment(P) /\ Without("drops", P) => Lifted(P)
  BY JoinedLifted
<1>2. Fragment(P) /\ Without("assign", P) => Asked(P)
  BY JoinedAsks
<1>3. Fragment(P) /\ (Without("refuses", P) \/ Without("drops", P)) => Early(P)
  BY JoinedEarly
<1> QED
  BY <1>1, <1>2, <1>3, Zenon DEF Plain, Test, Work, Body, Note, Rises, Boots, Still, Learns, Good

\* What becomes of kinds put together.
LEMMA KindsJoined ==
  \A P, Q :
    /\ Plain(P) /\ Plain(Q) => Plain(P \o Q)
    /\ Test(P) /\ Test(Q) => Test(P \o Q)
    /\ Work(P) /\ Work(Q) => Work(P \o Q)
    /\ Body(P) /\ Body(Q) => Body(P \o Q)
    /\ Note(P) /\ Note(Q) => Note(P \o Q)
    /\ Rises(P) /\ Rises(Q) => Rises(P \o Q)
    /\ Body(P) /\ Boots(Q) => Boots(P \o Q)
    /\ Boots(P) /\ Rises(Q) => Boots(P \o Q)
    /\ Still(P) /\ Still(Q) => Still(P \o Q)
    /\ Still(P) /\ Learns(Q) => Learns(P \o Q)
    /\ Learns(P) /\ Note(Q) => Still(P \o Q)
    /\ Good(P) /\ Rises(Q) => Good(P \o Q)
<1> SUFFICES ASSUME NEW P, NEW Q
             PROVE  /\ Plain(P) /\ Plain(Q) => Plain(P \o Q)
                    /\ Test(P) /\ Test(Q) => Test(P \o Q)
                    /\ Work(P) /\ Work(Q) => Work(P \o Q)
                    /\ Body(P) /\ Body(Q) => Body(P \o Q)
                    /\ Note(P) /\ Note(Q) => Note(P \o Q)
                    /\ Rises(P) /\ Rises(Q) => Rises(P \o Q)
                    /\ Body(P) /\ Boots(Q) => Boots(P \o Q)
                    /\ Boots(P) /\ Rises(Q) => Boots(P \o Q)
                    /\ Still(P) /\ Still(Q) => Still(P \o Q)
                    /\ Still(P) /\ Learns(Q) => Learns(P \o Q)
                    /\ Learns(P) /\ Note(Q) => Still(P \o Q)
                    /\ Good(P) /\ Rises(Q) => Good(P \o Q)
  OBVIOUS
<1> DEFINE R == P \o Q
<1>1. Fragment(P) /\ Fragment(Q) => Fragment(R)
  BY Joined
<1>2. ASSUME Fragment(P), Fragment(Q), NEW c, Without(c, P), Without(c, Q)
      PROVE  Without(c, R)
  BY <1>2, JoinedWithout
<1>3. Fragment(P) /\ Fragment(Q) =>
        /\ Asks(P) \/ Asks(Q) => Asks(R)
        /\ Asked(P) /\ Without("assign", Q) => Asked(R)
        /\ Asked(P) /\ Asked(Q) => Asked(R)
        /\ Asked(P) /\ Asks(P) => Asked(R)
  BY JoinedAsks
<1>4. Fragment(P) /\ Fragment(Q) =>
        /\ Lifted(P) /\ Lifted(Q) => Lifted(R)
        /\ Lifts(Q) /\ Lifted(Q) => Lifted(R) /\ Lifts(R)
        /\ Lifts(P) => Lifts(R)
  BY JoinedLifted
<1>5. Fragment(P) /\ Fragment(Q) => (Early(P) /\ Without("refuses", Q) => Early(R))
  BY JoinedEarly
<1> HIDE DEF R
<1>6. /\ Plain(P) /\ Plain(Q) => Plain(R)
      /\ Test(P) /\ Test(Q) => Test(R)
      /\ Work(P) /\ Work(Q) => Work(R)
      /\ Body(P) /\ Body(Q) => Body(R)
      /\ Note(P) /\ Note(Q) => Note(R)
  BY <1>1, <1>2 DEF Plain, Test, Work, Body, Note
<1>7. /\ Rises(P) /\ Rises(Q) => Rises(R)
      /\ Body(P) /\ Boots(Q) => Boots(R)
      /\ Boots(P) /\ Rises(Q) => Boots(R)
  BY <1>4, <1>6 DEF Rises, Boots, Body
<1>8. /\ Still(P) /\ Still(Q) => Still(R)
      /\ Still(P) /\ Learns(Q) => Learns(R)
      /\ Learns(P) /\ Note(Q) => Still(R)
  BY <1>1, <1>2, <1>3 DEF Still, Learns, Note
<1>9. Good(P) /\ Rises(Q) => Good(R)
  BY <1>1, <1>3, <1>4, <1>5 DEF Good, Rises, Body
<1> QED
  BY <1>6, <1>7, <1>8, <1>9 DEF R

\* A single step.
LEMMA Single ==
  ASSUME NEW s, StepOK(s), s.op # "if"
  PROVE  /\ Fragment(<<s>>)
         /\ \A c : c \notin Does(s) => Without(c, <<s>>)
<1>1. <<s>> \in Seq({s}) /\ Len(<<s>>) = 1 /\ <<s>>[1] = s
  OBVIOUS
<1>2. \A i \in 1 .. Len(<<s>>) : i = 1
  BY <1>1
<1> HIDE DEF StepOK
<1> QED
  BY <1>1, <1>2 DEF Fragment, IsSeq, Without

\* A step without literals gives no parameter a value.
LEMMA NoLits == Literals(<<>>) /\ Valued(<<>>)
<1>1. DOMAIN <<>> = {}
  OBVIOUS
<1> QED
  BY <1>1 DEF Literals, Valued

\* A test and the steps it may skip.
LEMMA Guarded ==
  ASSUME NEW g, NEW P, Fragment(P), Without("query", P)
  PROVE  /\ Fragment(If(g, P))
         /\ \A c : c # "if" /\ Without(c, P) => Without(c, If(g, P))
<1> DEFINE s == [op |-> "if", arg |-> g, name |-> Len(P), lits |-> <<>>]
           R == <<s>> \o P
           m == Len(P)
<1>1. <<s>> \in Seq({s}) /\ Len(<<s>>) = 1 /\ <<s>>[1] = s
  OBVIOUS
<1>2. InTwo(<<s>>, P, R) /\ IsSeq(R)
  BY <1>1, Halves DEF Fragment, IsSeq
<1>3. /\ m \in Nat /\ Len(R) = 1 + m
      /\ R[1] = s
      /\ \A i \in 1 .. m : R[1 + i] = P[i]
  BY <1>1, <1>2 DEF InTwo
<1>4. /\ s.op = "if" /\ s.name = m /\ s.lits = <<>>
      /\ Does(s) = {"if"}
  BY DEF Does, Drops, Refuses
<1>5. StepOK(s)
  BY <1>3, <1>4, NoLits DEF StepOK
<1>6. R = If(g, P)
  BY DEF If
<1> HIDE DEF s, R, m
<1>7. \A i \in 1 .. Len(R) : i = 1 \/ (i - 1 \in 1 .. m /\ R[i] = P[i - 1])
  <2> TAKE i \in 1 .. Len(R)
  <2>1. i = 1 \/ (i - 1 \in 1 .. m /\ 1 + (i - 1) = i)
    BY <1>3
  <2> QED
    BY <2>1, <1>3
<1>8. ASSUME NEW i \in 1 .. Len(R)
      PROVE  /\ StepOK(R[i])
             /\ R[i].op = "if" =>
                  /\ i + R[i].name <= Len(R)
                  /\ \A k \in i + 1 .. i + R[i].name : R[k].op # "query"
  <2>1. CASE i = 1
    <3>1. \A k \in 2 .. 1 + m : R[k].op # "query"
      <4> TAKE k \in 2 .. 1 + m
      <4>1. k - 1 \in 1 .. m /\ R[k] = P[k - 1]
        BY <1>3, <1>7
      <4> QED
        BY <4>1 DEF Without, Does, m
    <3> QED
      BY <2>1, <3>1, <1>3, <1>4, <1>5
  <2>2. CASE i - 1 \in 1 .. m /\ R[i] = P[i - 1]
    <3> DEFINE j == i - 1
    <3>1. /\ StepOK(P[j])
          /\ P[j].op = "if" =>
               /\ P[j].name \in Nat /\ j + P[j].name <= m
               /\ \A k \in j + 1 .. j + P[j].name : P[k].op # "query"
      BY <2>2 DEF Fragment, StepOK, m
    <3>2. ASSUME P[j].op = "if", NEW k \in i + 1 .. i + P[j].name
          PROVE  R[k].op # "query"
      <4>1. k - 1 \in j + 1 .. j + P[j].name /\ k - 1 \in 1 .. m /\ R[k] = P[k - 1]
        BY <3>1, <3>2, <2>2, <1>3, <1>7
      <4> QED
        BY <4>1, <3>1, <3>2
    <3>3. P[j].op = "if" => i + P[j].name <= Len(R)
      BY <3>1, <2>2, <1>3
    <3> QED
      BY <3>1, <3>2, <3>3, <2>2
  <2> QED
    BY <2>1, <2>2, <1>7
<1>9. ASSUME NEW c, c # "if", Without(c, P), NEW i \in 1 .. Len(R)
      PROVE  c \notin Does(R[i])
  <2>1. CASE i = 1
    BY <2>1, <1>3, <1>4, <1>9
  <2>2. CASE i - 1 \in 1 .. m /\ R[i] = P[i - 1]
    BY <2>2, <1>9 DEF Without, m
  <2> QED
    BY <2>1, <2>2, <1>7
<1>10. Fragment(R)
  BY <1>2, <1>8 DEF Fragment
<1>11. \A c : c # "if" /\ Without(c, P) => Without(c, R)
  BY <1>9 DEF Without
<1> QED
  BY <1>6, <1>10, <1>11

\* Kinds of fragments that a test may skip.
LEMMA KindsGuarded ==
  \A g, P :
           /\ Plain(P) => Plain(If(g, P))
           /\ Test(P) => Test(If(g, P))
           /\ Work(P) => Work(If(g, P))
           /\ Note(P) => Note(If(g, P))
<1> TAKE g, P
<1>1. ASSUME Fragment(P), Without("query", P)
      PROVE  /\ Fragment(If(g, P))
             /\ \A c : c # "if" /\ Without(c, P) => Without(c, If(g, P))
  BY <1>1, Guarded
<1>2. /\ "query" # "if" /\ "assign" # "if" /\ "drops" # "if" /\ "refuses" # "if"
  OBVIOUS
<1> QED
  BY <1>1, <1>2, Zenon DEF Plain, Test, Work, Note

-----------------------------------------------------------------------------
(***************************************************************************)
(* The steps of NodeApi                                                    *)
(***************************************************************************)
\* Accesses to memory and to the file, and commands, do nothing to the interface.
LEMMA PlainSteps ==
  /\ \A p \in Params : Plain(Take(p)) /\ Plain(Copy(p)) /\ Plain(Op("clear", p))
  /\ \A k \in Key : \A p \in Params : Plain(Read(k, p))
  /\ \A k \in Saved : \A p \in Params : Plain(Save(k, p))
  /\ \A w \in Getters : Plain(Get(w))
  /\ \A w \in HotSetters : Plain(Set(w))
  /\ \A c : Plain(Show(c)) /\ Plain(Tell(c))
  /\ Plain(Lock) /\ Plain(Unlock) /\ Plain(Row) /\ Plain(Reboot) /\ Plain(Op("join", ""))
  /\ \A lits : Literals(lits) => Plain(Default(lits))
<1>1. ASSUME NEW s, StepOK(s), s.op \notin {"if", "query", "assign", "drops", "refuses"},
             ~Drops(s), ~Refuses(s)
      PROVE  Plain(<<s>>)
  <2>1. "query" \notin Does(s) /\ "assign" \notin Does(s) /\ "drops" \notin Does(s)
        /\ "refuses" \notin Does(s)
    BY <1>1 DEF Does, Refuses
  <2> QED
    BY <1>1, <2>1, Single DEF Plain
<1>2. ASSUME NEW p \in Params
      PROVE  Plain(Take(p)) /\ Plain(Copy(p)) /\ Plain(Op("clear", p))
  BY <1>1, NoLits DEF StepOK, Drops, Refuses, Take, Copy, Op
<1>3. ASSUME NEW k \in Key, NEW p \in Params
      PROVE  Plain(Read(k, p)) /\ (k \in Saved => Plain(Save(k, p)))
  BY <1>1, NoLits DEF StepOK, Drops, Refuses, Save, Read
<1>4. ASSUME NEW w \in Getters PROVE Plain(Get(w))
  BY <1>1, NoLits DEF StepOK, Drops, Refuses, Get, Op
<1>5. ASSUME NEW w \in HotSetters PROVE Plain(Set(w))
  BY <1>1, NoLits DEF StepOK, Drops, Refuses, Set, Op, HotSetters, Setters
<1>6. ASSUME NEW c PROVE Plain(Show(c)) /\ Plain(Tell(c))
  BY <1>1, NoLits DEF StepOK, Drops, Refuses, Show, Tell, Op
<1>7. Plain(Lock) /\ Plain(Unlock) /\ Plain(Row) /\ Plain(Reboot) /\ Plain(Op("join", ""))
  BY <1>1, NoLits DEF StepOK, Drops, Refuses, Lock, Unlock, Row, Reboot, Op
<1>8. ASSUME NEW lits, Literals(lits) PROVE Plain(Default(lits))
  BY <1>1, <1>8 DEF StepOK, Drops, Refuses, Default
<1>9. Saved \subseteq Key
  BY DEF Saved
<1> QED
  BY <1>2, <1>3, <1>4, <1>5, <1>6, <1>7, <1>8, <1>9

\* What may end a request.
LEMMA TestSteps ==
  /\ Test(Parse) /\ Test(Popen) /\ Test(Null)
  /\ Test(Op("joined", "")) /\ Test(Op("remove", ""))
  /\ \A c : Test(Ask(c))
  /\ \A w \in HotSetters : Test(MustSet(w))
<1>1. ASSUME NEW s, StepOK(s), s.op \notin {"if", "query", "assign", "drops", "refuses"},
             ~Drops(s)
      PROVE  Test(<<s>>)
  <2>1. "query" \notin Does(s) /\ "assign" \notin Does(s) /\ "drops" \notin Does(s)
    BY <1>1 DEF Does
  <2> QED
    BY <1>1, <2>1, Single DEF Test
<1>2. Test(Parse) /\ Test(Popen) /\ Test(Null) /\ Test(Op("joined", "")) /\ Test(Op("remove", ""))
  BY <1>1, NoLits DEF StepOK, Drops, Parse, Popen, Null, Op
<1>3. ASSUME NEW c PROVE Test(Ask(c))
  BY <1>1, NoLits DEF StepOK, Drops, Ask, Op
<1>4. ASSUME NEW w \in HotSetters PROVE Test(MustSet(w))
  BY <1>1, NoLits DEF StepOK, Drops, MustSet, Op, HotSetters, Setters
<1> QED
  BY <1>2, <1>3, <1>4

\* The other setters drop the interface, and so do modes; slb_ifconfig raises it.
LEMMA WorkSteps ==
  /\ Work(Down) /\ Boots(Up) /\ Plain(Up)
  /\ \A w \in Setters : Work(Set(w))
  /\ \A w \in Setters : \A lits : Literals(lits) => Work(SetTo(w, lits)) /\ Work(Adopt(w, lits))
<1>1. ASSUME NEW s, StepOK(s), s.op \notin {"if", "query", "assign", "drops", "refuses"},
             ~Refuses(s)
      PROVE  /\ Work(<<s>>)
             /\ ~Drops(s) => Plain(<<s>>)
  <2>1. "query" \notin Does(s) /\ "assign" \notin Does(s) /\ "refuses" \notin Does(s)
        /\ (~Drops(s) => "drops" \notin Does(s))
    BY <1>1 DEF Does
  <2> QED
    BY <1>1, <2>1, Single DEF Work, Plain
<1>2. Work(Down) /\ Plain(Up)
  BY <1>1, NoLits DEF StepOK, Drops, Refuses, Down, Up, Op
<1>3. ASSUME NEW w \in Setters PROVE Work(Set(w))
  BY <1>1, NoLits DEF StepOK, Refuses, Set, Op
<1>4. ASSUME NEW w \in Setters, NEW lits, Literals(lits)
      PROVE  Work(SetTo(w, lits)) /\ Work(Adopt(w, lits))
  BY <1>1, <1>4 DEF StepOK, Refuses, SetTo, Adopt
<1>5. Lifts(Up)
  <2>1. Len(Up) = 1 /\ Raises(Up[1])
    BY DEF Up, Op, Raises
  <2> QED
    BY <2>1 DEF Lifts, Ahead
<1>6. Boots(Up)
  <2>1. Rises(Up)
    BY <1>2, Kinds
  <2> QED
    BY <1>5, <2>1 DEF Boots
<1> QED
  BY <1>2, <1>3, <1>4, <1>6

\* Questions to the driver, and what is done with the answers.
LEMMA QuerySteps ==
  /\ Body(Query("slb_get_bw", "bw", "bw_now"))
  /\ Learns(Query("slb_get_channel", "channel", "tmp_channel"))
  /\ Note(Assign("channel", "tmp_channel"))
<1>1. ASSUME NEW s, StepOK(s), s.op = "query"
      PROVE  Body(<<s>>) /\ Still(<<s>>)
  <2>1. "assign" \notin Does(s) /\ "drops" \notin Does(s) /\ "refuses" \notin Does(s)
    BY <1>1 DEF Does, Drops, Refuses
  <2>2. Fragment(<<s>>) /\ Without("assign", <<s>>) /\ Without("drops", <<s>>)
        /\ Without("refuses", <<s>>)
    BY <1>1, <2>1, Single
  <2> QED
    BY <2>2, JoinedAsks DEF Body, Still
<1>2. Body(Query("slb_get_bw", "bw", "bw_now"))
  BY <1>1, NoLits DEF StepOK, Query
<1>3. Still(Query("slb_get_channel", "channel", "tmp_channel"))
  BY <1>1, NoLits DEF StepOK, Query
<1>4. Asks(Query("slb_get_channel", "channel", "tmp_channel"))
  <2> DEFINE P == Query("slb_get_channel", "channel", "tmp_channel")
  <2>1. Len(P) = 1 /\ P[1].op = "query" /\ P[1].name[2] = "tmp_channel"
    BY DEF Query
  <2> QED
    BY <2>1 DEF Asks
<1>5. Note(Assign("channel", "tmp_channel"))
  <2> DEFINE s == [op |-> "assign", arg |-> "channel", name |-> "tmp_channel", lits |-> <<>>]
  <2>1. StepOK(s) /\ s.op # "if" /\ Does(s) = {"assign"}
    BY NoLits DEF StepOK, Params, Does, Drops, Refuses
  <2>2. Fragment(<<s>>) /\ Without("query", <<s>>) /\ Without("drops", <<s>>)
    BY <2>1, Single
  <2> QED
    BY <2>2 DEF Note, Assign
<1> QED
  BY <1>2, <1>3, <1>4, <1>5 DEF Learns

-----------------------------------------------------------------------------
(***************************************************************************)
(* The functions of NodeApi                                                *)
(***************************************************************************)
\* Tables of the keys and the parameters are read and saved.
LEMMA TableFunctions ==
  /\ Plain(config_read) /\ Plain(TakeBasic) /\ Plain(SaveBasic)
  /\ Plain(sync_advinfo) /\ Plain(param_default)
<1>1. Plain(ReadBasic)
  BY PlainSteps, KindsJoined DEF ReadBasic, Key, Params
<1>2. Plain(ReadAdvanced)
  BY PlainSteps, KindsJoined DEF ReadAdvanced, Key, Params
<1>3. Plain(config_read)
  BY <1>1, <1>2, KindsJoined DEF config_read
<1>4. Plain(TakeBasic)
  BY PlainSteps, KindsJoined DEF TakeBasic, Params
<1>5. Plain(SaveBasic)
  BY PlainSteps, KindsJoined DEF SaveBasic, Saved, Key, Params
<1>6. Plain(sync_advinfo)
  BY PlainSteps, KindsJoined, KindsGuarded DEF sync_advinfo, Getters
<1>7. Plain(param_default)
  <2> DEFINE lits == [bw |-> 20, tfc_bw |-> 20, channel |-> 2479, mac |-> 1,
                 type |-> TypeT, node_type |-> TypeT, ip |-> 1, name |-> 1,
                 password |-> 1, power |-> 250, log_port |-> 6025,
                 net_manage_ip |-> 1, auto_join |-> 0, aifh_enable |-> 0,
                 cell_id |-> 9, cc_offset |-> 0, cp_type |-> 0, symbol_type |-> 2,
                 sysmsg_period |-> 1, s_cfg_idx |-> 2, sec_exch_cap |-> 33,
                 fisa_enable |-> 0, range_opt |-> -1]
  <2>1. \A p \in DOMAIN lits : p \in Params /\ lits[p] \in Int
    BY DEF TypeT, Params
  <2>2. param_default = Default(lits)
    BY DEF param_default
  <2> HIDE DEF lits
  <2> QED
    BY <2>1, <2>2, PlainSteps DEF Literals
<1> QED
  BY <1>3, <1>4, <1>5, <1>6, <1>7

\* init_node and set_node raise the interface when they have set its parameters.
LEMMA DriverFunctions ==
  Boots(init_node) /\ Rises(set_node) /\ Boots(wtsl_core_main)
<1>1. Boots(init_node)
  BY PlainSteps, WorkSteps, Kinds, KindsJoined, KindsGuarded, ZenonT(60)
     DEF init_node, Setters, HotSetters, Getters
<1>2. Body(SetBandwidths)
  BY QuerySteps, WorkSteps, Kinds, KindsJoined, KindsGuarded DEF SetBandwidths, Setters
<1>3. Rises(set_node)
  BY <1>2, PlainSteps, WorkSteps, Kinds, KindsJoined, KindsGuarded, ZenonT(60)
     DEF set_node, Setters, HotSetters, Getters
<1>4. Boots(wtsl_core_main)
  BY <1>1, TableFunctions, Kinds, KindsJoined DEF wtsl_core_main
<1> QED
  BY <1>1, <1>3, <1>4

\* The modes of operation.
LEMMA ModeFunctions ==
  /\ Rises(wtsl_core_do_shortrange) /\ Rises(wtsl_core_do_remoterange)
  /\ Rises(wtsl_core_do_lowlatency) /\ Rises(wtsl_core_do_throughput)
<1>1. \A p \in Params : \A v \in Int : Literals(Value(p, v))
  BY DEF Literals, Value
<1>2. Work(WideChannel)
  BY <1>1, WorkSteps, KindsJoined DEF WideChannel, Setters, Params
<1>3. ASSUME NEW c \in Int, NEW y \in Int
      PROVE  Work(Mib(c, y))
  <2> DEFINE lits == [cp_type |-> c, symbol_type |-> y, sysmsg_period |-> 1, s_cfg_idx |-> 2]
  <2>1. Literals(lits)
    BY DEF Literals, Params
  <2>2. "slb_set_mib_params" \in Setters
    BY DEF Setters
  <2> HIDE DEF lits
  <2>3. Work(SetTo("slb_set_mib_params", lits))
    BY <2>1, <2>2, WorkSteps
  <2> QED
    BY <2>3 DEF Mib, lits
<1>8. Work(Mib(0, 3)) /\ Work(Mib(3, 2)) /\ Work(Mib(0, 1))
  BY <1>3
<1>9. Literals(Value("range_opt", 1)) /\ Literals(Value("power", 250))
  BY <1>1 DEF Params
<1>4. Rises(wtsl_core_do_shortrange)
  BY <1>2, <1>8, PlainSteps, WorkSteps, Kinds, KindsJoined
     DEF wtsl_core_do_shortrange, wtsl_core_parse_json_do_shortrange
<1>5. Rises(wtsl_core_do_remoterange)
  BY <1>2, <1>8, <1>9, PlainSteps, WorkSteps, Kinds, KindsJoined
     DEF wtsl_core_do_remoterange, wtsl_core_parse_json_do_remoterange, Setters
<1>6. Rises(wtsl_core_do_lowlatency)
  BY PlainSteps, Kinds, KindsJoined
     DEF wtsl_core_do_lowlatency, wtsl_core_parse_json_do_lowlatency
<1>7. Rises(wtsl_core_do_throughput)
  <2> DEFINE first == Tell("sysctl") \o Tell("rx_thread_switch") \o Tell("set_mcs_bound")
             power == SetTo("slb_set_tx_power", Value("power", 250))
  <2>1. Plain(first)
    BY PlainSteps, KindsJoined
  <2>2. Work(power)
    BY <1>9, WorkSteps DEF Setters
  <2>3. wtsl_core_do_throughput = first \o power \o WideChannel \o Mib(0, 1) \o Up
    BY DEF wtsl_core_do_throughput
  <2> HIDE DEF first, power
  <2> QED
    BY <1>2, <1>8, <2>1, <2>2, <2>3, WorkSteps, Kinds, KindsJoined
<1> QED
  BY <1>4, <1>5, <1>6, <1>7

\* wtsl_core_do_lowpow does nothing but copy the row.
LEMMA LowPower == Rises(wtsl_core_do_lowpow)
<1>1. Plain(<<>>)
  <2>1. <<>> \in Seq({}) /\ Len(<<>>) = 0
    OBVIOUS
  <2> QED
    BY <2>1 DEF Plain, Fragment, IsSeq, Without
<1> QED
  BY <1>1, PlainSteps, Kinds, KindsJoined
     DEF wtsl_core_do_lowpow, wtsl_core_parse_json_do_lowpow

\* Setting the parameters of the node.
LEMMA ParameterFunctions ==
  Good(wtsl_core_set_node_basicinfo) /\ Good(wtsl_core_set_node_advinfo)
<1>1. Good(wtsl_core_set_node_basicinfo)
  BY PlainSteps, TestSteps, TableFunctions, DriverFunctions, Kinds, KindsJoined
     DEF wtsl_core_set_node_basicinfo, wtsl_core_parse_json_setnode
<1>2. Good(wtsl_core_set_node_advinfo)
  <2> DEFINE taken == Parse \o Take("cell_id") \o Take("cc_offset") \o Take("cp_type")
                      \o Take("symbol_type") \o Take("sysmsg_period")
                      \o Take("s_cfg_idx") \o Take("sec_exch_cap") \o Take("range_opt")
                      \o Take("aifh_enable") \o Take("power") \o Take("fisa_enable")
             applied == taken \o set_node
  <2>1. Test(taken)
    BY PlainSteps, TestSteps, Kinds, KindsJoined DEF Params
  <2>2. Good(applied)
    <3> HIDE DEF taken
    <3> QED
      BY <2>1, DriverFunctions, Kinds, KindsJoined
  <2>3. wtsl_core_set_node_advinfo =
          applied \o Save("CELL_ID", "cell_id") \o Save("CC_SPOS", "cc_offset")
          \o Save("CP_TYPE", "cp_type") \o Save("SYMBOL_CFG", "symbol_type")
          \o Save("SYSMSG_PERIOD", "sysmsg_period") \o Save("S_CFG_IDX", "s_cfg_idx")
          \o Save("SEC_EXCH_CAP", "sec_exch_cap") \o Save("RANGE_OPT", "range_opt")
          \o Save("TX_POWER", "power") \o Save("ACS_ENABLE", "aifh_enable")
          \o Save("FISA_ENABLE", "fisa_enable") \o Row
    BY DEF wtsl_core_set_node_advinfo, wtsl_core_parse_json_set_node_advinfo
  <2> HIDE DEF applied
  <2> QED
    BY <2>2, <2>3, PlainSteps, Kinds, KindsJoined, ZenonT(60) DEF Params, Saved, Key
<1> QED
  BY <1>1, <1>2

\* Joining networks, leaving them and looking for them.
LEMMA NetworkFunctions ==
  /\ Good(wtsl_core_do_connect) /\ Good(wtsl_core_start_scan)
  /\ Good(wtsl_core_auto_join_net) /\ Good(wtsl_core_do_disconnect)
  /\ Good(wtsl_core_show_bss) /\ Good(wtsl_core_get_node_conninfo)
<1>1. Still(wtsl_core_parse_json_tnode_join_net)
  BY PlainSteps, TestSteps, WorkSteps, QuerySteps, Kinds, KindsJoined, KindsGuarded
     DEF wtsl_core_parse_json_tnode_join_net, Params, Saved, Key, Getters
<1>2. Good(wtsl_core_do_connect)
  BY <1>1, TestSteps, Kinds, KindsJoined DEF wtsl_core_do_connect
<1>3. Good(wtsl_core_start_scan)
  BY PlainSteps, WorkSteps, Kinds, KindsJoined
     DEF wtsl_core_start_scan, slb_t_node_scan, wtsl_core_show_bss, parse_show_bss_output, Params
<1>4. Good(wtsl_core_auto_join_net)
  BY PlainSteps, TestSteps, Kinds, KindsJoined DEF wtsl_core_auto_join_net, Params, Saved, Key
<1>5. Good(wtsl_core_do_disconnect) /\ Good(wtsl_core_show_bss)
  BY PlainSteps, TestSteps, Kinds, KindsJoined
     DEF wtsl_core_do_disconnect, wtsl_core_show_bss, parse_show_bss_output
<1>6. Good(wtsl_core_get_node_conninfo)
  BY PlainSteps, Kinds, KindsJoined, KindsGuarded
     DEF wtsl_core_get_node_conninfo, wtsl_core_parse_json_view_users
<1> QED
  BY <1>2, <1>3, <1>4, <1>5, <1>6

\* Single commands, of which some end the request where they fail.
LEMMA CommandFunctions ==
  /\ Good(wtsl_core_do_aifh) /\ Good(wtsl_core_do_chswitch)
  /\ Good(wtsl_core_get_secalg) /\ Good(wtsl_core_set_adaptivemcs)
  /\ Good(wtsl_core_do_clearschmcs) /\ Good(wtsl_core_get_adaptivemcsinfo)
  /\ Good(wtsl_core_get_mcsboundinfo) /\ Good(wtsl_core_set_mcsbound)
  /\ Good(wtsl_core_get_node_traffic) /\ Good(wtsl_core_do_time_sync)
  /\ Good(wtsl_core_do_reboot) /\ Good(wtsl_core_do_restore)
<1>1. Good(wtsl_core_do_aifh)
  BY PlainSteps, TestSteps, Kinds, KindsJoined, KindsGuarded
     DEF wtsl_core_do_aifh, Params, Saved, Key, HotSetters
<1>2. Good(wtsl_core_do_chswitch)
  BY PlainSteps, TestSteps, Kinds, KindsJoined, KindsGuarded
     DEF wtsl_core_do_chswitch, Params, Saved, Key, HotSetters
<1>3. /\ Good(wtsl_core_get_secalg) /\ Good(wtsl_core_set_adaptivemcs)
      /\ Good(wtsl_core_do_clearschmcs) /\ Good(wtsl_core_get_adaptivemcsinfo)
      /\ Good(wtsl_core_get_mcsboundinfo) /\ Good(wtsl_core_set_mcsbound)
  BY TestSteps, Kinds, KindsJoined
     DEF wtsl_core_get_secalg, wtsl_core_set_adaptivemcs, wtsl_core_do_clearschmcs,
         wtsl_core_get_adaptivemcsinfo, wtsl_core_get_mcsboundinfo, wtsl_core_set_mcsbound
<1>4. Good(wtsl_core_get_node_traffic) /\ Good(wtsl_core_do_time_sync)
  BY PlainSteps, TestSteps, Kinds, KindsJoined, KindsGuarded
     DEF wtsl_core_get_node_traffic, wtsl_core_do_time_sync
<1>5. Good(wtsl_core_do_reboot) /\ Good(wtsl_core_do_restore)
  BY PlainSteps, TestSteps, Kinds, KindsJoined DEF wtsl_core_do_reboot, wtsl_core_do_restore
<1> QED
  BY <1>1, <1>2, <1>3, <1>4, <1>5

\* Readings.
LEMMA ReadFunctions ==
  /\ Good(wtsl_core_get_all_nodes_info) /\ Good(wtsl_core_get_node_basicinfo)
  /\ Good(wtsl_core_get_node_advinfo) /\ Good(wtsl_core_get_hw_resources_usage)
  /\ Good(wtsl_core_get_traceinfo)
<1>1. Good(wtsl_core_get_all_nodes_info) /\ Good(wtsl_core_get_node_basicinfo)
  BY PlainSteps, Kinds
     DEF wtsl_core_get_all_nodes_info, wtsl_core_get_node_basicinfo, create_node_info_json
<1>2. Good(wtsl_core_get_node_advinfo)
  BY TableFunctions, Kinds DEF wtsl_core_get_node_advinfo, create_node_advinfo_json
<1>3. Good(wtsl_core_get_hw_resources_usage)
  BY PlainSteps, TestSteps, Kinds, KindsJoined
     DEF wtsl_core_get_hw_resources_usage, slb_node_get_hw_resources_info,
         get_cpu_usage_stats, get_load_average, get_memory_usage, get_disk_usage
<1>4. Good(wtsl_core_get_traceinfo)
  BY PlainSteps, TestSteps, Kinds, KindsJoined, KindsGuarded
     DEF wtsl_core_get_traceinfo, wtsl_core_get_traceinfo_vip,
         wtsl_core_get_traceinfo_throughput, wtsl_core_get_traceinfo_delay,
         wtsl_core_get_traceinfo_drop, wtsl_core_get_traceinfo_mcs,
         wtsl_core_get_traceinfo_user_access
<1> QED
  BY <1>1, <1>2, <1>3, <1>4

\* The watcher's pass assigns the channel it has asked for, and drops nothing.
LEMMA WatcherFunction == Still(wtsl_core_splink_state_watcher)
<1>1. Still(wtsl_core_get_splink_info)
  BY PlainSteps, QuerySteps, Kinds, KindsJoined, KindsGuarded
     DEF wtsl_core_get_splink_info, get_all_version, get_rssi_info, Params, Saved, Key
<1> QED
  BY <1>1, PlainSteps, Kinds, KindsJoined DEF wtsl_core_splink_state_watcher

\* What the threads run.
LEMMA Programs ==
  /\ DOMAIN Program = DOMAIN GetApi \cup DOMAIN PostApi \cup {"boot", "pass"}
  /\ \A a \in DOMAIN Program : Good(Program[a])
  /\ Boots(Program["boot"])
  /\ Still(Program["pass"])
<1>1. /\ DOMAIN Program = DOMAIN GetApi \cup DOMAIN PostApi \cup {"boot", "pass"}
      /\ \A a \in DOMAIN GetApi : Program[a] = GetApi[a]
      /\ \A a \in DOMAIN PostApi : Program[a] = PostApi[a]
      /\ Program["boot"] = wtsl_core_main
      /\ Program["pass"] = wtsl_core_splink_state_watcher
  BY DEF Program, Over, GetApi, PostApi
<1>2. \A a \in DOMAIN GetApi : Good(GetApi[a])
  BY ReadFunctions, NetworkFunctions DEF GetApi
<1>3. \A a \in DOMAIN PostApi : Good(PostApi[a])
  BY ReadFunctions, NetworkFunctions, CommandFunctions, ParameterFunctions,
     ModeFunctions, LowPower, Kinds DEF PostApi
<1>4. Boots(Program["boot"]) /\ Still(Program["pass"])
  BY <1>1, DriverFunctions, WatcherFunction
<1>5. Good(Program["boot"]) /\ Good(Program["pass"])
  BY <1>4, Kinds
<1> QED
  BY <1>1, <1>2, <1>3, <1>4, <1>5

-----------------------------------------------------------------------------
(***************************************************************************)
(* The driver's commands                                                   *)
(***************************************************************************)
\* A setter writes parameters of the driver; a hot one leaves the interface up.
LEMMA SettersWrite ==
  ASSUME NEW w \in Setters, NEW m, \A p \in Params : m[p] \in Int
  PROVE  /\ DOMAIN SetterNamed(w, m).writes \subseteq Radio
         /\ \A p \in DOMAIN SetterNamed(w, m).writes : SetterNamed(w, m).writes[p] \in Int
         /\ w \in HotSetters => ~SetterNamed(w, m).down
<1> DEFINE OK(s) == /\ DOMAIN s.writes \subseteq Radio
                    /\ \A p \in DOMAIN s.writes : s.writes[p] \in Int
           Hot(s) == OK(s) /\ ~s.down
<1>1. ASSUME NEW p \in Radio, NEW v \in Int, NEW valid
      PROVE  OK(Setter(valid, Value(p, v))) /\ Hot(HotSetter(valid, Value(p, v)))
  BY DEF Setter, HotSetter, Value
<1>2. \A p \in Radio : p \in Params /\ m[p] \in Int
  BY DEF Radio
<1>h. \A s : Hot(s) => OK(s)
  OBVIOUS
<1> HIDE DEF OK, Hot
<1>3. OK(set_mac_address(m))
  BY <1>1, <1>2 DEF set_mac_address, Radio, Params
<1>4. OK(slb_set_channel(m))
  BY <1>1, <1>2 DEF slb_set_channel, Radio, Params
<1>5. OK(slb_set_bw(m))
  BY <1>1, <1>2 DEF slb_set_bw, Radio, Params
<1>6. OK(slb_set_tfc_bw(m))
  BY <1>1, <1>2 DEF slb_set_tfc_bw, Radio, Params
<1>7. OK(slb_set_cc_start_pos(m))
  BY <1>1, <1>2 DEF slb_set_cc_start_pos, Radio, Params
<1>8. OK(slb_set_cell_id(m))
  BY <1>1, <1>2 DEF slb_set_cell_id, Radio, Params
<1>9. OK(slb_set_essid(m))
  BY <1>1, <1>2 DEF slb_set_essid, Radio, Params
<1>10. OK(slb_set_range_opt(m))
  BY <1>1, <1>2 DEF slb_set_range_opt, Radio, Params
<1>11. OK(slb_set_mib_params(m))
  BY <1>2 DEF OK, slb_set_mib_params, Radio, Params
<1>12. Hot(slb_set_sec_auth_pwd(m))
  BY <1>1, <1>2 DEF slb_set_sec_auth_pwd, Radio, Params
<1>13. Hot(slb_set_sec_exch_cap(m))
  BY <1>1, <1>2 DEF slb_set_sec_exch_cap, Radio, Params
<1>14. Hot(slb_set_tx_power(m))
  BY <1>1, <1>2 DEF slb_set_tx_power, Radio, Params
<1>15. Hot(slb_set_fisa_enable(m))
  <2>1. (IF m.fisa_enable = 0 THEN 0 ELSE 1) \in Int
    OBVIOUS
  <2> QED
    BY <1>1, <2>1 DEF slb_set_fisa_enable, Radio, Params
<1>16. Hot(slb_set_acs_enable(m))
  BY <1>1, <1>2 DEF slb_set_acs_enable, Radio, Params
<1>17. Hot(init_net_bridge(m))
  BY <1>1, <1>2 DEF init_net_bridge, Radio, Params
<1>18. Hot(slb_create_device(m))
  <2>1. (IF m.type = TypeG THEN TypeG ELSE TypeT) \in Int
    BY DEF TypeG, TypeT
  <2> QED
    BY <1>1, <2>1 DEF slb_create_device, Radio, Params
<1>19. Hot(set_acs_enable(m))
  BY <1>1, <1>2 DEF set_acs_enable, Radio, Params
<1>20. Hot(bss_chan_switch(m))
  BY <1>1, <1>2 DEF bss_chan_switch, Radio, Params
<1>21. OK(SetterNamed(w, m)) /\ (w \in HotSetters => Hot(SetterNamed(w, m)))
  BY <1>h, <1>3, <1>4, <1>5, <1>6, <1>7, <1>8, <1>9, <1>10, <1>11, <1>12, <1>13, <1>14,
     <1>15, <1>16, <1>17, <1>18, <1>19, <1>20 DEF SetterNamed, Setters, HotSetters
<1> QED
  BY <1>21 DEF OK, Hot

\* A getter reads parameters, or something that is only displayed.
LEMMA GettersRead ==
  ASSUME NEW w \in Getters, NEW d \in [Radio -> Int]
  PROVE  LET g == GetterNamed(w, d) IN
         \/ /\ DOMAIN g.value \subseteq Params /\ g.errors \subseteq Int
            /\ \A p \in DOMAIN g.value : g.value[p] \in Int
         \/ /\ DOMAIN g.value \subseteq Observed /\ g.errors \subseteq {"error"}
            /\ \A x \in DOMAIN g.value : g.value[x] = "read"
<1> DEFINE OK(g) == \/ /\ DOMAIN g.value \subseteq Params /\ g.errors \subseteq Int
                       /\ \A p \in DOMAIN g.value : g.value[p] \in Int
                    \/ /\ DOMAIN g.value \subseteq Observed /\ g.errors \subseteq {"error"}
                       /\ \A x \in DOMAIN g.value : g.value[x] = "read"
<1>1. ASSUME NEW p \in Params, NEW v \in Int
      PROVE  OK(Getter(Value(p, v), {0, -1})) /\ OK(Getter(Value(p, v), {-1}))
  BY DEF Getter, Value
<1>2. ASSUME NEW x \in Observed
      PROVE  OK(Reading(x)) /\ OK(StructReading(x))
  BY DEF Reading, StructReading, Getter, Value
<1>3. OK(slb_get_mib_params(d))
  BY DEF slb_get_mib_params, Getter, Radio, Params
<1>4. \A p \in Radio : p \in Params /\ d[p] \in Int
  BY DEF Radio
<1> HIDE DEF OK
<1>5. OK(slb_get_channel(d)) /\ OK(slb_get_bw(d)) /\ OK(slb_get_tfc_bw(d))
  BY <1>1, <1>4 DEF slb_get_channel, slb_get_bw, slb_get_tfc_bw, Radio, Params
<1>6. OK(slb_get_cc_start_pos(d)) /\ OK(slb_get_cell_id(d)) /\ OK(slb_get_acs_enable(d))
  BY <1>1, <1>4 DEF slb_get_cc_start_pos, slb_get_cell_id, slb_get_acs_enable, Radio, Params
<1>7. OK(slb_get_range_opt(d)) /\ OK(slb_get_sec_exch_cap(d))
  BY <1>1, <1>4 DEF slb_get_range_opt, slb_get_sec_exch_cap, Radio, Params
<1>8. /\ OK(slb_get_chip_temperature) /\ OK(slb_get_sec_sec_cap) /\ OK(slb_get_pps_switch)
      /\ OK(slb_get_lce_mode) /\ OK(get_wt_vap_interface_count) /\ OK(slb_get_timestamp_cnt)
      /\ OK(slb_get_wds_mode) /\ OK(slb_get_real_power) /\ OK(slb_fem_check)
      /\ OK(slb_get_view_mcs_info) /\ OK(slb_get_rssi_info)
  BY <1>2 DEF slb_get_chip_temperature, slb_get_sec_sec_cap, slb_get_pps_switch,
      slb_get_lce_mode, get_wt_vap_interface_count, slb_get_timestamp_cnt, slb_get_wds_mode,
      slb_get_real_power, slb_fem_check, slb_get_view_mcs_info, slb_get_rssi_info, Observed
<1>9. OK(GetterNamed(w, d))
  BY <1>3, <1>5, <1>6, <1>7, <1>8 DEF GetterNamed, Getters
<1> QED
  BY <1>9 DEF OK

\* What is displayed is not a parameter.
LEMMA ObservedApart == Params \cap Observed = {}
BY DEF Params, Observed

-----------------------------------------------------------------------------
(***************************************************************************)
(* The invariant                                                           *)
(***************************************************************************)
Numbers(l) == \A x \in DOMAIN l : l[x] \in Int

\* What the threads run, at what times.
Runs == [main    |-> {"boot", "done", "idle"},
         http    |-> DOMAIN GetApi \cup DOMAIN PostApi \cup {"idle"},
         watcher |-> {"pass", "idle"}]

\* A thread is at a step of its function, and has the answers to what it asked.
JobInv(t, j) ==
  /\ DOMAIN j = {"prog", "at", "body", "local", "data"}
  /\ JobOK(j) /\ j.prog \in Runs[t]
  /\ Valued(j.body) /\ Numbers(j.local)
  /\ j.prog \in DOMAIN Program =>
       \A k \in 1 .. j.at - 1 :
         Program[j.prog][k].op = "query" => Program[j.prog][k].name[2] \in DOMAIN j.local

Jobs == DOMAIN job = Thread /\ \A t \in Thread : JobInv(t, job[t])

\* The threads are started by the boot.
BootsFirst ==
  job["main"].prog # "done" => job["http"].prog = "idle" /\ job["watcher"].prog = "idle"

\* An interface that is down will be raised by the function that has dropped it, in
\* the steps it has left.
Raising ==
  "fault" \notin events =>
    /\ job["main"].prog = "boot" => up \/ Ahead(Program["boot"], job["main"].at)
    /\ job["http"].prog # "idle" =>
         LET P == Program[job["http"].prog] IN
         \/ up
         \/ /\ Ahead(P, job["http"].at)
            /\ \E k \in 1 .. job["http"].at - 1 : Drops(P[k])
    /\ Quiet => up

Values ==
  /\ mem \in [Params -> Int] /\ drv \in [Radio -> Int]
  /\ seen \in [Observed -> {"unset", "read", "error"}]
  /\ up \in BOOLEAN /\ rebooting \in BOOLEAN
  /\ events \subseteq {"fault", "crash", "reboot", "move", "misfit"}
  /\ DOMAIN file = Key /\ \A k \in Key : file[k] \in Int \cup {Absent}
  /\ row = NoRow \/ row \in [Basic -> Int]
  /\ lock \in Thread \cup {"none"}
  /\ "apis" \in DOMAIN budget /\ budget.apis \subseteq DOMAIN Bodies

IInv == Values /\ Jobs /\ BootsFirst /\ Raising

-----------------------------------------------------------------------------
(***************************************************************************)
(* A step of a thread                                                      *)
(***************************************************************************)
\* What the thread runs, and where it is in it.
Code(self)  == Program[job[self].prog]
Place(self) == job[self].at

\* The thread is at a step.
AtStep(self) ==
  /\ job[self].prog \in DOMAIN Program
  /\ Place(self) \in 1 .. Len(Code(self)) /\ Len(Code(self)) \in Nat
  /\ Good(Code(self)) /\ StepOK(Now(self)) /\ Now(self) = Code(self)[Place(self)]

\* It goes to step k.
Advances(self, k) ==
  /\ DOMAIN job' = Thread /\ \A t \in Thread \ {self} : job'[t] = job[t]
  /\ DOMAIN job'[self] = {"prog", "at", "body", "local", "data"}
  /\ job'[self].prog = job[self].prog /\ job'[self].at = k
  /\ job'[self].data \in {"none", "read", "empty"}
  /\ job'[self].body = job[self].body
  /\ Numbers(job'[self].local) /\ DOMAIN job[self].local \subseteq DOMAIN job'[self].local
  /\ Now(self).op = "query" => Now(self).name[2] \in DOMAIN job'[self].local

GoesOn(self) ==
  \/ Advances(self, Place(self) + 1)
  \/ Now(self).op = "if" /\ Advances(self, Place(self) + 1 + Now(self).name)

GivesUp(self) ==
  /\ DOMAIN job' = Thread /\ \A t \in Thread \ {self} : job'[t] = job[t]
  /\ job'[self] = Idle /\ Refuses(Now(self))

\* What the step does to the interface, unless it fails.
MovesInterface(self) ==
  /\ events \subseteq events'
  /\ "fault" \notin events' =>
       /\ up /\ ~Drops(Now(self)) => up'
       /\ Raises(Now(self)) => up'

\* Where a thread is that is at an operation.
LEMMA Places ==
  ASSUME Jobs, NEW self \in Thread, NEW ops, At(self, ops)
  PROVE  AtStep(self) /\ Now(self).op \in ops
<1>1. job[self].prog \in DOMAIN Program /\ JobInv(self, job[self])
  BY DEF At, Jobs
<1>2. Good(Code(self)) /\ Fragment(Code(self))
  BY <1>1, Programs DEF Good, Code
<1>3. Len(Code(self)) \in Nat
  BY <1>2 DEF Fragment, IsSeq
<1>4. Place(self) \in 1 .. Len(Code(self)) /\ Now(self) = Code(self)[Place(self)]
  BY <1>1, <1>3 DEF At, JobInv, JobOK, Code, Place, Now
<1>5. StepOK(Now(self))
  BY <1>2, <1>4 DEF Fragment
<1> QED
  BY <1>1, <1>2, <1>3, <1>4, <1>5 DEF AtStep, At, Now

\* The interface will be raised after a step that does not raise it, if it would
\* have been before.
LEMMA AheadStep ==
  ASSUME NEW P, Fragment(P), NEW k \in 1 .. Len(P), Ahead(P, k), ~Raises(P[k]),
         NEW n, n = k + 1 \/ (P[k].op = "if" /\ n = k + 1 + P[k].name)
  PROVE  Ahead(P, n)
<1>1. PICK i \in k .. Len(P) :
        /\ Raises(P[i])
        /\ \A t \in k .. i - 1 : P[t].op = "if" => t + P[t].name < i
  BY DEF Ahead
<1>2. Len(P) \in Nat /\ (P[k].op = "if" => P[k].name \in Nat)
  BY DEF Fragment, IsSeq, StepOK
<1>3. i # k
  BY <1>1
<1>4. n \in Nat /\ k < n /\ n <= i
  BY <1>1, <1>2, <1>3
<1>5. i \in n .. Len(P) /\ \A t \in n .. i - 1 : t \in k .. i - 1
  BY <1>2, <1>4
<1> QED
  BY <1>1, <1>5 DEF Ahead

\* The thread stays in its function.
LEMMA NextPlace ==
  ASSUME NEW self \in Thread, AtStep(self),
         NEW n, \/ n = Place(self) + 1
                \/ Now(self).op = "if" /\ n = Place(self) + 1 + Now(self).name
  PROVE  /\ n \in Nat /\ Place(self) < n /\ n <= Len(Code(self)) + 1
         /\ \A k \in Place(self) + 1 .. n - 1 : Code(self)[k].op # "query"
<1> DEFINE P == Code(self)
           i == Place(self)
<1>1. i \in 1 .. Len(P) /\ Len(P) \in Nat /\ Fragment(P) /\ Now(self) = P[i]
  BY DEF AtStep, Good
<1>2. P[i].op = "if" =>
        /\ P[i].name \in Nat /\ i + P[i].name <= Len(P)
        /\ \A k \in i + 1 .. i + P[i].name : P[k].op # "query"
  BY <1>1 DEF Fragment, StepOK
<1> HIDE DEF P, i
<1>3. n = i + 1 \/ (P[i].op = "if" /\ n = i + 1 + P[i].name)
  BY <1>1 DEF P, i
<1>4. n \in Nat /\ i < n /\ n <= Len(P) + 1 /\ \A k \in i + 1 .. n - 1 : P[k].op # "query"
  BY <1>1, <1>2, <1>3
<1> QED
  BY <1>4 DEF P, i

\* The jobs stay what they should be.
LEMMA JobsKept ==
  ASSUME Jobs, NEW self \in Thread, AtStep(self), GoesOn(self) \/ GivesUp(self)
  PROVE  Jobs'
<1>1. CASE GivesUp(self)
  <2>1. JobInv(self, Idle)
    <3>1. Numbers(<<>>)
      BY DEF Numbers
    <3> QED
      BY <3>1, NoLits, Programs DEF JobInv, JobOK, Idle, Job, Runs, Thread, GetApi, PostApi
  <2> QED
    BY <1>1, <2>1 DEF GivesUp, Jobs
<1>2. CASE GoesOn(self)
  <2>1. PICK n : /\ Advances(self, n)
                 /\ \/ n = Place(self) + 1
                    \/ Now(self).op = "if" /\ n = Place(self) + 1 + Now(self).name
    BY <1>2 DEF GoesOn
  <2> DEFINE j == job[self]
             new == job'[self]
             P == Code(self)
  <2>2. /\ n \in Nat /\ Place(self) < n /\ n <= Len(P) + 1
        /\ \A k \in Place(self) + 1 .. n - 1 : P[k].op # "query"
    BY <2>1, NextPlace
  <2>3. JobInv(self, j)
    BY DEF Jobs
  <2>4. ASSUME NEW k \in 1 .. n - 1, P[k].op = "query"
        PROVE  P[k].name[2] \in DOMAIN new.local
    <3>1. CASE k \in 1 .. Place(self) - 1
      BY <3>1, <2>1, <2>3, <2>4 DEF JobInv, AtStep, Code, Place, Advances
    <3>2. CASE k = Place(self)
      BY <3>2, <2>1, <2>4 DEF Advances, AtStep
    <3>3. k \notin Place(self) + 1 .. n - 1
      BY <2>2, <2>4
    <3> QED
      BY <3>1, <3>2, <3>3, <2>2 DEF AtStep
  <2>5. JobOK(new)
    BY <2>1, <2>2 DEF JobOK, Advances, AtStep, Code
  <2>6. JobInv(self, new)
    BY <2>1, <2>2, <2>3, <2>4, <2>5 DEF JobInv, Advances, AtStep, Code
  <2> QED
    BY <2>1, <2>6 DEF Jobs, Advances
<1> QED
  BY <1>1, <1>2

\* Whoever makes a step of its function keeps its promise about the interface.
LEMMA RaisingKept ==
  ASSUME Jobs, BootsFirst, Raising, NEW self \in Thread, AtStep(self),
         GoesOn(self) \/ GivesUp(self), MovesInterface(self)
  PROVE  BootsFirst' /\ Raising'
<1> DEFINE P == Code(self)
           i == Place(self)
<1>1. /\ i \in 1 .. Len(P) /\ Len(P) \in Nat /\ Now(self) = P[i]
      /\ Fragment(P) /\ Lifted(P) /\ Early(P) /\ job[self].prog \in DOMAIN Program
  BY DEF AtStep, Good
<1>2. /\ \A t \in Thread \ {self} : job'[t] = job[t]
      /\ job'[self].prog = job[self].prog \/ job'[self] = Idle
  BY DEF GoesOn, GivesUp, Advances
<1>3. /\ Idle.prog = "idle" /\ "idle" \notin DOMAIN Program
      /\ "done" \notin DOMAIN Program
  BY Programs DEF Idle, Job, GetApi, PostApi
<1>4. /\ job["main"].prog \in {"boot", "done", "idle"}
      /\ job["watcher"].prog \in {"pass", "idle"}
  BY DEF Jobs, JobInv, Runs, Thread
<1>5. BootsFirst'
  BY <1>1, <1>2, <1>3, <1>4 DEF BootsFirst, Thread
<1> SUFFICES ASSUME "fault" \notin events'
             PROVE  Raising'
  BY <1>5 DEF Raising
<1>6. /\ "fault" \notin events
      /\ up /\ ~Drops(P[i]) => up'
      /\ Raises(P[i]) => up'
  BY <1>1 DEF MovesInterface
\* What becomes of an interface that is down, or will be.
<1>7. ASSUME up \/ Ahead(P, i), NEW n, Advances(self, n),
             n = i + 1 \/ (Now(self).op = "if" /\ n = i + 1 + Now(self).name)
      PROVE  up' \/ Ahead(P, n)
  <2>1. CASE Drops(P[i])
    <3>1. P[i].op # "if"
      BY <2>1 DEF Drops
    <3> QED
      BY <2>1, <3>1, <1>1, <1>7 DEF Lifted
  <2>2. CASE ~Drops(P[i]) /\ up
    BY <2>2, <1>6
  <2>3. CASE ~Raises(P[i]) /\ Ahead(P, i)
    BY <2>3, <1>1, <1>7, AheadStep
  <2> QED
    BY <2>1, <2>2, <2>3, <1>6, <1>7
<1>8. CASE self = "main"
  <2>1. job["main"].prog = "boot" /\ job["http"].prog = "idle"
    BY <1>1, <1>3, <1>4, <1>8 DEF BootsFirst
  <2>2. up \/ Ahead(P, i)
    BY <2>1, <1>6, <1>8 DEF Raising, Code, Place
  <2>3. CASE GivesUp(self)
    BY <2>1, <2>3, <1>2, <1>3, <1>8 DEF Raising, GivesUp, Quiet, Running, Thread
  <2>4. CASE GoesOn(self)
    <3>1. PICK n : /\ Advances(self, n)
                   /\ n = i + 1 \/ (Now(self).op = "if" /\ n = i + 1 + Now(self).name)
      BY <2>4 DEF GoesOn
    <3>2. up' \/ Ahead(P, n)
      BY <2>2, <3>1, <1>7
    <3>3. job'["main"].prog = "boot" /\ job'["main"].at = n /\ job'["http"].prog = "idle"
      BY <2>1, <3>1, <1>8 DEF Advances, Thread
    <3>4. P = Program["boot"]
      BY <2>1, <1>8 DEF Code
    <3> QED
      BY <3>2, <3>3, <3>4 DEF Raising, Quiet, Running
  <2> QED
    BY <2>3, <2>4
<1>9. CASE self = "http"
  <2>0. job["main"].prog = "done" /\ job["http"].prog # "idle"
    BY <1>1, <1>3, <1>9 DEF BootsFirst
  <2>1. up \/ (Ahead(P, i) /\ \E k \in 1 .. i - 1 : Drops(P[k]))
    BY <2>0, <1>6, <1>9 DEF Raising, Code, Place
  <2>2. CASE GivesUp(self)
    <3>1. \A k \in 1 .. i : ~Drops(P[k])
      BY <2>2, <1>1 DEF GivesUp, Early
    <3>2. up /\ ~Drops(P[i])
      BY <2>1, <3>1, <1>1
    <3>3. up'
      BY <3>2, <1>6
    <3> QED
      BY <2>0, <2>2, <3>3, <1>2, <1>3, <1>9 DEF Raising, GivesUp, Quiet, Running, Thread
  <2>3. CASE GoesOn(self)
    <3>1. PICK n : /\ Advances(self, n)
                   /\ n = i + 1 \/ (Now(self).op = "if" /\ n = i + 1 + Now(self).name)
      BY <2>3 DEF GoesOn
    <3>2. up' \/ Ahead(P, n)
      BY <2>1, <3>1, <1>7
    <3>3. n \in Nat /\ i < n
      BY <3>1, NextPlace
    <3>4. up' \/ \E k \in 1 .. n - 1 : Drops(P[k])
      <4>1. CASE Drops(P[i])
        BY <4>1, <3>3, <1>1
      <4>2. CASE up /\ ~Drops(P[i])
        BY <4>2, <1>6
      <4>3. CASE \E k \in 1 .. i - 1 : Drops(P[k])
        BY <4>3, <3>3, <1>1
      <4> QED
        BY <4>1, <4>2, <4>3, <2>1
    <3>5. /\ job'["http"].prog = job["http"].prog /\ job'["http"].at = n
          /\ job'["main"].prog = "done"
      BY <2>0, <3>1, <1>9 DEF Advances, Thread
    <3>6. P = Program[job["http"].prog]
      BY <1>9 DEF Code
    <3> HIDE DEF P
    <3> QED
      BY <2>0, <3>2, <3>4, <3>5, <3>6 DEF Raising, Quiet, Running
  <2> QED
    BY <2>2, <2>3
<1>10. CASE self = "watcher"
  <2>0. job["main"].prog = "done" /\ P = Program["pass"]
    BY <1>1, <1>3, <1>4, <1>10 DEF BootsFirst, Code
  <2>1. ~Drops(P[i])
    BY <2>0, <1>1, Programs DEF Still, Without, Does
  <2>2. up => up'
    BY <2>1, <1>6
  <2>3. job'["main"] = job["main"] /\ job'["http"] = job["http"]
    BY <1>2, <1>10 DEF Thread
  <2> QED
    BY <2>0, <2>2, <2>3, <1>6 DEF Raising, Quiet, Running
<1> QED
  BY <1>8, <1>9, <1>10 DEF Thread

\* The values a function passes on are numbers.
LEMMA ArgsAreNumbers ==
  ASSUME Values, Jobs, NEW self \in Thread, AtStep(self), NEW p \in Params
  PROVE  Arg(self, p) \in Int /\ Args(self)[p] \in Int
<1>1. Literals(Now(self).lits) /\ Numbers(job[self].local) /\ mem[p] \in Int
  BY DEF AtStep, StepOK, Jobs, JobInv, Values
<1>2. Arg(self, p) \in Int
  BY <1>1 DEF Arg, Literals, Numbers
<1> QED
  BY <1>2 DEF Args

\* How a thread leaves a step.
LEMMA Leaves ==
  ASSUME Jobs, NEW self \in Thread, AtStep(self)
  PROVE  /\ Continue(self) /\ Now(self).op # "query" => GoesOn(self)
         /\ \A x : \A v \in Int :
              ContinueWith(self, x, v) /\ (Now(self).op = "query" => Now(self).name[2] = x)
                => GoesOn(self)
         /\ Refuse(self) /\ Refuses(Now(self)) => GivesUp(self)
<1>1. /\ DOMAIN job = Thread /\ Numbers(job[self].local)
      /\ DOMAIN job[self] = {"prog", "at", "body", "local", "data"}
      /\ job[self].data \in {"none", "read", "empty"}
  BY DEF Jobs, JobInv, JobOK
<1>2. ASSUME Continue(self), Now(self).op # "query"
      PROVE  GoesOn(self)
  BY <1>1, <1>2 DEF Continue, GoesOn, Advances, Place
<1>3. ASSUME NEW x, NEW v \in Int, ContinueWith(self, x, v),
             Now(self).op = "query" => Now(self).name[2] = x
      PROVE  GoesOn(self)
  <2> DEFINE l == Over(Value(x, v), job[self].local)
  <2>1. /\ Numbers(l) /\ DOMAIN job[self].local \subseteq DOMAIN l /\ x \in DOMAIN l
    BY <1>1 DEF Over, Value, Numbers
  <2>2. job' = [job EXCEPT ![self].at = @ + 1, ![self].local = l]
    BY <1>3 DEF ContinueWith
  <2> HIDE DEF l
  <2>3. /\ job'[self].local = l /\ job'[self].at = Place(self) + 1
        /\ job'[self].prog = job[self].prog /\ job'[self].body = job[self].body
        /\ job'[self].data = job[self].data
        /\ DOMAIN job'[self] = DOMAIN job[self]
        /\ DOMAIN job' = Thread /\ \A t \in Thread \ {self} : job'[t] = job[t]
    BY <1>1, <2>2 DEF Place
  <2> QED
    BY <1>1, <1>3, <2>1, <2>3 DEF GoesOn, Advances
<1>4. ASSUME Refuse(self), Refuses(Now(self))
      PROVE  GivesUp(self)
  BY <1>1, <1>4 DEF Refuse, GivesUp
<1> QED
  BY <1>2, <1>3, <1>4

\* Failures are counted.
LEMMA Failures ==
  ASSUME Values
  PROVE  /\ Fault => /\ "fault" \in events' /\ events \subseteq events'
                     /\ events' \subseteq {"fault", "crash", "reboot", "move", "misfit"}
                     /\ "apis" \in DOMAIN budget' /\ budget'.apis \subseteq DOMAIN Bodies
         /\ NoFault => events' = events /\ budget' = budget
         /\ \A misfit : Noting(misfit) =>
              /\ events \subseteq events' /\ events' \subseteq events \cup {"misfit"}
              /\ events' \subseteq {"fault", "crash", "reboot", "move", "misfit"}
              /\ budget' = budget
BY DEF Values, Fault, NoFault, Noting

\* What a step of a thread keeps.
Keeps(self) ==
  /\ AtStep(self)
  /\ GoesOn(self) \/ GivesUp(self)
  /\ MovesInterface(self) /\ Values'

\* A setter that fails leaves the interface down.
LEMMA Setting ==
  ASSUME Values, Jobs, NEW self \in Thread, SetParameter(self)
  PROVE  Keeps(self)
<1> DEFINE st == Now(self)
           s  == SetterNamed(st.arg, Args(self))
<1>1. AtStep(self) /\ st.op \in {"set", "must", "adopt"}
  BY Places DEF SetParameter
<1>2. StepOK(st)
  BY <1>1 DEF AtStep
<1>3. st.arg \in Setters /\ Literals(st.lits)
  BY <1>1, <1>2 DEF StepOK
<1>4. /\ DOMAIN s.writes \subseteq Radio
      /\ \A p \in DOMAIN s.writes : s.writes[p] \in Int
      /\ st.arg \in HotSetters => ~s.down
  BY <1>1, <1>3, ArgsAreNumbers, SettersWrite
<1>5. ~Drops(st) => ~s.down
  BY <1>1, <1>4 DEF Drops
<1>6. ~Raises(st) /\ st.op # "query"
  BY <1>1 DEF Raises
<1>7. /\ Continue(self) => GoesOn(self)
      /\ st.op = "must" /\ Refuse(self) => GivesUp(self)
  BY <1>1, <1>6, Leaves DEF Refuses
<1> DEFINE failed == IF st.op = "must" THEN Refuse(self)
                                       ELSE Continue(self) /\ UNCHANGED answer
<1>8. failed => GoesOn(self) \/ GivesUp(self)
  BY <1>7
<1>9. /\ \/ /\ ~s.valid /\ failed /\ NoFault
            /\ UNCHANGED <<mem, drv, up>>
         \/ /\ s.valid /\ NoFault
            /\ drv' = Over(s.writes, drv)
            /\ up' = (s.up \/ (up /\ ~s.down))
            /\ mem' = IF st.op = "adopt" THEN Over(st.lits, mem) ELSE mem
            /\ Continue(self) /\ UNCHANGED answer
         \/ /\ s.valid /\ Fault /\ failed
            /\ up' = (up /\ ~s.down)
            /\ UNCHANGED <<mem, drv>>
      /\ UNCHANGED <<seen, file, row, lock, rest>>
  BY DEF SetParameter
<1>10. /\ mem \in [Params -> Int] => Over(st.lits, mem) \in [Params -> Int]
       /\ drv \in [Radio -> Int] => Over(s.writes, drv) \in [Radio -> Int]
  BY <1>3, <1>4 DEF Over, Literals
<1> HIDE DEF st, s, failed
<1>11. /\ UNCHANGED <<seen, file, row, lock, rebooting>>
  BY <1>9 DEF rest
<1>12. /\ Fault => "fault" \in events' /\ events \subseteq events'
       /\ NoFault => events' = events /\ budget' = budget
       /\ events' \subseteq {"fault", "crash", "reboot", "move", "misfit"}
       /\ "apis" \in DOMAIN budget' /\ budget'.apis \subseteq DOMAIN Bodies
  BY <1>9, Failures DEF Values
<1>13. GoesOn(self) \/ GivesUp(self)
  BY <1>7, <1>8, <1>9
<1>14. MovesInterface(self)
  <2>1. "fault" \notin events' /\ up /\ ~Drops(st) => up'
    BY <1>5, <1>9, <1>12
  <2>2. events \subseteq events'
    BY <1>9, <1>12
  <2> QED
    BY <2>1, <2>2, <1>6 DEF MovesInterface, st
<1>15. mem' \in [Params -> Int] /\ drv' \in [Radio -> Int] /\ up' \in BOOLEAN
  BY <1>9, <1>10 DEF Values
<1>16. Values'
  BY <1>11, <1>12, <1>15 DEF Values
<1> QED
  BY <1>1, <1>13, <1>14, <1>16 DEF Keeps

\* Most steps have nothing to do with the interface.
LEMMA LeavesInterface ==
  ASSUME Values, NEW self, up' = up, Fault \/ NoFault \/ \E misfit : Noting(misfit),
         ~Raises(Now(self))
  PROVE  /\ MovesInterface(self)
         /\ events' \subseteq {"fault", "crash", "reboot", "move", "misfit"}
         /\ "apis" \in DOMAIN budget' /\ budget'.apis \subseteq DOMAIN Bodies
<1>1. /\ Fault => "fault" \in events' /\ events \subseteq events'
      /\ NoFault => events' = events /\ budget' = budget
      /\ (\E misfit : Noting(misfit)) => events \subseteq events'
      /\ events' \subseteq {"fault", "crash", "reboot", "move", "misfit"}
      /\ "apis" \in DOMAIN budget' /\ budget'.apis \subseteq DOMAIN Bodies
  BY Failures DEF Values
<1> QED
  BY <1>1 DEF MovesInterface

\* A getter stores numbers in the structure.
LEMMA Getting ==
  ASSUME Values, Jobs, NEW self \in Thread, GetParameter(self)
  PROVE  Keeps(self)
<1> DEFINE g == GetterNamed(Now(self).arg, drv)
           Store(v) == /\ mem'  = [p \in Params |-> IF p \in DOMAIN v THEN v[p] ELSE mem[p]]
                       /\ seen' = [x \in Observed |-> IF x \in DOMAIN v THEN v[x] ELSE seen[x]]
           Apart(v) == \/ /\ DOMAIN v \subseteq Params /\ \A p \in DOMAIN v : v[p] \in Int
                       \/ /\ DOMAIN v \subseteq Observed
                          /\ \A x \in DOMAIN v : v[x] \in {"read", "error"}
<1>1. AtStep(self) /\ Now(self).op = "get"
  BY Places DEF GetParameter
<1>2. Now(self).arg \in Getters
  BY <1>1 DEF AtStep, StepOK
<1>3. drv \in [Radio -> Int] /\ mem \in [Params -> Int]
      /\ seen \in [Observed -> {"unset", "read", "error"}]
  BY DEF Values
<1>4. \/ /\ DOMAIN g.value \subseteq Params /\ g.errors \subseteq Int
         /\ \A p \in DOMAIN g.value : g.value[p] \in Int
      \/ /\ DOMAIN g.value \subseteq Observed /\ g.errors \subseteq {"error"}
         /\ \A x \in DOMAIN g.value : g.value[x] = "read"
  BY <1>2, <1>3, GettersRead
<1>5. ASSUME NEW v, Apart(v), Store(v)
      PROVE  mem' \in [Params -> Int] /\ seen' \in [Observed -> {"unset", "read", "error"}]
  BY <1>3, <1>5, ObservedApart
<1>6. /\ \/ Store(g.value) /\ NoFault
         \/ /\ Fault
            /\ \/ g.errors = {} /\ UNCHANGED <<mem, seen>>
               \/ \E e \in g.errors : Store([p \in DOMAIN g.value |-> e])
      /\ Continue(self)
      /\ UNCHANGED <<storage, row, lock, answer, rest>>
  BY DEF GetParameter
<1> HIDE DEF g
<1>7. mem' \in [Params -> Int] /\ seen' \in [Observed -> {"unset", "read", "error"}]
  <2>1. Apart(g.value)
    BY <1>4
  <2>2. \A e \in g.errors : Apart([p \in DOMAIN g.value |-> e])
    BY <1>4
  <2> HIDE DEF Apart, Store
  <2>3. CASE UNCHANGED <<mem, seen>>
    BY <1>3, <2>3
  <2> QED
    BY <1>5, <1>6, <2>1, <2>2, <2>3
<1>8. UNCHANGED <<drv, up, file, row, lock, rebooting>> /\ (Fault \/ NoFault)
  BY <1>6 DEF storage, rest
<1>9. MovesInterface(self)
      /\ events' \subseteq {"fault", "crash", "reboot", "move", "misfit"}
      /\ "apis" \in DOMAIN budget' /\ budget'.apis \subseteq DOMAIN Bodies
  BY <1>1, <1>8, LeavesInterface DEF Raises
<1>10. Values'
  BY <1>7, <1>8, <1>9 DEF Values
<1>11. GoesOn(self)
  BY <1>1, <1>6, Leaves
<1> QED
  BY <1>1, <1>9, <1>10, <1>11 DEF Keeps

\* A question to the driver is answered with a number.
LEMMA Querying ==
  ASSUME Values, Jobs, NEW self \in Thread, QueryParameter(self)
  PROVE  Keeps(self)
<1> DEFINE st == Now(self)
           g  == GetterNamed(st.arg, drv)
<1>1. AtStep(self) /\ st.op = "query"
  BY Places DEF QueryParameter
<1>2. \/ st.arg = "slb_get_channel" /\ st.name = <<"channel", "tmp_channel">>
      \/ st.arg = "slb_get_bw" /\ st.name = <<"bw", "bw_now">>
  BY <1>1 DEF AtStep, StepOK
<1>3. drv.channel \in Int /\ drv.bw \in Int
  BY DEF Values, Radio, Params
<1>4. g.value[st.name[1]] \in Int /\ g.errors \subseteq Int
  <2>1. CASE st.arg = "slb_get_channel" /\ st.name = <<"channel", "tmp_channel">>
    BY <2>1, <1>3 DEF GetterNamed, slb_get_channel, Getter, Value
  <2>2. CASE st.arg = "slb_get_bw" /\ st.name = <<"bw", "bw_now">>
    BY <2>2, <1>3 DEF GetterNamed, slb_get_bw, Getter, Value
  <2> QED
    BY <2>1, <2>2, <1>2
<1>5. /\ \/ ContinueWith(self, st.name[2], g.value[st.name[1]]) /\ \E m : Noting(m)
         \/ Fault /\ \E e \in g.errors : ContinueWith(self, st.name[2], e)
      /\ UNCHANGED <<mem, seen, storage, row, lock, answer, rest>>
  BY DEF QueryParameter
<1> HIDE DEF g
<1>6. \A v \in Int : ContinueWith(self, st.name[2], v) => GoesOn(self)
  BY <1>1, Leaves
<1>7. GoesOn(self)
  BY <1>4, <1>5, <1>6
<1>8. /\ UNCHANGED <<mem, seen, drv, up, file, row, lock, rebooting>>
      /\ Fault \/ \E m : Noting(m)
  BY <1>5 DEF storage, rest
<1>9. MovesInterface(self)
      /\ events' \subseteq {"fault", "crash", "reboot", "move", "misfit"}
      /\ "apis" \in DOMAIN budget' /\ budget'.apis \subseteq DOMAIN Bodies
  BY <1>1, <1>8, LeavesInterface DEF Raises
<1>10. Values'
  BY <1>8, <1>9 DEF Values
<1> QED
  BY <1>1, <1>7, <1>9, <1>10 DEF Keeps

\* What is assigned has been asked for before, and what a request sets is a number.
LEMMA Computing ==
  ASSUME Values, Jobs, NEW self \in Thread, Compute(self)
  PROVE  Keeps(self)
<1> DEFINE st == Now(self)
           body == job[self].body
<1>1. /\ AtStep(self)
      /\ st.op \in {"take", "copy", "assign", "default", "clear"}
  BY Places DEF Compute
<1>2. /\ Literals(st.lits)
      /\ st.op # "default" => st.arg \in Params
      /\ st.op = "assign" => st.name = "tmp_channel"
  BY <1>1 DEF AtStep, StepOK
<1>3. mem \in [Params -> Int] /\ Valued(body) /\ Numbers(job[self].local)
  BY DEF Values, Jobs, JobInv
<1>4. st.op = "assign" => job[self].local["tmp_channel"] \in Int
  <2> DEFINE P == Code(self)
             i == Place(self)
  <2>1. i \in 1 .. Len(P) /\ Asked(P) /\ st = P[i] /\ Len(P) \in Nat
    BY <1>1 DEF AtStep, Good
  <2>2. \A k \in 1 .. i - 1 : P[k].op = "query" => P[k].name[2] \in DOMAIN job[self].local
    BY <1>1 DEF Jobs, JobInv, Code, Place, AtStep
  <2> HIDE DEF P, i
  <2>3. st.op = "assign" => "tmp_channel" \in DOMAIN job[self].local
    BY <2>1, <2>2 DEF Asked
  <2> QED
    BY <2>3, <1>3 DEF Numbers
<1>5. /\ \/ /\ st.op = "take"
            /\ mem' = IF st.arg \in DOMAIN body
                      THEN [mem EXCEPT ![st.arg] = body[st.arg]] ELSE mem
            /\ Continue(self)
         \/ st.op = "copy" /\ ContinueWith(self, st.arg, mem[st.arg]) /\ UNCHANGED mem
         \/ /\ st.op = "assign"
            /\ mem' = [mem EXCEPT ![st.arg] = job[self].local[st.name]]
            /\ Continue(self)
         \/ st.op = "default" /\ mem' = Over(st.lits, mem) /\ Continue(self)
         \/ st.op = "clear" /\ mem' = [mem EXCEPT ![st.arg] = 0] /\ Continue(self)
      /\ UNCHANGED <<seen, storage, row, lock, answer, rest, budget, events>>
  BY DEF Compute
<1>6. mem' \in [Params -> Int]
  <2>1. Over(st.lits, mem) \in [Params -> Int]
    BY <1>2, <1>3 DEF Over, Literals
  <2> HIDE DEF st, body
  <2>2. CASE st.op = "take"
    BY <2>2, <1>2, <1>3, <1>5 DEF Valued
  <2>3. CASE st.op = "assign"
    BY <2>3, <1>2, <1>3, <1>4, <1>5
  <2> QED
    BY <2>1, <2>2, <2>3, <1>1, <1>2, <1>3, <1>5
<1>7. GoesOn(self)
  <2>1. st.op = "copy" => mem[st.arg] \in Int
    BY <1>2, <1>3
  <2> QED
    BY <1>1, <1>5, <2>1, Leaves
<1>8. UNCHANGED <<seen, drv, up, file, row, lock, rebooting>> /\ NoFault
  BY <1>5 DEF storage, rest, NoFault
<1>9. MovesInterface(self)
      /\ events' \subseteq {"fault", "crash", "reboot", "move", "misfit"}
      /\ "apis" \in DOMAIN budget' /\ budget'.apis \subseteq DOMAIN Bodies
  BY <1>1, <1>8, LeavesInterface DEF Raises
<1>10. Values'
  BY <1>6, <1>8, <1>9 DEF Values
<1> QED
  BY <1>1, <1>7, <1>9, <1>10 DEF Keeps

\* The file holds numbers, and so does what is read from it or saved in it.
LEMMA Filing ==
  ASSUME Values, Jobs, NEW self \in Thread,
         config_get(self) \/ config_set(self) \/ RemoveFile(self)
  PROVE  Keeps(self)
<1> DEFINE st == Now(self)
<1>1. /\ DOMAIN file = Key /\ \A k \in Key : file[k] \in Int \cup {Absent}
      /\ mem \in [Params -> Int]
  BY DEF Values
<1>2. CASE config_get(self)
  <2>1. AtStep(self) /\ st.op = "read"
    BY <1>2, Places DEF config_get
  <2>2. st.arg \in Key /\ st.name \in Params
    BY <2>1 DEF AtStep, StepOK
  <2>3. /\ mem' = mem \/ (file[st.arg] # Absent /\ mem' = [mem EXCEPT ![st.name] = file[st.arg]])
        /\ Fault \/ NoFault
        /\ Continue(self)
        /\ UNCHANGED <<seen, storage, row, lock, answer, rest>>
    BY <1>2 DEF config_get
  <2> HIDE DEF st
  <2>4. mem' \in [Params -> Int]
    BY <1>1, <2>2, <2>3
  <2>5. UNCHANGED <<seen, drv, up, file, row, lock, rebooting>>
    BY <2>3 DEF storage, rest
  <2>6. MovesInterface(self)
        /\ events' \subseteq {"fault", "crash", "reboot", "move", "misfit"}
        /\ "apis" \in DOMAIN budget' /\ budget'.apis \subseteq DOMAIN Bodies
    BY <2>1, <2>3, <2>5, LeavesInterface DEF Raises, st
  <2>7. Values'
    BY <2>4, <2>5, <2>6 DEF Values
  <2>8. GoesOn(self)
    BY <2>1, <2>3, Leaves DEF st
  <2> QED
    BY <2>1, <2>6, <2>7, <2>8 DEF Keeps
<1>3. CASE config_set(self)
  <2>1. AtStep(self) /\ st.op = "save"
    BY <1>3, Places DEF config_set
  <2>2. st.arg \in Key /\ st.name \in Params
    BY <2>1 DEF AtStep, StepOK, Saved
  <2>3. Arg(self, st.name) \in Int
    BY <2>1, <2>2, ArgsAreNumbers
  <2>4. /\ file' = file \/ file' = [file EXCEPT ![st.arg] = Arg(self, st.name)]
        /\ Fault \/ NoFault
        /\ Continue(self)
        /\ UNCHANGED <<mem, seen, drv, up, row, lock, answer, rebooting>>
    BY <1>3 DEF config_set, rest
  <2> HIDE DEF st
  <2>5. DOMAIN file' = Key /\ \A k \in Key : file'[k] \in Int \cup {Absent}
    BY <1>1, <2>2, <2>3, <2>4
  <2>6. MovesInterface(self)
        /\ events' \subseteq {"fault", "crash", "reboot", "move", "misfit"}
        /\ "apis" \in DOMAIN budget' /\ budget'.apis \subseteq DOMAIN Bodies
    BY <2>1, <2>4, LeavesInterface DEF Raises, st
  <2>7. Values'
    BY <2>4, <2>5, <2>6 DEF Values
  <2>8. GoesOn(self)
    BY <2>1, <2>4, Leaves DEF st
  <2> QED
    BY <2>1, <2>6, <2>7, <2>8 DEF Keeps
<1>4. CASE RemoveFile(self)
  <2>1. AtStep(self) /\ st.op = "remove"
    BY <1>4, Places DEF RemoveFile
  <2>2. /\ file' = file \/ file' = [k \in Key |-> Absent]
        /\ Continue(self) \/ Refuse(self)
        /\ Fault \/ NoFault
        /\ UNCHANGED <<mem, seen, drv, up, row, lock, rest>>
    BY <1>4 DEF RemoveFile
  <2>3. DOMAIN file' = Key /\ \A k \in Key : file'[k] \in Int \cup {Absent}
    BY <1>1, <2>2
  <2>4. MovesInterface(self)
        /\ events' \subseteq {"fault", "crash", "reboot", "move", "misfit"}
        /\ "apis" \in DOMAIN budget' /\ budget'.apis \subseteq DOMAIN Bodies
    BY <2>1, <2>2, LeavesInterface DEF Raises
  <2>5. Values'
    BY <2>2, <2>3, <2>4 DEF Values, rest
  <2>6. GoesOn(self) \/ GivesUp(self)
    BY <2>1, <2>2, Leaves DEF Refuses
  <2> QED
    BY <2>1, <2>4, <2>5, <2>6 DEF Keeps
<1> QED
  BY <1>2, <1>3, <1>4

\* slb_ifconfig moves the interface where its step says, if it does not fail.
LEMMA Commanding ==
  ASSUME Values, Jobs, NEW self \in Thread,
         slb_ifconfig(self) \/ slb_t_node_start_join(self)
  PROVE  Keeps(self)
<1> DEFINE st == Now(self)
<1>1. CASE slb_ifconfig(self)
  <2>1. AtStep(self) /\ st.op = "ifconfig"
    BY <1>1, Places DEF slb_ifconfig
  <2>2. st.arg \in BOOLEAN
    BY <2>1 DEF AtStep, StepOK
  <2>3. /\ \/ up' = st.arg /\ NoFault
           \/ Fault /\ up' = up
        /\ Continue(self)
        /\ UNCHANGED <<mem, seen, drv, file, row, lock, answer, rest>>
    BY <1>1 DEF slb_ifconfig
  <2>4. /\ Fault => "fault" \in events' /\ events \subseteq events'
        /\ NoFault => events' = events
        /\ events' \subseteq {"fault", "crash", "reboot", "move", "misfit"}
        /\ "apis" \in DOMAIN budget' /\ budget'.apis \subseteq DOMAIN Bodies
    BY <2>3, Failures DEF Values
  <2>5. MovesInterface(self)
    <3> HIDE DEF st
    <3>1. CASE up' = st.arg /\ NoFault
      <4>1. up /\ ~Drops(st) => up'
        BY <3>1, <2>1, <2>2 DEF Drops
      <4>2. Raises(st) => up'
        BY <3>1 DEF Raises
      <4> QED
        BY <3>1, <4>1, <4>2, <2>4 DEF MovesInterface, st
    <3>2. CASE Fault
      BY <3>2, <2>4 DEF MovesInterface
    <3> QED
      BY <3>1, <3>2, <2>3
  <2>6. Values'
    BY <2>2, <2>3, <2>4 DEF Values, rest
  <2>7. GoesOn(self)
    BY <2>1, <2>3, Leaves
  <2> QED
    BY <2>1, <2>5, <2>6, <2>7 DEF Keeps
<1>2. CASE slb_t_node_start_join(self)
  <2>1. AtStep(self) /\ st.op = "join"
    BY <1>2, Places DEF slb_t_node_start_join
  <2>2. /\ drv' = drv \/ \E n \in Networks : drv' = Over(n, drv)
        /\ ContinueWith(self, "ret", 0) \/ ContinueWith(self, "ret", -1)
        /\ Fault \/ NoFault \/ \E m : Noting(m)
        /\ UNCHANGED <<mem, seen, up, file, row, lock, answer, rest>>
    BY <1>2 DEF slb_t_node_start_join
  <2>3. drv' \in [Radio -> Int]
    <3>1. \A n \in Networks : Over(n, drv) \in [Radio -> Int]
      BY RadioAssumption DEF Over, Values
    <3> QED
      BY <2>2, <3>1 DEF Values
  <2>4. MovesInterface(self)
        /\ events' \subseteq {"fault", "crash", "reboot", "move", "misfit"}
        /\ "apis" \in DOMAIN budget' /\ budget'.apis \subseteq DOMAIN Bodies
    BY <2>1, <2>2, LeavesInterface DEF Raises
  <2>5. Values'
    BY <2>2, <2>3, <2>4 DEF Values, rest
  <2>6. GoesOn(self)
    BY <2>1, <2>2, Leaves
  <2> QED
    BY <2>1, <2>4, <2>5, <2>6 DEF Keeps
<1> QED
  BY <1>1, <1>2

\* Tests, commands whose result goes nowhere, and reboots change nothing of this.
LEMMA Testing ==
  ASSUME Values, Jobs, NEW self \in Thread,
         TestResult(self) \/ RunCommand(self) \/ Reboots(self)
  PROVE  Keeps(self)
<1> DEFINE st == Now(self)
<1>1. CASE TestResult(self)
  <2>1. AtStep(self) /\ st.op \in {"parse", "joined", "null", "ask", "popen"}
    BY <1>1, Places DEF TestResult
  <2>2. /\ Continue(self) \/ Refuse(self)
        /\ Fault \/ NoFault
        /\ UNCHANGED <<mem, seen, drv, up, file, row, lock, rebooting>>
    BY <1>1 DEF TestResult, storage, rest
  <2>3. MovesInterface(self)
        /\ events' \subseteq {"fault", "crash", "reboot", "move", "misfit"}
        /\ "apis" \in DOMAIN budget' /\ budget'.apis \subseteq DOMAIN Bodies
    BY <2>1, <2>2, LeavesInterface DEF Raises
  <2>4. Values'
    BY <2>2, <2>3 DEF Values
  <2>5. GoesOn(self) \/ GivesUp(self)
    BY <2>1, <2>2, Leaves DEF Refuses
  <2> QED
    BY <2>1, <2>3, <2>4, <2>5 DEF Keeps
<1>2. CASE RunCommand(self)
  <2>1. AtStep(self) /\ st.op \in {"show", "tell"}
    BY <1>2, Places DEF RunCommand
  <2>2. /\ \E d \in {"none", "read", "empty"} :
             job' = [job EXCEPT ![self].at = @ + 1, ![self].data = d]
        /\ Fault \/ NoFault
        /\ UNCHANGED <<mem, seen, drv, up, file, row, lock, rebooting>>
    <3>1. job[self].data \in {"none", "read", "empty"}
      BY DEF Jobs, JobInv, JobOK
    <3> QED
      BY <3>1, <1>2 DEF RunCommand, storage, rest
  <2>3. MovesInterface(self)
        /\ events' \subseteq {"fault", "crash", "reboot", "move", "misfit"}
        /\ "apis" \in DOMAIN budget' /\ budget'.apis \subseteq DOMAIN Bodies
    BY <2>1, <2>2, LeavesInterface DEF Raises
  <2>4. Values'
    BY <2>2, <2>3 DEF Values
  <2>5. GoesOn(self)
    <3>1. /\ DOMAIN job = Thread /\ Numbers(job[self].local)
          /\ DOMAIN job[self] = {"prog", "at", "body", "local", "data"}
      BY DEF Jobs, JobInv
    <3> QED
      BY <2>1, <2>2, <3>1 DEF GoesOn, Advances, Place
  <2> QED
    BY <2>1, <2>3, <2>4, <2>5 DEF Keeps
<1>3. CASE Reboots(self)
  <2>1. AtStep(self) /\ st.op = "reboot"
    BY <1>3, Places DEF Reboots
  <2>2. /\ Continue(self)
        /\ rebooting' = TRUE \/ rebooting' = rebooting
        /\ Fault \/ NoFault
        /\ UNCHANGED <<mem, seen, drv, up, file, row, lock>>
    BY <1>3 DEF Reboots, storage
  <2>3. MovesInterface(self)
        /\ events' \subseteq {"fault", "crash", "reboot", "move", "misfit"}
        /\ "apis" \in DOMAIN budget' /\ budget'.apis \subseteq DOMAIN Bodies
    BY <2>1, <2>2, LeavesInterface DEF Raises
  <2>4. Values'
    BY <2>2, <2>3 DEF Values
  <2>5. GoesOn(self)
    BY <2>1, <2>2, Leaves
  <2> QED
    BY <2>1, <2>3, <2>4, <2>5 DEF Keeps
<1> QED
  BY <1>1, <1>2, <1>3

\* A condition skips the steps of its own, or none.
LEMMA Branching ==
  ASSUME Values, Jobs, NEW self \in Thread,
         Branch(self) \/ Mutex(self) \/ update_wtsl_node_basicinfo(self)
  PROVE  Keeps(self)
<1> DEFINE st == Now(self)
<1>1. CASE Branch(self)
  <2> DEFINE Goto(taken) == job' = [job EXCEPT ![self].at =
                                      @ + 1 + (IF taken THEN 0 ELSE st.name)]
  <2>1. AtStep(self) /\ st.op = "if"
    <3>1. At(self, {"if"})
      BY <1>1, Zenon DEF Branch
    <3> QED
      BY <3>1, Places
  <2>2. /\ \/ Goto(Holds(self, st.arg)) /\ NoFault
           \/ Fault /\ \E b \in BOOLEAN : Goto(b)
        /\ UNCHANGED <<mem, seen, storage, row, lock, answer, rest>>
    BY <1>1 DEF Branch
  <2>3. \/ job' = [job EXCEPT ![self].at = @ + 1 + 0]
        \/ job' = [job EXCEPT ![self].at = @ + 1 + st.name]
    <3> DEFINE h == Holds(self, st.arg)
    <3>1. \/ Goto(h)
          \/ \E b \in BOOLEAN : Goto(b)
      BY <2>2
    <3> HIDE DEF h, st
    <3> QED
      BY <3>1
  <2>4. /\ Fault \/ NoFault
        /\ UNCHANGED <<mem, seen, drv, up, file, row, lock, rebooting>>
    BY <2>2 DEF storage, rest
  <2>5. MovesInterface(self)
        /\ events' \subseteq {"fault", "crash", "reboot", "move", "misfit"}
        /\ "apis" \in DOMAIN budget' /\ budget'.apis \subseteq DOMAIN Bodies
    BY <2>1, <2>4, LeavesInterface DEF Raises
  <2>6. Values'
    BY <2>4, <2>5 DEF Values
  <2>7. GoesOn(self)
    <3>1. /\ DOMAIN job = Thread /\ Numbers(job[self].local)
          /\ DOMAIN job[self] = {"prog", "at", "body", "local", "data"}
          /\ job[self].data \in {"none", "read", "empty"} /\ job[self].at \in Nat
      BY <2>1 DEF Jobs, JobInv, JobOK, AtStep, Place
    <3>2. st.name \in Nat
      BY <2>1 DEF AtStep, StepOK
    <3>3. CASE job' = [job EXCEPT ![self].at = @ + 1 + 0]
      <4>1. Advances(self, Place(self) + 1)
        BY <2>1, <3>1, <3>3 DEF Advances, Place
      <4> QED
        BY <4>1 DEF GoesOn
    <3>4. CASE job' = [job EXCEPT ![self].at = @ + 1 + st.name]
      <4>1. Advances(self, Place(self) + 1 + Now(self).name)
        BY <2>1, <3>1, <3>2, <3>4 DEF Advances, Place
      <4> QED
        BY <4>1, <2>1 DEF GoesOn
    <3> QED
      BY <2>3, <3>3, <3>4
  <2> QED
    BY <2>1, <2>5, <2>6, <2>7 DEF Keeps
<1>2. CASE Mutex(self)
  <2>1. AtStep(self) /\ st.op \in {"lock", "unlock"}
    BY <1>2, Places DEF Mutex
  <2>2. /\ Continue(self) /\ lock' \in Thread \cup {"none"} /\ NoFault
        /\ UNCHANGED <<mem, seen, drv, up, file, row, rebooting>>
    BY <1>2 DEF Mutex, storage, rest, NoFault
  <2>3. MovesInterface(self)
        /\ events' \subseteq {"fault", "crash", "reboot", "move", "misfit"}
        /\ "apis" \in DOMAIN budget' /\ budget'.apis \subseteq DOMAIN Bodies
    BY <2>1, <2>2, LeavesInterface DEF Raises
  <2>4. Values'
    BY <2>2, <2>3 DEF Values
  <2>5. GoesOn(self)
    BY <2>1, <2>2, Leaves
  <2> QED
    BY <2>1, <2>3, <2>4, <2>5 DEF Keeps
<1>3. CASE update_wtsl_node_basicinfo(self)
  <2>1. AtStep(self) /\ st.op = "row"
    BY <1>3, Places DEF update_wtsl_node_basicinfo
  <2>2. BasicOf(mem) \in [Basic -> Int]
    BY DEF BasicOf, Values, Basic, Params
  <2>3. /\ Continue(self) /\ NoFault
        /\ row' = row \/ row' = BasicOf(mem)
        /\ UNCHANGED <<mem, seen, drv, up, file, lock, rebooting>>
    BY <1>3 DEF update_wtsl_node_basicinfo, storage, rest, NoFault
  <2>4. MovesInterface(self)
        /\ events' \subseteq {"fault", "crash", "reboot", "move", "misfit"}
        /\ "apis" \in DOMAIN budget' /\ budget'.apis \subseteq DOMAIN Bodies
    BY <2>1, <2>3, LeavesInterface DEF Raises
  <2>5. Values'
    BY <2>2, <2>3, <2>4 DEF Values
  <2>6. GoesOn(self)
    BY <2>1, <2>3, Leaves
  <2> QED
    BY <2>1, <2>4, <2>5, <2>6 DEF Keeps
<1> QED
  BY <1>1, <1>2, <1>3

-----------------------------------------------------------------------------
(***************************************************************************)
(* The beginnings and the ends of functions                                *)
(***************************************************************************)
\* A thread that starts a function is at its first step.
LEMMA Begins ==
  ASSUME NEW t \in Thread, NEW a \in Runs[t], NEW b, Valued(b)
  PROVE  JobInv(t, Job(a, b))
<1>1. a \in DOMAIN Program => Len(Program[a]) \in Nat
  BY Programs DEF Good, Fragment, IsSeq
<1>2. Numbers(<<>>)
  BY DEF Numbers
<1>3. a \in DOMAIN Program \cup {"idle", "done"}
  BY Programs DEF Runs, Thread
<1>4. /\ DOMAIN Job(a, b) = {"prog", "at", "body", "local", "data"}
      /\ Job(a, b).prog = a /\ Job(a, b).at = 1 /\ Job(a, b).body = b
      /\ Job(a, b).local = <<>> /\ Job(a, b).data = "none"
  BY DEF Job
<1> QED
  BY <1>1, <1>2, <1>3, <1>4 DEF JobInv, JobOK

\* The names of what runs.
LEMMA Names ==
  /\ "idle" \notin DOMAIN Program /\ "done" \notin DOMAIN Program
  /\ \A a \in DOMAIN GetApi \cup DOMAIN PostApi : a \notin {"boot", "pass", "idle", "done"}
BY Programs DEF GetApi, PostApi

\* A function has raised the interface when it ends.
LEMMA Returning ==
  ASSUME Values, Jobs, BootsFirst, Raising, NEW self \in Thread, Return(self)
  PROVE  Values' /\ Jobs' /\ BootsFirst' /\ Raising'
<1> DEFINE P == Program[job[self].prog]
<1>1. /\ job[self].prog \in DOMAIN Program /\ job[self].at > Len(P)
      /\ UNCHANGED <<mem, seen, drv, up, file, row, lock, rebooting, budget, events>>
  BY DEF Return, storage
<1>2. /\ self = "main" => job' = [job EXCEPT ![self] = Job("done", <<>>)]
      /\ self # "main" => job' = [job EXCEPT ![self] = Idle]
  BY DEF Return
<1>3. Values'
  BY <1>1 DEF Values
<1>4. DOMAIN job = Thread /\ JobInv(self, job[self])
  BY DEF Jobs
<1>5. Jobs'
  <2>1. JobInv("main", Job("done", <<>>)) /\ JobInv(self, Idle)
    BY NoLits, Begins DEF Runs, Thread, Idle
  <2> QED
    BY <1>2, <1>4, <2>1 DEF Jobs
<1>6. /\ job["main"].prog \in {"boot", "done", "idle"}
      /\ job["watcher"].prog \in {"pass", "idle"}
  BY DEF Jobs, JobInv, Runs, Thread
<1>7. Idle.prog = "idle" /\ Job("done", <<>>).prog = "done"
  BY DEF Idle, Job
<1>8. BootsFirst'
  BY <1>1, <1>2, <1>4, <1>6, <1>7, Names DEF BootsFirst, Thread
<1>9. ~Ahead(P, job[self].at)
  <2>1. Len(P) \in Nat /\ job[self].at \in Nat
    BY <1>1, <1>4, Programs DEF JobInv, JobOK, Good, Fragment, IsSeq
  <2> QED
    BY <1>1, <2>1 DEF Ahead
<1> SUFFICES ASSUME "fault" \notin events
             PROVE  Raising'
  BY <1>1, <1>3, <1>5, <1>8 DEF Raising
<1>10. CASE self = "main"
  <2>1. job["main"].prog = "boot" /\ job["http"].prog = "idle"
    BY <1>1, <1>6, <1>10, Names DEF BootsFirst
  <2>2. up
    BY <2>1, <1>9, <1>10 DEF Raising
  <2>3. up' /\ job'["main"].prog = "done" /\ job'["http"].prog = "idle"
    BY <2>1, <2>2, <1>1, <1>2, <1>4, <1>7, <1>10 DEF Thread
  <2> QED
    BY <2>3 DEF Raising
<1>11. CASE self = "http"
  <2>1. job["main"].prog = "done" /\ job["http"].prog # "idle"
    BY <1>1, <1>11, Names DEF BootsFirst
  <2>2. up
    BY <2>1, <1>9, <1>11 DEF Raising
  <2>3. up' /\ job'["main"].prog = "done" /\ job'["http"].prog = "idle"
    BY <2>1, <2>2, <1>1, <1>2, <1>4, <1>7, <1>11 DEF Thread
  <2> QED
    BY <2>3 DEF Raising
<1>12. CASE self = "watcher"
  <2>1. job'["main"] = job["main"] /\ job'["http"] = job["http"] /\ up' = up /\ events' = events
    BY <1>1, <1>2, <1>4, <1>12 DEF Thread
  <2> QED
    BY <2>1 DEF Raising, Quiet, Running
<1> QED
  BY <1>10, <1>11, <1>12 DEF Thread

\* A request finds the interface up.
LEMMA Requesting ==
  ASSUME IInv, Request
  PROVE  IInv'
<1>1. /\ Values /\ Jobs /\ BootsFirst /\ Raising /\ Running /\ job["http"].prog = "idle"
      /\ budget' = [budget EXCEPT !.requests = @ - 1]
      /\ UNCHANGED <<mem, seen, drv, up, file, row, lock, rebooting, events>>
  BY DEF IInv, Request, storage
<1>2. PICK a \in budget.apis : \E b \in Bodies[a] :
        UNCHANGED job \/ job' = [job EXCEPT !["http"] = Job(a, b)]
  BY DEF Request
<1>3. PICK b \in Bodies[a] : UNCHANGED job \/ job' = [job EXCEPT !["http"] = Job(a, b)]
  BY <1>2
<1>4. Values'
  BY <1>1 DEF Values
<1>5. a \in DOMAIN Bodies
  BY <1>1 DEF Values
<1>6. a \in DOMAIN GetApi \cup DOMAIN PostApi /\ Valued(b)
  BY <1>5, RequestAssumption DEF Valued
<1>7. CASE UNCHANGED job
  BY <1>1, <1>4, <1>7 DEF IInv, Jobs, BootsFirst, Raising, Quiet, Running
<1>8. CASE job' = [job EXCEPT !["http"] = Job(a, b)]
  <2>1. JobInv("http", Job(a, b))
    BY <1>6, Begins DEF Runs, Thread
  <2>2. Jobs'
    BY <1>1, <1>8, <2>1 DEF Jobs, Thread
  <2>3. /\ job'["main"] = job["main"] /\ job["main"].prog = "done"
        /\ job'["http"].prog = a /\ a # "idle"
    BY <1>1, <1>6, <1>8, Names DEF Jobs, Thread, Job, Running
  <2>4. BootsFirst'
    BY <2>3 DEF BootsFirst
  <2>5. "fault" \notin events' => up'
    BY <1>1 DEF Raising, Quiet
  <2> QED
    BY <1>4, <2>2, <2>3, <2>4, <2>5 DEF IInv, Raising, Quiet
<1> QED
  BY <1>3, <1>7, <1>8

\* The watcher, the service of the list, and the driver, which moves its channel.
LEMMA Others ==
  ASSUME IInv, WatcherWakes \/ wtsl_core_splink_node_service \/ DriverMoves
  PROVE  IInv'
<1>1. Values /\ Jobs /\ BootsFirst /\ Raising
  BY DEF IInv
<1>2. CASE WatcherWakes
  <2>1. /\ job' = [job EXCEPT !["watcher"] = Job("pass", <<>>)] /\ Running
        /\ UNCHANGED <<mem, seen, drv, up, file, row, lock, rebooting, budget, events>>
    BY <1>2 DEF WatcherWakes, storage, rest
  <2>2. JobInv("watcher", Job("pass", <<>>))
    BY NoLits, Begins DEF Runs, Thread
  <2>3. Jobs'
    BY <1>1, <2>1, <2>2 DEF Jobs, Thread
  <2>4. job'["main"] = job["main"] /\ job'["http"] = job["http"]
    BY <1>1, <2>1 DEF Jobs, Thread
  <2>5. Values'
    BY <1>1, <2>1 DEF Values
  <2> QED
    BY <1>1, <2>1, <2>3, <2>4, <2>5 DEF IInv, BootsFirst, Raising, Quiet, Running
<1>3. CASE wtsl_core_splink_node_service
  <2>1. /\ mem' = [mem EXCEPT !.type = IF mem.node_type = TypeG THEN TypeG ELSE TypeT]
        /\ row' = BasicOf(mem')
        /\ UNCHANGED <<seen, drv, up, file, lock, job, rebooting, budget, events>>
    BY <1>3 DEF wtsl_core_splink_node_service, storage, rest
  <2>2. mem' \in [Params -> Int]
    <3>1. (IF mem.node_type = TypeG THEN TypeG ELSE TypeT) \in Int
      BY DEF TypeG, TypeT
    <3> QED
      BY <1>1, <2>1, <3>1 DEF Values
  <2>3. row' \in [Basic -> Int]
    BY <2>1, <2>2 DEF BasicOf, Basic, Params
  <2>4. Values'
    BY <1>1, <2>1, <2>2, <2>3 DEF Values
  <2> QED
    BY <1>1, <2>1, <2>4 DEF IInv, Jobs, BootsFirst, Raising, Quiet, Running
<1>4. CASE DriverMoves
  <2>1. PICK c \in Drift : drv' = [drv EXCEPT !.channel = c]
    BY <1>4 DEF DriverMoves
  <2>2. /\ budget' = [budget EXCEPT !.moves = @ - 1] /\ events' = events \cup {"move"}
        /\ UNCHANGED <<mem, seen, up, file, row, lock, job, rebooting>>
    BY <1>4 DEF DriverMoves, rest
  <2>3. drv' \in [Radio -> Int]
    BY <1>1, <2>1, RadioAssumption DEF Values
  <2>4. Values'
    BY <1>1, <2>2, <2>3 DEF Values
  <2> QED
    BY <1>1, <2>2, <2>4 DEF IInv, Jobs, BootsFirst, Raising, Quiet, Running
<1> QED
  BY <1>2, <1>3, <1>4

\* The device has been switched on; the file may hold what was saved before.
Starts ==
  /\ Volatile(mem, seen, drv, up, row, lock, job, answer, rebooting)
  /\ events \subseteq {"fault", "crash", "reboot", "move", "misfit"}
  /\ DOMAIN file = Key /\ \A k \in Key : file[k] \in Int \cup {Absent}
  /\ "apis" \in DOMAIN budget /\ budget.apis \subseteq DOMAIN Bodies

\* Static memory is zero, and the boot will raise the interface.
LEMMA Boot == Starts => IInv
<1> SUFFICES ASSUME Starts PROVE IInv
  OBVIOUS
<1>1. /\ mem = [p \in Params |-> 0] /\ seen = [x \in Observed |-> "unset"]
      /\ drv = [p \in Radio |-> 0] /\ up = FALSE
      /\ row = NoRow /\ lock = "none" /\ job = Booting /\ rebooting = FALSE
  BY DEF Starts, Volatile
<1>2. Values
  <2>1. mem \in [Params -> Int] /\ drv \in [Radio -> Int]
        /\ seen \in [Observed -> {"unset", "read", "error"}]
    BY <1>1
  <2> QED
    BY <1>1, <2>1 DEF Starts, Values
<1>3. /\ DOMAIN job = Thread /\ job["main"] = Job("boot", <<>>)
      /\ job["http"] = Job("idle", <<>>) /\ job["watcher"] = Job("idle", <<>>)
  BY <1>1 DEF Booting, Thread, Idle
<1>4. Jobs
  <2>1. /\ JobInv("main", Job("boot", <<>>)) /\ JobInv("http", Job("idle", <<>>))
        /\ JobInv("watcher", Job("idle", <<>>))
    BY NoLits, Begins DEF Runs, Thread
  <2> QED
    BY <1>3, <2>1 DEF Jobs, Thread
<1>5. /\ job["main"].prog = "boot" /\ job["main"].at = 1
      /\ job["http"].prog = "idle" /\ job["watcher"].prog = "idle"
  BY <1>3 DEF Job
<1>6. Ahead(Program["boot"], 1)
  BY Programs DEF Boots, Lifts
<1> QED
  BY <1>2, <1>4, <1>5, <1>6 DEF IInv, BootsFirst, Raising, Quiet, Running

\* What holds at first holds after a restart.
LEMMA Restarting ==
  ASSUME IInv, Restart
  PROVE  IInv'
<1>1. Volatile(mem', seen', drv', up', row', lock', job', answer', rebooting')
  BY DEF Restart
<1>2. /\ UNCHANGED file
      /\ events' \subseteq {"fault", "crash", "reboot", "move", "misfit"}
      /\ "apis" \in DOMAIN budget' /\ budget'.apis \subseteq DOMAIN Bodies
  BY DEF IInv, Values, Restart
<1>3. Starts'
  BY <1>1, <1>2 DEF IInv, Values, Starts, Volatile
<1> QED
  BY <1>3, Boot, PTL

-----------------------------------------------------------------------------
(***************************************************************************)
(* The theorems                                                            *)
(***************************************************************************)
\* The device is switched on for the first time.
LEMMA InitIInv == Init => IInv
<1> SUFFICES ASSUME Init PROVE Starts
  BY Boot
<1>1. "apis" \in DOMAIN budget /\ budget.apis \subseteq DOMAIN Bodies
  BY BudgetAssumption DEF Init
<1> QED
  BY <1>1 DEF Init, Starts

\* Every step of every thread, and whatever else happens, keeps the invariant.
LEMMA NextIInv == IInv /\ [Next]_vars => IInv'
<1> SUFFICES ASSUME IInv, [Next]_vars PROVE IInv'
  OBVIOUS
<1>0. Values /\ Jobs /\ BootsFirst /\ Raising
  BY DEF IInv
<1>1. ASSUME NEW self \in Thread, Step(self)
      PROVE  IInv'
  <2>1. CASE Return(self)
    BY <2>1, <1>0, Returning DEF IInv
  <2>2. CASE ~Return(self)
    <3>1. Keeps(self)
      BY <2>2, <1>0, <1>1, Setting, Getting, Querying, Computing, Filing, Commanding,
         Testing, Branching DEF Step
    <3> QED
      BY <3>1, <1>0, JobsKept, RaisingKept DEF Keeps, IInv
  <2> QED
    BY <2>1, <2>2
<1>2. CASE Request
  BY <1>2, Requesting
<1>3. CASE WatcherWakes \/ wtsl_core_splink_node_service \/ DriverMoves
  BY <1>3, Others
<1>4. CASE Restart
  BY <1>4, Restarting
<1>5. CASE UNCHANGED vars
  BY <1>5 DEF vars, IInv, Values, Jobs, BootsFirst, Raising, Quiet, Running
<1> QED
  BY <1>1, <1>2, <1>3, <1>4, <1>5 DEF Next

\* Types of the variables: whatever the requests, the driver and the faults do,
\* parameters stay numbers, the file holds numbers or nothing, and every thread is at a
\* step of a function of its own.
THEOREM NodeTypeCorrect == Spec => []TypeOK
<1>1. IInv => TypeOK
  BY DEF IInv, Values, Jobs, JobInv, TypeOK
<1> QED
  BY <1>1, InitIInv, NextIInv, PTL DEF Spec

\* The setters take vap0 down and leave it to their callers to bring it up again: for all
\* requests there may be, the interface is up between them, unless a command has failed.
THEOREM InterfaceComesBack == Spec => []InterfaceRestored
<1>1. IInv => InterfaceRestored
  BY DEF IInv, Raising, InterfaceRestored
<1> QED
  BY <1>1, InitIInv, NextIInv, PTL DEF Spec

=============================================================================
