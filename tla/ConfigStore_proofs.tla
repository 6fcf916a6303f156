------------------------- MODULE ConfigStore_proofs -------------------------
(***************************************************************************)
(* The configuration file implements an atomic map, for any callers, keys, *)
(* values and contents of the file, if no write to the temporary file      *)
(* fails, env_config can be opened and no data is lost after a rename.     *)
(***************************************************************************)
EXTENDS ConfigStore, WellFoundedInduction, TLAPS

\* The faults under which the file implements the map.
Benign == Faults \subseteq {"tmp", "rename"}

-----------------------------------------------------------------------------
\* A set of numbers that is not empty has a least one.
LEMMA LeastNumber ==
  ASSUME NEW S, S \subseteq Nat, S # {}
  PROVE  \E n \in S : \A m \in S : n <= m
<1>1. PICK x \in S : \A y \in S : ~ (<<y, x>> \in OpToRel(<, Nat))
  BY NatLessThanWellFounded, WFMin, Zenon
<1>2. \A y \in S : ~ (<<y, x>> \in {ss \in Nat \X Nat : ss[1] < ss[2]})
  BY <1>1, Zenon DEF OpToRel
<1>3. ASSUME NEW y \in S, y < x PROVE FALSE
  <2>1. <<y, x>> \in Nat \X Nat
    OBVIOUS
  <2>2. <<y, x>>[1] < <<y, x>>[2]
    BY <1>3
  <2> QED
    BY <2>1, <2>2, <1>2, Zenon
<1> QED
  BY <1>3

\* There is a first line with a key that some line has, and only one.
LEMMA FirstLine ==
  ASSUME NEW lines \in Seq(Line), NEW k, \E i \in DOMAIN lines : lines[i].key = k
  PROVE  /\ \E i \in DOMAIN lines : IsFirst(lines, k, i)
         /\ \A i, j \in DOMAIN lines : IsFirst(lines, k, i) /\ IsFirst(lines, k, j) => i = j
<1> DEFINE S == {i \in DOMAIN lines : lines[i].key = k}
<1>1. S \subseteq Nat /\ S # {}
  OBVIOUS
<1>2. \E n \in S : \A m \in S : n <= m
  BY <1>1, LeastNumber
<1>3. \E i \in DOMAIN lines : IsFirst(lines, k, i)
  BY <1>2 DEF IsFirst
<1>4. ASSUME NEW i \in DOMAIN lines, NEW j \in DOMAIN lines,
             IsFirst(lines, k, i), IsFirst(lines, k, j)
      PROVE  i = j
  BY <1>4 DEF IsFirst
<1> QED
  BY <1>3, <1>4

\* What config_get returns is the value of the first line with the key.
LEMMA LookupFirst ==
  ASSUME NEW lines \in Seq(Line), NEW k, NEW i, IsFirst(lines, k, i)
  PROVE  Lookup(lines, k) = lines[i].value
<1>1. i \in DOMAIN lines /\ lines[i].key = k
  BY DEF IsFirst
<1>2. \A j \in DOMAIN lines : IsFirst(lines, k, j) => j = i
  BY <1>1, FirstLine
<1>3. (CHOOSE j \in DOMAIN lines : IsFirst(lines, k, j)) = i
  BY <1>1, <1>2
<1> QED
  BY <1>1, <1>3 DEF Lookup

\* What config_get returns for a key that no line has.
LEMMA LookupAbsent ==
  ASSUME NEW lines, NEW k, ~ \E i \in DOMAIN lines : lines[i].key = k
  PROVE  Lookup(lines, k) = Absent
  BY DEF Lookup

LEMMA LookupType ==
  ASSUME NEW lines \in Seq(Line), NEW k
  PROVE  Lookup(lines, k) \in Value \cup {Absent}
<1>1. CASE \E i \in DOMAIN lines : lines[i].key = k
  <2>1. PICK i \in DOMAIN lines : IsFirst(lines, k, i)
    BY <1>1, FirstLine
  <2>2. Lookup(lines, k) = lines[i].value
    BY <2>1, LookupFirst
  <2>3. lines[i] \in Line
    OBVIOUS
  <2> QED
    BY <2>2, <2>3 DEF Line
<1>2. CASE ~ \E i \in DOMAIN lines : lines[i].key = k
  BY <1>2, LookupAbsent
<1> QED
  BY <1>1, <1>2

LEMMA RewriteType ==
  ASSUME NEW lines \in Seq(Line), NEW k \in Key, NEW v \in Value
  PROVE  Rewrite(lines, k, v) \in Seq(Line)
<1>1. [key |-> k, value |-> v] \in Line
  BY DEF Line
<1>2. Replaced(lines, k, v) \in Seq(Line)
  BY <1>1 DEF Replaced
<1> QED
  BY <1>1, <1>2 DEF Rewrite

\* The copy that config_set writes differs from the file in the key only,
\* however often and where the key was in it.
LEMMA LookupRewrite ==
  ASSUME NEW lines \in Seq(Line), NEW k \in Key, NEW v \in Value, NEW x \in Key
  PROVE  Lookup(Rewrite(lines, k, v), x) = IF x = k THEN v ELSE Lookup(lines, x)
<1> DEFINE new == Rewrite(lines, k, v)
<1>t. new \in Seq(Line)
  BY RewriteType
<1>1. CASE \E i \in DOMAIN lines : lines[i].key = k
  <2>1. new = Replaced(lines, k, v)
    BY <1>1 DEF Rewrite
  <2>2. DOMAIN new = DOMAIN lines
    BY <2>1 DEF Replaced
  <2>3. \A i \in DOMAIN lines : new[i].key = lines[i].key
    BY <2>1 DEF Replaced
  <2>4. \A i \in DOMAIN lines : new[i].value = IF lines[i].key = k THEN v ELSE lines[i].value
    BY <2>1 DEF Replaced
  <2>5. CASE \E i \in DOMAIN lines : lines[i].key = x
    <3>1. PICK i \in DOMAIN lines : IsFirst(lines, x, i)
      BY <2>5, FirstLine
    <3>2. IsFirst(new, x, i)
      BY <3>1, <2>2, <2>3 DEF IsFirst
    <3>3. Lookup(new, x) = new[i].value
      BY <3>2, <1>t, LookupFirst
    <3>4. Lookup(lines, x) = lines[i].value
      BY <3>1, LookupFirst
    <3>5. lines[i].key = x
      BY <3>1 DEF IsFirst
    <3> QED
      BY <3>3, <3>4, <3>5, <2>4
  <2>6. CASE ~ \E i \in DOMAIN lines : lines[i].key = x
    <3>1. ~ \E i \in DOMAIN new : new[i].key = x
      BY <2>6, <2>2, <2>3
    <3>2. Lookup(new, x) = Absent /\ Lookup(lines, x) = Absent
      BY <3>1, <2>6, LookupAbsent
    <3> QED
      BY <3>2, <2>6, <1>1
  <2> QED
    BY <2>5, <2>6
<1>2. CASE ~ \E i \in DOMAIN lines : lines[i].key = k
  <2>1. new = Append(lines, [key |-> k, value |-> v])
    BY <1>2 DEF Rewrite
  <2>2. DOMAIN new = DOMAIN lines \cup {Len(lines) + 1} /\ DOMAIN lines = 1..Len(lines)
    BY <2>1
  <2>3. new[Len(lines) + 1] = [key |-> k, value |-> v]
    BY <2>1
  <2>4. \A i \in DOMAIN lines : new[i] = lines[i]
    BY <2>1
  <2>5. CASE x = k
    <3>1. IsFirst(new, k, Len(lines) + 1)
      BY <1>2, <2>2, <2>3, <2>4 DEF IsFirst
    <3>2. Lookup(new, k) = new[Len(lines) + 1].value
      BY <3>1, <1>t, LookupFirst
    <3> QED
      BY <3>2, <2>3, <2>5
  <2>6. CASE x # k /\ \E i \in DOMAIN lines : lines[i].key = x
    <3>1. PICK i \in DOMAIN lines : IsFirst(lines, x, i)
      BY <2>6, FirstLine
    <3>2. IsFirst(new, x, i)
      BY <3>1, <2>2, <2>3, <2>4, <2>6 DEF IsFirst
    <3>3. Lookup(new, x) = new[i].value
      BY <3>2, <1>t, LookupFirst
    <3>4. Lookup(lines, x) = lines[i].value
      BY <3>1, LookupFirst
    <3> QED
      BY <3>3, <3>4, <2>4, <2>6
  <2>7. CASE x # k /\ ~ \E i \in DOMAIN lines : lines[i].key = x
    <3>1. ~ \E i \in DOMAIN new : new[i].key = x
      BY <2>7, <2>2, <2>3, <2>4
    <3>2. Lookup(new, x) = Absent /\ Lookup(lines, x) = Absent
      BY <3>1, <2>7, LookupAbsent
    <3> QED
      BY <3>2, <2>7
  <2> QED
    BY <2>5, <2>6, <2>7
<1> QED
  BY <1>1, <1>2

-----------------------------------------------------------------------------
Pcs == {"idle", "check", "lock", "tmp", "orig", "copy", "rename", "read", "unlock",
        "return"}

\* What the invariant says of one caller.
CallerInv(t) ==
  /\ (pc[t] = "idle") = (req[t] = NoRequest)
  /\ Inside(t) => lock = t
  /\ pc[t] \in {"tmp", "orig", "copy", "rename"} =>
       req[t].op = "set" /\ req[t].value \notin BadValue
  /\ pc[t] = "lock" /\ req[t].op = "set" => req[t].value \notin BadValue
  /\ pc[t] = "read" => req[t].op = "get"
  /\ pc[t] = "copy" => old[t] = file
  /\ pc[t] = "rename" => tmp = Rewrite(file, req[t].key, req[t].value)

LEMMA StoreInvIs == StoreInv <=> TypeOK /\ \A t \in Caller : CallerInv(t)
  BY DEF StoreInv, CallerInv

\* The requests of config_set and config_get.
LEMMA RequestType ==
  ASSUME NEW r \in Request
  PROVE  /\ r # NoRequest /\ r.key \in Key /\ r.op \in {"get", "set"}
         /\ r.op = "set" => r.value \in Value
<1>1. CASE r \in [op : {"set"}, key : Key, value : Value]
  BY <1>1 DEF NoRequest
<1>2. CASE r \in [op : {"get"}, key : Key, value : {Absent}]
  BY <1>2 DEF NoRequest
<1> QED
  BY <1>1, <1>2 DEF Request

\* A caller whose call is under way has a request.
LEMMA BusyRequest ==
  ASSUME StoreInv, NEW t \in Caller, pc[t] # "idle"
  PROVE  req[t] \in Request
  BY DEF StoreInv, TypeOK

\* Only one caller at a time is between lock and unlock.
LEMMA OneInside ==
  ASSUME StoreInv, NEW t \in Caller, NEW u \in Caller, Inside(t), Inside(u)
  PROVE  t = u
  BY DEF StoreInv

\* A caller that a step of another leaves alone keeps its part, unless it is
\* between lock and unlock and the files or the mutex change.
LEMMA OthersInv ==
  ASSUME StoreInv, NEW t \in Caller, NEW u \in Caller, u # t,
         pc'[u] = pc[u], req'[u] = req[u], old'[u] = old[u],
         ~Inside(u) \/ UNCHANGED <<file, tmp, lock>>
  PROVE  CallerInv(u)'
<1>1. CallerInv(u)
  BY DEF StoreInv, CallerInv
<1>2. CASE UNCHANGED <<file, tmp, lock>>
  BY <1>1, <1>2 DEF CallerInv, Inside
<1>3. CASE ~Inside(u)
  BY <1>1, <1>3 DEF CallerInv, Inside
<1> QED
  BY <1>2, <1>3

\* The types are kept by every step.
LEMMA TypeStep ==
  ASSUME StoreInv, [Next]_vars
  PROVE  TypeOK'
<1>0. TypeOK
  BY DEF StoreInv
<1>e. <<>> \in Seq(Line)
  OBVIOUS
<1> USE <1>0, <1>e DEF TypeOK
<1>1. ASSUME NEW t \in Caller, Call(t) PROVE TypeOK'
  BY <1>1 DEF Call, Goto
<1>2. ASSUME NEW t \in Caller, Check(t) PROVE TypeOK'
  BY <1>2 DEF Check, Goto, Answer
<1>3. ASSUME NEW t \in Caller, Acquire(t) PROVE TypeOK'
  BY <1>3 DEF Acquire, Goto
<1>4. ASSUME NEW t \in Caller, OpenTmp(t) PROVE TypeOK'
  BY <1>4 DEF OpenTmp, Goto, Answer
<1>5. ASSUME NEW t \in Caller, OpenOrig(t) PROVE TypeOK'
  BY <1>5 DEF OpenOrig, Goto
<1>6. ASSUME NEW t \in Caller, Copy(t) PROVE TypeOK'
  <2> DEFINE all == Rewrite(old[t], req[t].key, req[t].value)
  <2>1. req[t] \in Request /\ req[t].op = "set"
    BY <1>6, BusyRequest DEF Copy, StoreInv
  <2>2. all \in Seq(Line)
    BY <2>1, RequestType, RewriteType
  <2>3. \A n \in 0..Len(all) : SubSeq(all, 1, n) \in Seq(Line)
    BY <2>2
  <2>4. tmp' \in Seq(Line)
    BY <1>6, <2>2, <2>3 DEF Copy
  <2> QED
    BY <1>6, <2>4 DEF Copy, Goto
<1>7. ASSUME NEW t \in Caller, Rename(t) PROVE TypeOK'
  BY <1>7 DEF Rename, Goto, Answer
<1>8. ASSUME NEW t \in Caller, Read(t) PROVE TypeOK'
  <2>1. Lookup(file, req[t].key) \in Value \cup {Absent}
    BY LookupType
  <2> QED
    BY <1>8, <2>1 DEF Read, Goto, Answer
<1>9. ASSUME NEW t \in Caller, Release(t) PROVE TypeOK'
  BY <1>9 DEF Release, Goto
<1>10. ASSUME NEW t \in Caller, Return(t) PROVE TypeOK'
  BY <1>10 DEF Return, Goto, Answer
<1>11. CASE Restart
  BY <1>11 DEF Restart, Volatile
<1>12. CASE UNCHANGED vars
  BY <1>12 DEF vars
<1> QED
  BY <1>1, <1>2, <1>3, <1>4, <1>5, <1>6, <1>7, <1>8, <1>9, <1>10, <1>11, <1>12
     DEF Next, Step

\* What the invariant says of the caller that makes a step.
LEMMA OwnInv ==
  ASSUME StoreInv, Benign, NEW t \in Caller, Call(t) \/ Step(t)
  PROVE  CallerInv(t)'
<1>0. TypeOK /\ CallerInv(t)
  BY DEF StoreInv, CallerInv
<1> USE <1>0 DEF TypeOK, CallerInv, Inside
<1>1. CASE Call(t)
  <2>1. req'[t] \in Request /\ pc'[t] = "check"
    BY <1>1 DEF Call, Goto
  <2>2. req'[t] # NoRequest
    BY <2>1, RequestType
  <2> QED
    BY <2>1, <2>2
<1>2. CASE Check(t)
  BY <1>2, BusyRequest, RequestType DEF Check, Goto, Answer
<1>3. CASE Acquire(t)
  <2>1. req[t] \in Request /\ req[t].op \in {"get", "set"}
    BY <1>3, BusyRequest, RequestType DEF Acquire
  <2> QED
    BY <1>3, <2>1 DEF Acquire, Goto
<1>4. CASE OpenTmp(t)
  BY <1>4 DEF OpenTmp, Goto, Answer
<1>5. CASE OpenOrig(t)
  BY <1>5 DEF OpenOrig, Goto, Benign
<1>6. CASE Copy(t)
  <2>1. tmp' = Rewrite(file, req[t].key, req[t].value) /\ pc'[t] = "rename"
    BY <1>6 DEF Copy, Goto, Benign
  <2> QED
    BY <1>6, <2>1 DEF Copy
<1>7. CASE Rename(t)
  BY <1>7 DEF Rename, Goto, Answer
<1>8. CASE Read(t)
  BY <1>8 DEF Read, Goto, Answer
<1>9. CASE Release(t)
  BY <1>9 DEF Release, Goto
<1>10. CASE Return(t)
  BY <1>10 DEF Return, Goto, Answer
<1> QED
  BY <1>1, <1>2, <1>3, <1>4, <1>5, <1>6, <1>7, <1>8, <1>9, <1>10 DEF Step

\* A step leaves the calls of others alone, and the files and the mutex if
\* another caller is between lock and unlock.
LEMMA StepFrame ==
  ASSUME StoreInv, NEW t \in Caller, Call(t) \/ Step(t), NEW u \in Caller, u # t
  PROVE  /\ pc'[u] = pc[u] /\ req'[u] = req[u] /\ old'[u] = old[u]
         /\ ~Inside(u) \/ UNCHANGED <<file, tmp, lock>>
<1>0. TypeOK /\ (Inside(u) => lock = u) /\ (Inside(t) => lock = t)
  BY DEF StoreInv
<1>1. Inside(u) => ~Inside(t) /\ lock # "nobody"
  BY <1>0, StoreAssumption
<1> USE <1>0, <1>1 DEF TypeOK, Inside, Goto, Answer
<1>2. CASE Call(t)
  BY <1>2 DEF Call
<1>3. CASE Check(t)
  BY <1>3 DEF Check
<1>4. CASE Acquire(t)
  BY <1>4 DEF Acquire
<1>5. CASE OpenTmp(t)
  BY <1>5 DEF OpenTmp
<1>6. CASE OpenOrig(t)
  BY <1>6 DEF OpenOrig
<1>7. CASE Copy(t)
  BY <1>7 DEF Copy
<1>8. CASE Rename(t)
  BY <1>8 DEF Rename
<1>9. CASE Read(t)
  BY <1>9 DEF Read
<1>10. CASE Release(t)
  BY <1>10 DEF Release
<1>11. CASE Return(t)
  BY <1>11 DEF Return
<1> QED
  BY <1>2, <1>3, <1>4, <1>5, <1>6, <1>7, <1>8, <1>9, <1>10, <1>11 DEF Step

LEMMA StoreInit == Init => StoreInv
<1> SUFFICES ASSUME Init PROVE StoreInv
  OBVIOUS
<1>1. TypeOK
  BY StoreAssumption DEF Init, Volatile, TypeOK
<1>2. \A t \in Caller : CallerInv(t)
  BY DEF Init, Volatile, CallerInv, Inside
<1> QED
  BY <1>1, <1>2, StoreInvIs

LEMMA StoreStep ==
  ASSUME StoreInv, Benign, [Next]_vars
  PROVE  StoreInv'
<1>1. TypeOK'
  BY TypeStep
<1>2. ASSUME NEW t \in Caller, Call(t) \/ Step(t), NEW u \in Caller
      PROVE  CallerInv(u)'
  <2>1. CASE u = t
    BY <2>1, <1>2, OwnInv
  <2>2. CASE u # t
    BY <2>2, <1>2, StepFrame, OthersInv
  <2> QED
    BY <2>1, <2>2
<1>3. ASSUME Restart, NEW u \in Caller
      PROVE  CallerInv(u)'
  BY <1>3 DEF Restart, Volatile, CallerInv, Inside
<1>4. ASSUME UNCHANGED vars, NEW u \in Caller
      PROVE  CallerInv(u)'
  BY <1>4, StoreInvIs DEF vars, CallerInv, Inside
<1>5. \A u \in Caller : CallerInv(u)'
  BY <1>2, <1>3, <1>4 DEF Next
<1> QED
  BY <1>1, <1>5 DEF StoreInv, CallerInv

\* config_set and config_get keep the mutex to one caller at a time, copy what
\* the file holds, and the copy that is renamed is the file with the one key
\* changed; with any number of callers and at every restart.
THEOREM StoreCorrect ==
  ASSUME Benign
  PROVE  Spec => []StoreInv
<1>1. Init => StoreInv
  BY StoreInit
<1>2. StoreInv /\ [Next]_vars => StoreInv'
  BY StoreStep
<1> QED
  BY <1>1, <1>2, PTL DEF Spec

-----------------------------------------------------------------------------
\* The state of a call in the map, as a function of where its caller is.
Phase(l) == IF l = "idle" THEN "idle"
            ELSE IF l \in {"unlock", "return"} THEN "done" ELSE "called"

LEMMA PhaseOf == stateBar = [t \in Caller |-> Phase(pc[t])]
  BY DEF stateBar, Phase

\* A step of a caller changes the state of its own call at most.
LEMMA PhaseStep ==
  ASSUME TypeOK, NEW t \in Caller, NEW l \in Pcs, Goto(t, l)
  PROVE  stateBar' = [stateBar EXCEPT ![t] = Phase(l)]
  BY DEF TypeOK, stateBar, Phase, Goto, Pcs

LEMMA PhaseSame ==
  ASSUME TypeOK, NEW t \in Caller, NEW l \in Pcs, Goto(t, l), Phase(l) = Phase(pc[t])
  PROVE  stateBar' = stateBar
  BY DEF TypeOK, stateBar, Phase, Goto, Pcs

LEMMA MapSame ==
  ASSUME file' = file
  PROVE  mapBar' = mapBar
  BY DEF mapBar

\* The rename is the moment at which the key changes in the map.
LEMMA MapRename ==
  ASSUME file \in Seq(Line), NEW k \in Key, NEW v \in Value,
         file' = Rewrite(file, k, v)
  PROVE  mapBar' = [mapBar EXCEPT ![k] = v]
<1>1. \A x \in Key : Lookup(Rewrite(file, k, v), x) = IF x = k THEN v ELSE Lookup(file, x)
  BY LookupRewrite
<1>2. mapBar' = [x \in Key |-> Lookup(Rewrite(file, k, v), x)]
  BY DEF mapBar
<1> QED
  BY <1>1, <1>2 DEF mapBar

LEMMA MapInitial == Init => Map!MapInit
<1> SUFFICES ASSUME Init PROVE Map!MapInit
  OBVIOUS
<1>1. mapBar \in [Key -> Value \cup {Absent}]
  <2>1. file \in Seq(Line)
    BY StoreAssumption DEF Init
  <2> QED
    BY <2>1, LookupType DEF mapBar
<1>2. stateBar = [t \in Caller |-> "idle"]
  BY DEF Init, Volatile, stateBar
<1> QED
  BY <1>1, <1>2 DEF Init, Volatile, Map!MapInit, Map!NoRequest, NoRequest

\* Every step of the program is a step of the map or leaves it as it is.
LEMMA MapStep ==
  ASSUME StoreInv, Benign, [Next]_vars
  PROVE  [Map!MapNext]_(Map!mapVars)
<1>0. TypeOK /\ \A t \in Caller : CallerInv(t)
  BY StoreInvIs
<1> DEFINE Same == UNCHANGED <<mapBar, stateBar, req, res>>
<1>s. Same => [Map!MapNext]_(Map!mapVars)
  BY DEF Map!mapVars
<1>1. ASSUME NEW t \in Caller, Call(t) PROVE Map!Begin(t)
  <2>1. Goto(t, "check") /\ pc[t] = "idle" /\ file' = file
    BY <1>1 DEF Call
  <2>2. stateBar' = [stateBar EXCEPT ![t] = "called"] /\ stateBar[t] = "idle"
    BY <2>1, <1>0, PhaseStep, PhaseOf DEF Phase, Pcs
  <2> QED
    BY <1>1, <2>1, <2>2, MapSame DEF Call, Map!Begin, Map!Request, Request
<1>2. ASSUME NEW t \in Caller, Check(t) PROVE Map!Serve(t) \/ Same
  <2>1. pc[t] = "check" /\ file' = file /\ req' = req
    BY <1>2 DEF Check
  <2>2. CASE req[t].op = "set" /\ req[t].value \in BadValue
    <3>1. Goto(t, "return") /\ res' = [res EXCEPT ![t] = "invalid"]
      BY <1>2, <2>2 DEF Check, Answer
    <3>2. stateBar' = [stateBar EXCEPT ![t] = "done"] /\ stateBar[t] = "called"
      BY <3>1, <2>1, <1>0, PhaseStep, PhaseOf DEF Phase, Pcs
    <3> QED
      BY <2>1, <2>2, <3>1, <3>2, MapSame DEF Map!Serve
  <2>3. CASE ~ (req[t].op = "set" /\ req[t].value \in BadValue)
    <3>1. Goto(t, "lock") /\ res' = res
      BY <1>2, <2>3 DEF Check
    <3> QED
      BY <2>1, <3>1, <1>0, PhaseSame, MapSame DEF Phase, Pcs
  <2> QED
    BY <2>2, <2>3
<1>3. ASSUME NEW t \in Caller, Acquire(t) PROVE Same
  <2>1. pc[t] = "lock" /\ UNCHANGED <<file, req, res>>
        /\ (Goto(t, "tmp") \/ Goto(t, "read"))
    BY <1>3 DEF Acquire
  <2> QED
    BY <2>1, <1>0, PhaseSame, MapSame DEF Phase, Pcs
<1>4. ASSUME NEW t \in Caller, OpenTmp(t) PROVE Map!Serve(t) \/ Same
  <2>1. pc[t] = "tmp" /\ UNCHANGED <<file, req>>
    BY <1>4 DEF OpenTmp
  <2>2. CASE Goto(t, "orig") /\ UNCHANGED res
    BY <2>1, <2>2, <1>0, PhaseSame, MapSame DEF Phase, Pcs
  <2>3. CASE Answer(t, "io", "unlock")
    <3>1. Goto(t, "unlock") /\ res' = [res EXCEPT ![t] = "io"]
      BY <2>3 DEF Answer
    <3>2. stateBar' = [stateBar EXCEPT ![t] = "done"] /\ stateBar[t] = "called"
      BY <3>1, <2>1, <1>0, PhaseStep, PhaseOf DEF Phase, Pcs
    <3>3. req[t].op = "set" /\ req[t].value \notin BadValue
      BY <2>1, <1>0 DEF CallerInv
    <3> QED
      BY <2>1, <3>1, <3>2, <3>3, MapSame DEF Map!Serve
  <2> QED
    BY <1>4, <2>2, <2>3 DEF OpenTmp
<1>5. ASSUME NEW t \in Caller, OpenOrig(t) PROVE Same
  <2>1. pc[t] = "orig" /\ UNCHANGED <<file, req, res>> /\ Goto(t, "copy")
    BY <1>5 DEF OpenOrig
  <2> QED
    BY <2>1, <1>0, PhaseSame, MapSame DEF Phase, Pcs
<1>6. ASSUME NEW t \in Caller, Copy(t) PROVE Same
  <2>1. pc[t] = "copy" /\ UNCHANGED <<file, req, res>> /\ Goto(t, "rename")
    BY <1>6 DEF Copy
  <2> QED
    BY <2>1, <1>0, PhaseSame, MapSame DEF Phase, Pcs
<1>7. ASSUME NEW t \in Caller, Rename(t) PROVE Map!Serve(t)
  <2>1. pc[t] = "rename" /\ req' = req /\ Goto(t, "unlock")
    BY <1>7 DEF Rename, Answer
  <2>2. stateBar' = [stateBar EXCEPT ![t] = "done"] /\ stateBar[t] = "called"
    BY <2>1, <1>0, PhaseStep, PhaseOf DEF Phase, Pcs
  <2>3. req[t].op = "set" /\ req[t].value \notin BadValue
        /\ tmp = Rewrite(file, req[t].key, req[t].value)
    BY <2>1, <1>0 DEF CallerInv
  <2>4. req[t].key \in Key /\ req[t].value \in Value
    BY <2>1, <2>3, BusyRequest, RequestType
  <2>5. CASE file' = tmp /\ Answer(t, "success", "unlock")
    <3>1. mapBar' = [mapBar EXCEPT ![req[t].key] = req[t].value]
      BY <2>3, <2>4, <2>5, <1>0, MapRename DEF TypeOK
    <3> QED
      BY <2>1, <2>2, <2>3, <2>5, <3>1 DEF Map!Serve, Answer
  <2>6. CASE UNCHANGED file /\ Answer(t, "io", "unlock")
    BY <2>1, <2>2, <2>3, <2>6, MapSame DEF Map!Serve, Answer
  <2> QED
    BY <1>7, <2>5, <2>6 DEF Rename
<1>8. ASSUME NEW t \in Caller, Read(t) PROVE Map!Serve(t)
  <2>1. pc[t] = "read" /\ UNCHANGED <<file, req>> /\ Goto(t, "unlock")
        /\ res' = [res EXCEPT ![t] = Lookup(file, req[t].key)]
    BY <1>8 DEF Read, Answer
  <2>2. stateBar' = [stateBar EXCEPT ![t] = "done"] /\ stateBar[t] = "called"
    BY <2>1, <1>0, PhaseStep, PhaseOf DEF Phase, Pcs
  <2>3. req[t].op = "get" /\ req[t].key \in Key
    BY <2>1, <1>0, BusyRequest, RequestType DEF CallerInv
  <2>4. mapBar[req[t].key] = Lookup(file, req[t].key)
    BY <2>3 DEF mapBar
  <2> QED
    BY <2>1, <2>2, <2>3, <2>4, MapSame DEF Map!Serve
<1>9. ASSUME NEW t \in Caller, Release(t) PROVE Same
  <2>1. pc[t] = "unlock" /\ UNCHANGED <<file, req, res>> /\ Goto(t, "return")
    BY <1>9 DEF Release
  <2> QED
    BY <2>1, <1>0, PhaseSame, MapSame DEF Phase, Pcs
<1>10. ASSUME NEW t \in Caller, Return(t) PROVE Map!End(t)
  <2>1. pc[t] = "return" /\ file' = file /\ Goto(t, "idle")
        /\ req' = [req EXCEPT ![t] = NoRequest] /\ res' = [res EXCEPT ![t] = "none"]
    BY <1>10 DEF Return, Answer
  <2>2. stateBar' = [stateBar EXCEPT ![t] = "idle"] /\ stateBar[t] = "done"
    BY <2>1, <1>0, PhaseStep, PhaseOf DEF Phase, Pcs
  <2> QED
    BY <2>1, <2>2, MapSame DEF Map!End, Map!NoRequest, NoRequest
<1>11. ASSUME Restart PROVE Map!MapRestart
  <2>1. file' = file
    BY <1>11 DEF Restart, Benign
  <2>2. stateBar' = [t \in Caller |-> "idle"]
    BY <1>11 DEF Restart, Volatile, stateBar
  <2> QED
    BY <1>11, <2>1, <2>2, MapSame DEF Restart, Volatile, Map!MapRestart, Map!NoRequest, NoRequest
<1>12. ASSUME UNCHANGED vars PROVE Same
  BY <1>12 DEF vars, mapBar, stateBar
<1> HIDE DEF Same
<1> QED
  BY <1>s, <1>1, <1>2, <1>3, <1>4, <1>5, <1>6, <1>7, <1>8, <1>9, <1>10, <1>11, <1>12
     DEF Next, Step, Map!MapNext

\* The file implements the map: config_set and config_get of any callers have
\* the effect of atomic operations, and what a set has stored survives every
\* restart.
THEOREM StoreImplementsMap ==
  ASSUME Benign
  PROVE  Spec => ImplementsMap
<1>1. Init => Map!MapInit
  BY MapInitial
<1>2. StoreInv /\ [Next]_vars => [Map!MapNext]_(Map!mapVars)
  BY MapStep
<1>3. Spec => []StoreInv
  BY StoreCorrect
<1> QED
  BY <1>1, <1>2, <1>3, PTL DEF Spec, ImplementsMap, Map!MapSpec

=============================================================================
