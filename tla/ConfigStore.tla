---------------------------- MODULE ConfigStore ----------------------------
(***************************************************************************)
(* The file env_config and the functions config_set and config_get of      *)
(* wtsl_cfg_manager.c, which many threads call.  config_set writes a       *)
(* changed copy of the file and renames it over the file, under            *)
(* file_mutex.  The process may be killed or the device restarted at every *)
(* step; what else may fail is a parameter.                                *)
(***************************************************************************)
EXTENDS Naturals, Sequences

CONSTANTS
  Caller, Key, Value, BadValue, Absent, \* as in ConfigMap
  Comment, \* stands for the key of a line that is none: comment, empty line
  Faults,  \* what fails: "tmp" and "orig", fopen of the two files by config_set;
           \* "write", fprintf on a full disk; "rename"; "cache", a power loss
           \* finds the renamed file without its data, which was not synced
  Files    \* what the file may hold at the first start: sequences of lines

Line == [key : Key \cup {Comment}, value : Value]

ASSUME StoreAssumption ==
  /\ BadValue \subseteq Value
  /\ Absent \notin Value
  /\ {"none", "success", "io", "invalid"} \cap (Value \cup {Absent}) = {}
  /\ Comment \notin Key
  /\ "nobody" \notin Caller
  /\ Files \subseteq Seq(Line)

VARIABLES
  file,   \* the lines of env_config; none if there is no such file
  tmp,    \* the lines of env_config.tmp
  lock,   \* the caller that holds file_mutex, or "nobody"
  pc,     \* what each caller does next
  old,    \* the lines of env_config when config_set of the caller opened it
  req,    \* the call of each caller
  res     \* and its result

vars == <<file, tmp, lock, pc, old, req, res>>

Request ==
  [op : {"set"}, key : Key, value : Value] \cup [op : {"get"}, key : Key, value : {Absent}]

NoRequest == [op |-> "none"]

Volatile(p, o, q, r, l) ==
  /\ p = [t \in Caller |-> "idle"]
  /\ o = [t \in Caller |-> <<>>]
  /\ q = [t \in Caller |-> NoRequest]
  /\ r = [t \in Caller |-> "none"]
  /\ l = "nobody"

Init ==
  /\ file \in Files /\ tmp = <<>>
  /\ Volatile(pc, old, req, res, lock)

-----------------------------------------------------------------------------
\* The first line with the key, as config_get looks for it.
IsFirst(lines, k, i) ==
  /\ i \in DOMAIN lines /\ lines[i].key = k
  /\ \A j \in DOMAIN lines : lines[j].key = k => i <= j

Lookup(lines, k) ==
  IF \E i \in DOMAIN lines : lines[i].key = k
  THEN lines[CHOOSE i \in DOMAIN lines : IsFirst(lines, k, i)].value
  ELSE Absent

\* The lines of the copy: the key in place wherever it is found, and otherwise
\* at the end.
Replaced(lines, k, v) ==
  [i \in DOMAIN lines |-> IF lines[i].key = k THEN [key |-> k, value |-> v] ELSE lines[i]]

\* Variants with a defect, here and below: named after it.
AlwaysAtEnd_Rewrite(lines, k, v) == Append(lines, [key |-> k, value |-> v])

Rewrite(lines, k, v) ==
  IF \E i \in DOMAIN lines : lines[i].key = k
  THEN Replaced(lines, k, v)
  ELSE Append(lines, [key |-> k, value |-> v])

Goto(t, l) == pc' = [pc EXCEPT ![t] = l]

Answer(t, r, l) == res' = [res EXCEPT ![t] = r] /\ Goto(t, l)

\* Any thread of the program, with any key and value.
Call(t) ==
  /\ pc[t] = "idle"
  /\ \E r \in Request : req' = [req EXCEPT ![t] = r]
  /\ Goto(t, "check")
  /\ UNCHANGED <<file, tmp, lock, old, res>>

\* is_valid_key and is_valid_value; the keys are literals of the program.  What
\* config_get checks is the buffer of its caller, see NodeConfig.
Check(t) ==
  /\ pc[t] = "check"
  /\ IF req[t].op = "set" /\ req[t].value \in BadValue
     THEN Answer(t, "invalid", "return")
     ELSE Goto(t, "lock") /\ UNCHANGED res
  /\ UNCHANGED <<file, tmp, lock, old, req>>

NoMutex_Acquire(t) ==
  /\ pc[t] = "lock"
  /\ Goto(t, IF req[t].op = "set" THEN "tmp" ELSE "read")
  /\ UNCHANGED <<file, tmp, lock, old, req, res>>

Acquire(t) ==
  /\ pc[t] = "lock" /\ lock = "nobody"
  /\ lock' = t
  /\ Goto(t, IF req[t].op = "set" THEN "tmp" ELSE "read")
  /\ UNCHANGED <<file, tmp, old, req, res>>

OpenTmp(t) ==
  /\ pc[t] = "tmp"
  /\ \/ tmp' = <<>> /\ Goto(t, "orig") /\ UNCHANGED res
     \/ "tmp" \in Faults /\ Answer(t, "io", "unlock") /\ UNCHANGED tmp
  /\ UNCHANGED <<file, lock, old, req>>

\* A file that cannot be opened counts as empty.
OpenOrig(t) ==
  /\ pc[t] = "orig"
  /\ \/ old' = [old EXCEPT ![t] = file]
     \/ "orig" \in Faults /\ old' = [old EXCEPT ![t] = <<>>]
  /\ Goto(t, "copy")
  /\ UNCHANGED <<file, tmp, lock, req, res>>

\* The loop over the lines in one step: others have no business with the
\* temporary file, and what it holds is lost when it is opened again.  The
\* results of fprintf, fflush and fclose are not looked at.
Copy(t) ==
  /\ pc[t] = "copy"
  /\ LET all == Rewrite(old[t], req[t].key, req[t].value)
     IN \/ tmp' = all
        \/ "write" \in Faults /\ \E n \in 0..Len(all) : tmp' = SubSeq(all, 1, n)
  /\ Goto(t, "rename")
  /\ UNCHANGED <<file, lock, old, req, res>>

Rename(t) ==
  /\ pc[t] = "rename"
  /\ \/ file' = tmp /\ Answer(t, "success", "unlock")
     \/ "rename" \in Faults /\ Answer(t, "io", "unlock") /\ UNCHANGED file
  /\ tmp' = <<>>
  /\ old' = [old EXCEPT ![t] = <<>>]
  /\ UNCHANGED <<lock, req>>

Read(t) ==
  /\ pc[t] = "read"
  /\ Answer(t, Lookup(file, req[t].key), "unlock")
  /\ UNCHANGED <<file, tmp, lock, old, req>>

NoUnlock_Release(t) ==
  /\ pc[t] = "unlock"
  /\ lock' = IF res[t] = "io" THEN lock ELSE "nobody"
  /\ Goto(t, "return")
  /\ UNCHANGED <<file, tmp, old, req, res>>

Release(t) ==
  /\ pc[t] = "unlock"
  /\ lock' = "nobody"
  /\ Goto(t, "return")
  /\ UNCHANGED <<file, tmp, old, req, res>>

Return(t) ==
  /\ pc[t] = "return"
  /\ req' = [req EXCEPT ![t] = NoRequest]
  /\ Answer(t, "none", "idle")
  /\ UNCHANGED <<file, tmp, lock, old>>

Restart ==
  /\ Volatile(pc', old', req', res', lock')
  /\ \/ UNCHANGED file
     \/ "cache" \in Faults /\ file' = <<>>
  /\ UNCHANGED tmp

Step(t) ==
  \/ Check(t) \/ Acquire(t) \/ OpenTmp(t) \/ OpenOrig(t) \/ Copy(t)
  \/ Rename(t) \/ Read(t) \/ Release(t) \/ Return(t)

Next == (\E t \in Caller : Call(t) \/ Step(t)) \/ Restart

\* Threads run, and the mutex is handed to a waiter sooner or later.
Fairness == \A t \in Caller : WF_vars(Step(t)) /\ SF_vars(Acquire(t))

Spec == Init /\ [][Next]_vars /\ Fairness

-----------------------------------------------------------------------------
\* Types of the variables.
TypeOK ==
  /\ file \in Seq(Line) /\ tmp \in Seq(Line)
  /\ lock \in Caller \cup {"nobody"}
  /\ pc \in [Caller -> {"idle", "check", "lock", "tmp", "orig", "copy", "rename",
                        "read", "unlock", "return"}]
  /\ old \in [Caller -> Seq(Line)]
  /\ req \in [Caller -> Request \cup {NoRequest}]
  /\ res \in [Caller -> Value \cup {Absent, "none", "success", "io", "invalid"}]

\* The callers that are between lock and unlock of file_mutex.
Inside(t) == pc[t] \in {"tmp", "orig", "copy", "rename", "read", "unlock"}

\* The mutex is held by the caller that is between lock and unlock; the old
\* lines are those of the file, and the copy is what the file should become.
StoreInv ==
  /\ TypeOK
  /\ \A t \in Caller :
      /\ (pc[t] = "idle") = (req[t] = NoRequest)
      /\ Inside(t) => lock = t
      /\ pc[t] \in {"tmp", "orig", "copy", "rename"} =>
           req[t].op = "set" /\ req[t].value \notin BadValue
      /\ pc[t] = "lock" /\ req[t].op = "set" => req[t].value \notin BadValue
      /\ pc[t] = "read" => req[t].op = "get"
      /\ pc[t] = "copy" => old[t] = file
      /\ pc[t] = "rename" => tmp = Rewrite(file, req[t].key, req[t].value)

\* The refinement: a call takes effect when the file is renamed or read.
mapBar == [k \in Key |-> Lookup(file, k)]

stateBar ==
  [t \in Caller |-> IF pc[t] = "idle" THEN "idle"
                    ELSE IF pc[t] \in {"unlock", "return"} THEN "done" ELSE "called"]

Map == INSTANCE ConfigMap WITH map <- mapBar, state <- stateBar

\* config_set and config_get implement the map: calls of several threads have
\* the effect of calls one after the other, a set that reports success is there
\* for the next get and after a restart, one that reports an error has changed
\* nothing, and no other key is touched; if fopen of the temporary file or
\* rename fails as well, and whenever the program is killed.
ImplementsMap == Map!MapSpec

\* Every call returns: the mutex is released on every path.
CallsReturn == \A t \in Caller : pc[t] # "idle" ~> pc[t] = "idle"
=============================================================================
