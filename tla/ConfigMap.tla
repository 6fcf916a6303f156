----------------------------- MODULE ConfigMap -----------------------------
(***************************************************************************)
(* What the callers of config_get and config_set rely on: a map that many  *)
(* threads use, in which every call takes effect at one moment between its *)
(* start and its end, or not at all, and which survives a restart.         *)
(***************************************************************************)
CONSTANTS
  Caller,   \* threads
  Key,
  Value,
  BadValue, \* values that are too long or contain a line break
  Absent    \* the key is not there

VARIABLES
  map,   \* the present value of every key
  state, \* of each caller: idle, called or done
  req,   \* its call
  res    \* the result of its call, once it is served

mapVars == <<map, state, req, res>>

Request ==
  [op : {"set"}, key : Key, value : Value] \cup [op : {"get"}, key : Key, value : {Absent}]

NoRequest == [op |-> "none"]

Result  == Value \cup {Absent, "none", "success", "io", "invalid"}

MapInit ==
  /\ map \in [Key -> Value \cup {Absent}]
  /\ state = [t \in Caller |-> "idle"]
  /\ req = [t \in Caller |-> NoRequest]
  /\ res = [t \in Caller |-> "none"]

Begin(t) ==
  /\ state[t] = "idle"
  /\ \E r \in Request : req' = [req EXCEPT ![t] = r]
  /\ state' = [state EXCEPT ![t] = "called"]
  /\ UNCHANGED <<map, res>>

\* A value that is refused, a value that is set, a set that failed without any
\* effect, and a value that is read.
Serve(t) ==
  /\ state[t] = "called"
  /\ state' = [state EXCEPT ![t] = "done"]
  /\ LET r == req[t] IN
       \/ /\ r.op = "set" /\ r.value \in BadValue
          /\ res' = [res EXCEPT ![t] = "invalid"]
          /\ UNCHANGED map
       \/ /\ r.op = "set" /\ r.value \notin BadValue
          /\ res' = [res EXCEPT ![t] = "success"]
          /\ map' = [map EXCEPT ![r.key] = r.value]
       \/ /\ r.op = "set" /\ r.value \notin BadValue
          /\ res' = [res EXCEPT ![t] = "io"]
          /\ UNCHANGED map
       \/ /\ r.op = "get"
          /\ res' = [res EXCEPT ![t] = map[r.key]]
          /\ UNCHANGED map
  /\ UNCHANGED req

End(t) ==
  /\ state[t] = "done"
  /\ state' = [state EXCEPT ![t] = "idle"]
  /\ req' = [req EXCEPT ![t] = NoRequest]
  /\ res' = [res EXCEPT ![t] = "none"]
  /\ UNCHANGED map

\* Calls are forgotten, the map is not.
MapRestart ==
  /\ state' = [t \in Caller |-> "idle"]
  /\ req' = [t \in Caller |-> NoRequest]
  /\ res' = [t \in Caller |-> "none"]
  /\ UNCHANGED map

MapNext == (\E t \in Caller : Begin(t) \/ Serve(t) \/ End(t)) \/ MapRestart

MapSpec == MapInit /\ [][MapNext]_mapVars
=============================================================================
