----------------------- MODULE NodeConfigStages_proofs -----------------------
(***************************************************************************)
(* What a request, a pass of the watcher and the boot have done when they  *)
(* are at a step, whatever the requests are: from which that the bandwidth *)
(* for traffic fits at every step, that the driver has what a request has  *)
(* set with success, and that the node runs with it after a restart where  *)
(* it has been saved under the key that is read.                           *)
(*                                                                         *)
(* First what a step leaves alone (Frame), by its operation.  Then each    *)
(* function of NodeApi gets an outline, which gives every step of it a     *)
(* stage: an outline of the whole is put together from those of fragments  *)
(* (Turns), so that again no function is looked at as a sequence.  Where a *)
(* thread is in its outline is its Phase, and an invariant says for every  *)
(* phase what the structure, the driver and the file hold.                 *)
(***************************************************************************)
EXTENDS NodeConfig_proofs

-----------------------------------------------------------------------------
(***************************************************************************)
(* What a step leaves alone                                                *)
(***************************************************************************)
\* The parameters of the driver that a setter writes, and those of the structure that
\* a getter writes.
WrittenBy(w) ==
  CASE w = "set_mac_address"      -> {"mac"}
    [] w = "slb_set_channel"      -> {"channel"}
    [] w = "slb_set_bw"           -> {"bw"}
    [] w = "slb_set_tfc_bw"       -> {"tfc_bw"}
    [] w = "slb_set_cc_start_pos" -> {"cc_offset"}
    [] w = "slb_set_cell_id"      -> {"cell_id"}
    [] w = "slb_set_essid"        -> {"name"}
    [] w = "slb_set_range_opt"    -> {"range_opt"}
    [] w = "slb_set_mib_params"   -> {"cp_type", "symbol_type", "sysmsg_period", "s_cfg_idx"}
    [] w = "slb_set_sec_auth_pwd" -> {"password"}
    [] w = "slb_set_sec_exch_cap" -> {"sec_exch_cap"}
    [] w = "slb_set_tx_power"     -> {"power"}
    [] w = "slb_set_fisa_enable"  -> {"fisa_enable"}
    [] w = "slb_set_acs_enable"   -> {"aifh_enable"}
    [] w = "init_net_bridge"      -> {"ip"}
    [] w = "slb_create_device"    -> {"type"}
    [] w = "set_acs_enable"       -> {"aifh_enable"}
    [] w = "bss_chan_switch"      -> {"channel"}

ReadBy(w) ==
  CASE w = "slb_get_channel"      -> {"channel"}
    [] w = "slb_get_bw"           -> {"bw"}
    [] w = "slb_get_tfc_bw"       -> {"tfc_bw"}
    [] w = "slb_get_cc_start_pos" -> {"cc_offset"}
    [] w = "slb_get_cell_id"      -> {"cell_id"}
    [] w = "slb_get_acs_enable"   -> {"aifh_enable"}
    [] w = "slb_get_range_opt"    -> {"range_opt"}
    [] w = "slb_get_sec_exch_cap" -> {"sec_exch_cap"}
    [] w = "slb_get_mib_params"   -> {"cp_type", "symbol_type", "sysmsg_period", "s_cfg_idx"}
    [] OTHER                      -> {}

\* What a step may write of the structure, the driver, the file, its local variables.
MemOf(s) ==
  CASE s.op \in {"take", "assign", "clear"} -> {s.arg}
    [] s.op \in {"default", "adopt"}        -> DOMAIN s.lits
    [] s.op = "read"                        -> {s.name}
    [] s.op = "get"                         -> ReadBy(s.arg)
    [] OTHER                                -> {}

DrvOf(s) ==
  CASE s.op \in {"set", "must", "adopt"} -> WrittenBy(s.arg)
    [] s.op = "join"                     -> Radio
    [] OTHER                             -> {}

FileOf(s) ==
  CASE s.op = "save"   -> {s.arg}
    [] s.op = "remove" -> Key
    [] OTHER           -> {}

LocalOf(s) ==
  CASE s.op = "query" -> {s.name[2]}
    [] s.op = "copy"  -> {s.arg}
    [] s.op = "join"  -> {"ret"}
    [] OTHER          -> {}

\* The tables are those of SetterNamed and GetterNamed.
LEMMA SettersTable ==
  ASSUME NEW w \in Setters, NEW m
  PROVE  DOMAIN SetterNamed(w, m).writes = WrittenBy(w)
<1> DEFINE Writes(s, S) == DOMAIN s.writes = S
<1>1. \A p, v, valid : Writes(Setter(valid, Value(p, v)), {p})
                       /\ Writes(HotSetter(valid, Value(p, v)), {p})
  BY DEF Setter, HotSetter, Value
<1>2. Writes(slb_set_mib_params(m), {"cp_type", "symbol_type", "sysmsg_period", "s_cfg_idx"})
  BY DEF slb_set_mib_params
<1> HIDE DEF Writes
<1>3. Writes(set_mac_address(m), {"mac"})
  BY <1>1 DEF set_mac_address
<1>4. Writes(slb_set_channel(m), {"channel"})
  BY <1>1 DEF slb_set_channel
<1>5. Writes(slb_set_bw(m), {"bw"})
  BY <1>1 DEF slb_set_bw
<1>6. Writes(slb_set_tfc_bw(m), {"tfc_bw"})
  BY <1>1 DEF slb_set_tfc_bw
<1>7. Writes(slb_set_cc_start_pos(m), {"cc_offset"})
  BY <1>1 DEF slb_set_cc_start_pos
<1>8. Writes(slb_set_cell_id(m), {"cell_id"})
  BY <1>1 DEF slb_set_cell_id
<1>9. Writes(slb_set_essid(m), {"name"})
  BY <1>1 DEF slb_set_essid
<1>10. Writes(slb_set_range_opt(m), {"range_opt"})
  BY <1>1 DEF slb_set_range_opt
<1>11. Writes(slb_set_sec_auth_pwd(m), {"password"})
  BY <1>1 DEF slb_set_sec_auth_pwd
<1>12. Writes(slb_set_sec_exch_cap(m), {"sec_exch_cap"})
  BY <1>1 DEF slb_set_sec_exch_cap
<1>13. Writes(slb_set_tx_power(m), {"power"})
  BY <1>1 DEF slb_set_tx_power
<1>14. Writes(slb_set_fisa_enable(m), {"fisa_enable"})
  BY <1>1 DEF slb_set_fisa_enable
<1>15. Writes(slb_set_acs_enable(m), {"aifh_enable"})
  BY <1>1 DEF slb_set_acs_enable
<1>16. Writes(init_net_bridge(m), {"ip"})
  BY <1>1 DEF init_net_bridge
<1>17. Writes(slb_create_device(m), {"type"})
  BY <1>1 DEF slb_create_device
<1>18. Writes(set_acs_enable(m), {"aifh_enable"})
  BY <1>1 DEF set_acs_enable
<1>19. Writes(bss_chan_switch(m), {"channel"})
  BY <1>1 DEF bss_chan_switch
<1>20. Writes(SetterNamed(w, m), WrittenBy(w))
  BY <1>2, <1>3, <1>4, <1>5, <1>6, <1>7, <1>8, <1>9, <1>10, <1>11, <1>12, <1>13, <1>14,
     <1>15, <1>16, <1>17, <1>18, <1>19 DEF SetterNamed, WrittenBy, Setters
<1> QED
  BY <1>20 DEF Writes

\* A getter writes the parameters it is the getter of.
LEMMA GettersTable ==
  ASSUME NEW w \in Getters, NEW d
  PROVE  DOMAIN GetterNamed(w, d).value \cap Params = ReadBy(w)
<1> DEFINE Reads(g, S) == DOMAIN g.value \cap Params = S
<1>1. \A p \in Params : \A v, e : Reads(Getter(Value(p, v), e), {p})
  BY DEF Getter, Value
<1>2. \A x \in Observed : Reads(Reading(x), {}) /\ Reads(StructReading(x), {})
  BY ObservedApart DEF Reading, StructReading, Getter, Value
<1>3. Reads(slb_get_mib_params(d), {"cp_type", "symbol_type", "sysmsg_period", "s_cfg_idx"})
  BY DEF slb_get_mib_params, Getter, Params
<1> HIDE DEF Reads
<1>4. /\ Reads(slb_get_channel(d), {"channel"}) /\ Reads(slb_get_bw(d), {"bw"})
      /\ Reads(slb_get_tfc_bw(d), {"tfc_bw"})
  BY <1>1 DEF slb_get_channel, slb_get_bw, slb_get_tfc_bw, Params
<1>5. /\ Reads(slb_get_cc_start_pos(d), {"cc_offset"}) /\ Reads(slb_get_cell_id(d), {"cell_id"})
      /\ Reads(slb_get_acs_enable(d), {"aifh_enable"})
  BY <1>1 DEF slb_get_cc_start_pos, slb_get_cell_id, slb_get_acs_enable, Params
<1>6. /\ Reads(slb_get_range_opt(d), {"range_opt"})
      /\ Reads(slb_get_sec_exch_cap(d), {"sec_exch_cap"})
  BY <1>1 DEF slb_get_range_opt, slb_get_sec_exch_cap, Params
<1>7. /\ Reads(slb_get_chip_temperature, {}) /\ Reads(slb_get_sec_sec_cap, {})
      /\ Reads(slb_get_pps_switch, {}) /\ Reads(slb_get_lce_mode, {})
      /\ Reads(get_wt_vap_interface_count, {}) /\ Reads(slb_get_timestamp_cnt, {})
      /\ Reads(slb_get_wds_mode, {}) /\ Reads(slb_get_real_power, {})
      /\ Reads(slb_fem_check, {}) /\ Reads(slb_get_view_mcs_info, {})
      /\ Reads(slb_get_rssi_info, {})
  BY <1>2 DEF slb_get_chip_temperature, slb_get_sec_sec_cap, slb_get_pps_switch,
      slb_get_lce_mode, get_wt_vap_interface_count, slb_get_timestamp_cnt, slb_get_wds_mode,
      slb_get_real_power, slb_fem_check, slb_get_view_mcs_info, slb_get_rssi_info, Observed
<1>8. Reads(GetterNamed(w, d), ReadBy(w))
  BY <1>3, <1>4, <1>5, <1>6, <1>7 DEF GetterNamed, ReadBy, Getters
<1> QED
  BY <1>8 DEF Reads

\* A thread that goes on has its local variables; a request that is refused is answered.
GoesOnWith(self) ==
  /\ GoesOn(self) /\ answer' = answer
  /\ \A x : x \notin LocalOf(Now(self)) =>
       /\ x \in DOMAIN job'[self].local <=> x \in DOMAIN job[self].local
       /\ x \in DOMAIN job[self].local => job'[self].local[x] = job[self].local[x]

IsRefused(self) ==
  /\ GivesUp(self)
  /\ answer' = [api |-> job[self].prog, ok |-> FALSE, data |-> "none", body |-> job[self].body]

\* A step changes what it may write, and a failure is an event.
Frame(self) ==
  /\ \A p \in Params : p \notin MemOf(Now(self)) => mem'[p] = mem[p]
  /\ \A p \in Radio : p \notin DrvOf(Now(self)) => drv'[p] = drv[p]
  /\ \A k \in Key : k \notin FileOf(Now(self)) => file'[k] = file[k]
  /\ Now(self).op \notin {"lock", "unlock"} => lock' = lock
  /\ row' = NoRow <=> row = NoRow
  /\ events \subseteq events'
  /\ kept' = kept
  /\ GoesOnWith(self) \/ IsRefused(self)

\* How the thread leaves a step.
LEMMA LeavesWith ==
  ASSUME Jobs, NEW self \in Thread, AtStep(self)
  PROVE  /\ Continue(self) /\ answer' = answer /\ Now(self).op # "query" => GoesOnWith(self)
         /\ \A x : \A v \in Int :
              ContinueWith(self, x, v) /\ answer' = answer /\ x \in LocalOf(Now(self))
              /\ (Now(self).op = "query" => Now(self).name[2] = x)
                => GoesOnWith(self)
         /\ Refuse(self) /\ Refuses(Now(self)) => IsRefused(self)
<1>1. DOMAIN job = Thread /\ DOMAIN job[self] = {"prog", "at", "body", "local", "data"}
  BY DEF Jobs, JobInv
<1>2. ASSUME Continue(self), answer' = answer, Now(self).op # "query"
      PROVE  GoesOnWith(self)
  <2>1. GoesOn(self)
    BY <1>2, Leaves
  <2>2. job'[self].local = job[self].local
    BY <1>1, <1>2 DEF Continue
  <2> QED
    BY <1>2, <2>1, <2>2 DEF GoesOnWith
<1>3. ASSUME NEW x, NEW v \in Int, ContinueWith(self, x, v), answer' = answer,
             x \in LocalOf(Now(self)), Now(self).op = "query" => Now(self).name[2] = x
      PROVE  GoesOnWith(self)
  <2>1. GoesOn(self)
    BY <1>3, Leaves
  <2> DEFINE l == Over(Value(x, v), job[self].local)
  <2>2. \A y : y # x => /\ y \in DOMAIN l <=> y \in DOMAIN job[self].local
                        /\ y \in DOMAIN job[self].local => l[y] = job[self].local[y]
    BY DEF Over, Value
  <2>3. job' = [job EXCEPT ![self].at = @ + 1, ![self].local = l]
    BY <1>3 DEF ContinueWith
  <2> HIDE DEF l
  <2>4. job'[self].local = l
    BY <1>1, <2>3
  <2> QED
    BY <1>3, <2>1, <2>2, <2>4 DEF GoesOnWith
<1>4. ASSUME Refuse(self), Refuses(Now(self))
      PROVE  IsRefused(self)
  BY <1>4, Leaves DEF IsRefused, Refuse
<1> QED
  BY <1>2, <1>3, <1>4

\* The setters.
LEMMA FrameSetting ==
  ASSUME Values, Jobs, NEW self \in Thread, SetParameter(self)
  PROVE  Frame(self)
<1> DEFINE st == Now(self)
           s  == SetterNamed(st.arg, Args(self))
           failed == IF st.op = "must" THEN Refuse(self)
                                       ELSE Continue(self) /\ UNCHANGED answer
<1>1. AtStep(self) /\ st.op \in {"set", "must", "adopt"}
  BY Places DEF SetParameter
<1>2. st.arg \in Setters
  BY <1>1 DEF AtStep, StepOK
<1>3. DOMAIN s.writes = DrvOf(st)
  BY <1>1, <1>2, SettersTable DEF DrvOf
<1>4. /\ Continue(self) /\ answer' = answer => GoesOnWith(self)
      /\ st.op = "must" /\ Refuse(self) => IsRefused(self)
  BY <1>1, LeavesWith DEF Refuses
<1>5. /\ \/ /\ ~s.valid /\ failed /\ NoFault
            /\ UNCHANGED <<mem, drv, up>>
         \/ /\ s.valid /\ NoFault
            /\ drv' = Over(s.writes, drv)
            /\ up' = (s.up \/ (up /\ ~s.down))
            /\ mem' = IF st.op = "adopt" THEN Over(st.lits, mem) ELSE mem
            /\ Continue(self) /\ UNCHANGED answer
         \/ /\ s.valid /\ Fault /\ failed
            /\ up' = (up /\ ~s.down)
            /\ UNCHANGED <<mem, drv>>
      /\ UNCHANGED <<seen, file, row, lock, rest>>
  BY DEF SetParameter
<1>6. failed => GoesOnWith(self) \/ IsRefused(self)
  BY <1>4
<1>7. mem \in [Params -> Int] /\ drv \in [Radio -> Int]
  BY DEF Values
<1>8. st.op = "adopt" => DOMAIN st.lits = MemOf(st)
  BY DEF MemOf
<1>9. /\ \A p \in Params : p \notin DOMAIN st.lits => Over(st.lits, mem)[p] = mem[p]
      /\ \A p \in Radio : p \notin DOMAIN s.writes => Over(s.writes, drv)[p] = drv[p]
  BY <1>7 DEF Over
<1> HIDE DEF s, failed
<1>10. \A p \in Params : p \notin MemOf(st) => mem'[p] = mem[p]
  BY <1>5, <1>8, <1>9
<1>11. \A p \in Radio : p \notin DrvOf(st) => drv'[p] = drv[p]
  BY <1>3, <1>5, <1>9
<1>12. events \subseteq events'
  BY <1>5, Failures
<1>13. file' = file /\ row' = row /\ lock' = lock /\ kept' = kept
  BY <1>5 DEF rest
<1>14. GoesOnWith(self) \/ IsRefused(self)
  BY <1>4, <1>5, <1>6
<1>15. st.op # "save"
  BY <1>1
<1> QED
  BY <1>10, <1>11, <1>12, <1>13, <1>14, <1>15 DEF Frame

\* The getters.
LEMMA FrameGetting ==
  ASSUME Values, Jobs, NEW self \in Thread, GetParameter(self)
  PROVE  Frame(self)
<1> DEFINE g == GetterNamed(Now(self).arg, drv)
           Store(v) == /\ mem'  = [p \in Params |-> IF p \in DOMAIN v THEN v[p] ELSE mem[p]]
                       /\ seen' = [x \in Observed |-> IF x \in DOMAIN v THEN v[x] ELSE seen[x]]
<1>1. AtStep(self) /\ Now(self).op = "get"
  BY Places DEF GetParameter
<1>2. Now(self).arg \in Getters
  BY <1>1 DEF AtStep, StepOK
<1>3. DOMAIN g.value \cap Params = MemOf(Now(self))
  BY <1>1, <1>2, GettersTable DEF MemOf
<1>4. /\ \/ Store(g.value) /\ NoFault
         \/ /\ Fault
            /\ \/ g.errors = {} /\ UNCHANGED <<mem, seen>>
               \/ \E e \in g.errors : Store([p \in DOMAIN g.value |-> e])
      /\ Continue(self)
      /\ UNCHANGED <<storage, row, lock, answer, rest>>
  BY DEF GetParameter
<1> HIDE DEF g
<1>5. \A p \in Params : p \notin MemOf(Now(self)) => mem'[p] = mem[p]
  <2>1. \A v : DOMAIN v = DOMAIN g.value /\ Store(v) =>
          \A p \in Params : p \notin MemOf(Now(self)) => mem'[p] = mem[p]
    BY <1>3
  <2>2. \A e : DOMAIN [p \in DOMAIN g.value |-> e] = DOMAIN g.value
    OBVIOUS
  <2> HIDE DEF Store
  <2> QED
    BY <1>4, <2>1, <2>2
<1>6. events \subseteq events'
  BY <1>4, Failures
<1>7. drv' = drv /\ file' = file /\ row' = row /\ lock' = lock /\ kept' = kept /\ answer' = answer
  BY <1>4 DEF storage, rest
<1>8. GoesOnWith(self)
  BY <1>1, <1>4, <1>7, LeavesWith
<1> QED
  BY <1>1, <1>5, <1>6, <1>7, <1>8 DEF Frame

\* The questions to the driver, whose answers are local.
LEMMA FrameQuerying ==
  ASSUME Values, Jobs, NEW self \in Thread, QueryParameter(self)
  PROVE  Frame(self)
<1> DEFINE st == Now(self)
           g  == GetterNamed(st.arg, drv)
<1>1. AtStep(self) /\ st.op = "query"
  BY Places DEF QueryParameter
<1>2. \/ st.arg = "slb_get_channel" /\ st.name = <<"channel", "tmp_channel">>
      \/ st.arg = "slb_get_bw" /\ st.name = <<"bw", "bw_now">>
  BY <1>1 DEF AtStep, StepOK
<1>3. drv.channel \in Int /\ drv.bw \in Int
  BY DEF Values, Radio, Params
<1>4. g.value[st.name[1]] \in Int /\ g.errors \subseteq Int
  <2>1. CASE st.arg = "slb_get_channel" /\ st.name = <<"channel", "tmp_channel">>
    BY <2>1, <1>3 DEF GetterNamed, slb_get_channel, Getter, Value
  <2>2. CASE st.arg = "slb_get_bw" /\ st.name = <<"bw", "bw_now">>
    BY <2>2, <1>3 DEF GetterNamed, slb_get_bw, Getter, Value
  <2> QED
    BY <2>1, <2>2, <1>2
<1>5. /\ \/ /\ ContinueWith(self, st.name[2], g.value[st.name[1]])
            /\ \E misfit : Noting(misfit)
         \/ Fault /\ \E e \in g.errors : ContinueWith(self, st.name[2], e)
      /\ UNCHANGED <<mem, seen, storage, row, lock, answer, rest>>
  BY DEF QueryParameter
<1>6. st.name[2] \in LocalOf(st)
  BY <1>1 DEF LocalOf
<1> HIDE DEF g
<1>7. \A v \in Int : ContinueWith(self, st.name[2], v) /\ answer' = answer => GoesOnWith(self)
  BY <1>1, <1>6, LeavesWith
<1>8. UNCHANGED <<mem, drv, file, row, lock, kept, answer>>
  BY <1>5 DEF storage, rest
<1>9. GoesOnWith(self)
  BY <1>4, <1>5, <1>7, <1>8
<1>10. events \subseteq events'
  BY <1>5, Failures
<1> QED
  BY <1>1, <1>8, <1>9, <1>10 DEF Frame

\* What only the structure and the local variables take part in.
LEMMA FrameComputing ==
  ASSUME Values, Jobs, NEW self \in Thread, Compute(self)
  PROVE  Frame(self)
<1> DEFINE st == Now(self)
           body == job[self].body
<1>1. /\ AtStep(self)
      /\ st.op \in {"take", "copy", "assign", "default", "clear"}
  BY Places DEF Compute
<1>2. st.op # "default" => st.arg \in Params
  BY <1>1 DEF AtStep, StepOK
<1>3. mem \in [Params -> Int]
  BY DEF Values
<1>4. /\ \/ /\ st.op = "take"
            /\ mem' = IF st.arg \in DOMAIN body
                      THEN [mem EXCEPT ![st.arg] = body[st.arg]] ELSE mem
            /\ Continue(self)
         \/ st.op = "copy" /\ ContinueWith(self, st.arg, mem[st.arg]) /\ UNCHANGED mem
         \/ /\ st.op = "assign"
            /\ mem' = [mem EXCEPT ![st.arg] = job[self].local[st.name]]
            /\ Continue(self)
         \/ st.op = "default" /\ mem' = Over(st.lits, mem) /\ Continue(self)
         \/ st.op = "clear" /\ mem' = [mem EXCEPT ![st.arg] = 0] /\ Continue(self)
      /\ UNCHANGED <<seen, storage, row, lock, answer, rest, budget, events>>
  BY DEF Compute
<1>5. \A p \in Params : p \notin MemOf(st) => mem'[p] = mem[p]
  <2>1. \A p \in Params : p \notin DOMAIN st.lits => Over(st.lits, mem)[p] = mem[p]
    BY <1>3 DEF Over
  <2>2. st.op = "default" => MemOf(st) = DOMAIN st.lits
    BY DEF MemOf
  <2>3. st.op \in {"take", "assign", "clear"} => MemOf(st) = {st.arg}
    BY DEF MemOf
  <2> HIDE DEF st, body
  <2> QED
    BY <1>3, <1>4, <2>1, <2>2, <2>3
<1>6. UNCHANGED <<drv, file, row, lock, kept, answer, events>>
  BY <1>4 DEF storage, rest
<1>7. GoesOnWith(self)
  <2>1. st.op = "copy" => mem[st.arg] \in Int /\ st.arg \in LocalOf(st)
    BY <1>2, <1>3 DEF LocalOf
  <2> QED
    BY <1>1, <1>4, <1>6, <2>1, LeavesWith
<1> QED
  BY <1>1, <1>5, <1>6, <1>7 DEF Frame

\* The file.
LEMMA FrameFiling ==
  ASSUME Values, Jobs, NEW self \in Thread,
         config_get(self) \/ config_set(self) \/ RemoveFile(self)
  PROVE  Frame(self)
<1> DEFINE st == Now(self)
<1>1. DOMAIN file = Key /\ mem \in [Params -> Int]
  BY DEF Values
<1>2. CASE config_get(self)
  <2>1. AtStep(self) /\ st.op = "read"
    BY <1>2, Places DEF config_get
  <2>2. /\ mem' = mem \/ mem' = [mem EXCEPT ![st.name] = file[st.arg]]
        /\ Fault \/ NoFault
        /\ Continue(self)
        /\ UNCHANGED <<drv, file, row, lock, answer, kept>>
    BY <1>2 DEF config_get, storage, rest
  <2>3. MemOf(st) = {st.name}
    BY <2>1 DEF MemOf
  <2>4. \A p \in Params : p \notin MemOf(st) => mem'[p] = mem[p]
    BY <1>1, <2>2, <2>3
  <2>5. GoesOnWith(self)
    BY <2>1, <2>2, LeavesWith
  <2> QED
    BY <2>1, <2>2, <2>4, <2>5, Failures DEF Frame
<1>3. CASE config_set(self)
  <2>1. AtStep(self) /\ st.op = "save"
    BY <1>3, Places DEF config_set
  <2>2. /\ file' = file \/ file' = [file EXCEPT ![st.arg] = Arg(self, st.name)]
        /\ Fault \/ NoFault
        /\ Continue(self)
        /\ UNCHANGED <<mem, drv, row, lock, answer, kept>>
    BY <1>3 DEF config_set, rest
  <2>3. FileOf(st) = {st.arg}
    BY <2>1 DEF FileOf
  <2>4. \A k \in Key : k \notin FileOf(st) => file'[k] = file[k]
    BY <1>1, <2>2, <2>3
  <2>5. GoesOnWith(self)
    BY <2>1, <2>2, LeavesWith
  <2>6. events \subseteq events'
    BY <2>2, Failures
  <2> QED
    BY <2>1, <2>2, <2>4, <2>5, <2>6 DEF Frame
<1>4. CASE RemoveFile(self)
  <2>1. AtStep(self) /\ st.op = "remove"
    BY <1>4, Places DEF RemoveFile
  <2>2. /\ (Continue(self) /\ answer' = answer) \/ Refuse(self)
        /\ Fault \/ NoFault
        /\ UNCHANGED <<mem, drv, row, lock, kept>>
    BY <1>4 DEF RemoveFile, rest
  <2>3. FileOf(st) = Key
    BY <2>1 DEF FileOf
  <2>4. GoesOnWith(self) \/ IsRefused(self)
    BY <2>1, <2>2, LeavesWith DEF Refuses
  <2> QED
    BY <2>1, <2>2, <2>3, <2>4, Failures DEF Frame
<1> QED
  BY <1>2, <1>3, <1>4

\* The interface and the join.
LEMMA FrameCommanding ==
  ASSUME Values, Jobs, NEW self \in Thread,
         slb_ifconfig(self) \/ slb_t_node_start_join(self)
  PROVE  Frame(self)
<1>1. CASE slb_ifconfig(self)
  <2>1. AtStep(self) /\ Now(self).op = "ifconfig"
    BY <1>1, Places DEF slb_ifconfig
  <2>2. /\ Fault \/ NoFault
        /\ Continue(self)
        /\ UNCHANGED <<mem, drv, file, row, lock, answer, kept>>
    BY <1>1 DEF slb_ifconfig, rest
  <2>3. GoesOnWith(self)
    BY <2>1, <2>2, LeavesWith
  <2> QED
    BY <2>1, <2>2, <2>3, Failures DEF Frame
<1>2. CASE slb_t_node_start_join(self)
  <2>1. AtStep(self) /\ Now(self).op = "join"
    BY <1>2, Places DEF slb_t_node_start_join
  <2>2. /\ ContinueWith(self, "ret", 0) \/ ContinueWith(self, "ret", -1)
        /\ Fault \/ \E misfit : Noting(misfit)
        /\ UNCHANGED <<mem, file, row, lock, answer, kept>>
    BY <1>2 DEF slb_t_node_start_join, rest
  <2>3. DrvOf(Now(self)) = Radio /\ "ret" \in LocalOf(Now(self))
    BY <2>1 DEF DrvOf, LocalOf
  <2>4. GoesOnWith(self)
    BY <2>1, <2>2, <2>3, LeavesWith
  <2> QED
    BY <2>1, <2>2, <2>3, <2>4, Failures DEF Frame
<1> QED
  BY <1>1, <1>2

\* The tests and the commands that only answer.
LEMMA FrameTesting ==
  ASSUME Values, Jobs, NEW self \in Thread,
         TestResult(self) \/ RunCommand(self) \/ Reboots(self)
  PROVE  Frame(self)
<1>1. CASE TestResult(self)
  <2>1. AtStep(self) /\ Now(self).op \in {"parse", "joined", "null", "ask", "popen"}
    BY <1>1, Places DEF TestResult
  <2>2. /\ (Continue(self) /\ answer' = answer) \/ Refuse(self)
        /\ Fault \/ NoFault
        /\ UNCHANGED <<mem, drv, file, row, lock, kept>>
    BY <1>1 DEF TestResult, storage, rest
  <2>3. GoesOnWith(self) \/ IsRefused(self)
    BY <2>1, <2>2, LeavesWith DEF Refuses
  <2> QED
    BY <2>1, <2>2, <2>3, Failures DEF Frame
<1>2. CASE RunCommand(self)
  <2>1. AtStep(self) /\ Now(self).op \in {"show", "tell"}
    BY <1>2, Places DEF RunCommand
  <2>2. /\ \E d : job' = [job EXCEPT ![self].at = @ + 1, ![self].data = d]
        /\ Fault \/ NoFault
        /\ UNCHANGED <<mem, drv, file, row, lock, answer, kept>>
    BY <1>2 DEF RunCommand, storage, rest
  <2>3. Keeps(self) /\ ~GivesUp(self)
    BY <2>1, <1>2, Testing DEF GivesUp, Refuses
  <2>4. job'[self].local = job[self].local
    BY <2>2 DEF Jobs, JobInv
  <2>5. GoesOnWith(self)
    BY <2>2, <2>3, <2>4 DEF GoesOnWith, Keeps
  <2> QED
    BY <2>1, <2>2, <2>5, Failures DEF Frame
<1>3. CASE Reboots(self)
  <2>1. AtStep(self) /\ Now(self).op = "reboot"
    BY <1>3, Places DEF Reboots
  <2>2. /\ Fault \/ NoFault
        /\ Continue(self)
        /\ UNCHANGED <<mem, drv, file, row, lock, answer, kept>>
    BY <1>3 DEF Reboots, storage
  <2>3. GoesOnWith(self)
    BY <2>1, <2>2, LeavesWith
  <2> QED
    BY <2>1, <2>2, <2>3, Failures DEF Frame
<1> QED
  BY <1>1, <1>2, <1>3

\* The conditions, the mutex and the row of the node.
LEMMA FrameBranching ==
  ASSUME Values, Jobs, NEW self \in Thread,
         Branch(self) \/ Mutex(self) \/ update_wtsl_node_basicinfo(self)
  PROVE  Frame(self)
<1>1. CASE Branch(self)
  <2>1. AtStep(self) /\ Now(self).op = "if"
    <3>1. At(self, {"if"})
      BY <1>1, Zenon DEF Branch
    <3> QED
      BY <3>1, Places
  <2>2. /\ \E n : job' = [job EXCEPT ![self].at = n]
        /\ Fault \/ NoFault
        /\ UNCHANGED <<mem, drv, file, row, lock, answer, kept>>
    <3> DEFINE Goto(taken) == job' = [job EXCEPT ![self].at =
                                        @ + 1 + (IF taken THEN 0 ELSE Now(self).name)]
    <3>1. /\ \/ Goto(Holds(self, Now(self).arg)) /\ NoFault
             \/ Fault /\ \E b \in BOOLEAN : Goto(b)
          /\ UNCHANGED <<mem, seen, storage, row, lock, answer, rest>>
      BY <1>1 DEF Branch
    <3>2. \A b : Goto(b) => \E n : job' = [job EXCEPT ![self].at = n]
      OBVIOUS
    <3> HIDE DEF Goto
    <3> QED
      BY <3>1, <3>2 DEF storage, rest
  <2>3. Keeps(self) /\ ~GivesUp(self)
    BY <2>1, <1>1, Branching DEF GivesUp, Refuses
  <2>4. job'[self].local = job[self].local
    BY <2>2 DEF Jobs, JobInv
  <2>5. GoesOnWith(self)
    BY <2>2, <2>3, <2>4 DEF GoesOnWith, Keeps
  <2> QED
    BY <2>1, <2>2, <2>5, Failures DEF Frame
<1>2. CASE Mutex(self)
  <2>1. AtStep(self) /\ Now(self).op \in {"lock", "unlock"}
    BY <1>2, Places DEF Mutex
  <2>2. Continue(self) /\ UNCHANGED <<mem, drv, file, row, answer, kept, events>>
    BY <1>2 DEF Mutex, storage, rest
  <2>3. GoesOnWith(self)
    BY <2>1, <2>2, LeavesWith
  <2> QED
    BY <2>1, <2>2, <2>3 DEF Frame
<1>3. CASE update_wtsl_node_basicinfo(self)
  <2>1. AtStep(self) /\ Now(self).op = "row"
    BY <1>3, Places DEF update_wtsl_node_basicinfo
  <2>2. /\ Continue(self)
        /\ row' = IF row = NoRow THEN row ELSE BasicOf(mem)
        /\ UNCHANGED <<mem, drv, file, lock, answer, kept, events>>
    BY <1>3 DEF update_wtsl_node_basicinfo, storage, rest
  <2>3. BasicOf(mem) # NoRow
    <3>1. "type" \in DOMAIN BasicOf(mem) /\ DOMAIN NoRow = {}
      BY DEF BasicOf, Basic, NoRow
    <3> QED
      BY <3>1
  <2>4. GoesOnWith(self)
    BY <2>1, <2>2, LeavesWith
  <2> QED
    BY <2>1, <2>2, <2>3, <2>4 DEF Frame
<1> QED
  BY <1>1, <1>2, <1>3

\* Every step of a function.
LEMMA Framed ==
  ASSUME Values, Jobs, NEW self \in Thread, Step(self), ~Return(self)
  PROVE  Keeps(self) /\ Frame(self)
<1>1. Keeps(self)
  BY Setting, Getting, Querying, Computing, Filing, Commanding, Testing, Branching DEF Step
<1>2. Frame(self)
  BY FrameSetting, FrameGetting, FrameQuerying, FrameComputing, FrameFiling,
     FrameCommanding, FrameTesting, FrameBranching DEF Step
<1> QED
  BY <1>1, <1>2

-----------------------------------------------------------------------------
(***************************************************************************)
(* Outlines of functions                                                   *)
(***************************************************************************)
\* The parameters that outlines follow.
Watched == {"channel", "bw", "tfc_bw", "cell_id"}

NoLocals(s) == LocalOf(s) \cap Params = {}

\* The setter w for the parameter of the structure; and the question for p.
Sets(s, w) == s.op = "set" /\ s.arg = w /\ s.lits = <<>>
Queries(s, w, p, x) == s.op = "query" /\ s.arg = w /\ s.name = <<p, x>>

\* The bandwidths.  At rest the driver has those of the structure that are legal, and
\* a request is answered.
BandFree(s) ==
  /\ MemOf(s) \cap {"bw", "tfc_bw"} = {} /\ DrvOf(s) \cap {"bw", "tfc_bw"} = {}
  /\ LocalOf(s) \cap {"bw", "tfc_bw", "bw_now"} = {}

BandGoes(s, a, b) ==
  \/ BandFree(s) /\ b = a /\ (Refuses(s) => a = "rest")
  \/ s.op = "take" /\ s.arg = "bw" /\ a = "rest" /\ b = "half"
  \/ s.op = "take" /\ s.arg = "tfc_bw" /\ a = "half" /\ b = "ready"
  \/ Queries(s, "slb_get_bw", "bw", "bw_now") /\ a \in {"rest", "ready"} /\ b = "known"
  \/ s.op = "if" /\ s.arg = "bw grows" /\ s.lits = <<>> /\ a = "known" /\ b = "grows"
  \/ Sets(s, "slb_set_bw") /\ a = "grows" /\ b = "grown"
  \/ Sets(s, "slb_set_tfc_bw") /\ a = "grown" /\ b = "either"
  \/ s.op = "if" /\ s.arg = "bw shrinks" /\ s.lits = <<>> /\ a = "either" /\ b = "shrinks"
  \/ Sets(s, "slb_set_tfc_bw") /\ a = "shrinks" /\ b = "shrunk"
  \/ Sets(s, "slb_set_bw") /\ a = "shrunk" /\ b = "rest"
  \/ s.op = "adopt" /\ s.arg = "slb_set_bw" /\ s.lits = Value("bw", 80) /\ a = "rest" /\ b = "wide"
  \/ s.op = "adopt" /\ s.arg = "slb_set_tfc_bw" /\ s.lits = Value("tfc_bw", 80)
       /\ a = "wide" /\ b = "rest"
  \/ s.op = "join" /\ a = "rest" /\ b = "joined"
  \/ s.op = "get" /\ s.arg = "slb_get_bw" /\ a = "joined" /\ b = "got"
  \/ s.op = "get" /\ s.arg = "slb_get_tfc_bw" /\ a = "got" /\ b = "rest"
  \/ <<s>> = param_default /\ a = "blank" /\ b = "twenty"
  \/ s.op = "read" /\ a = "twenty" /\ b = "twenty"
  \/ Sets(s, "slb_set_bw") /\ a = "twenty" /\ b = "broad"
  \/ Sets(s, "slb_set_tfc_bw") /\ a = "broad" /\ b = "rest"

BandSkips(s, a, b) ==
  \/ b = a
  \/ s.arg = "bw grows" /\ s.lits = <<>> /\ a = "known" /\ b = "either"
  \/ s.arg = "bw shrinks" /\ s.lits = <<>> /\ a = "either" /\ b = "rest"

\* A request: 0 is any function, 20 one that has copied parameters, and 1 to 16 are what
\* set_basicinfo does with those that are followed, under the mutex as far as 15.
HttpFree(s) ==
  /\ MemOf(s) \cap Watched = {} /\ DrvOf(s) \cap Watched = {}
  /\ "CHANNEL" \notin FileOf(s) /\ "bw_now" \notin LocalOf(s) /\ NoLocals(s)
  /\ s.op \notin {"lock", "unlock"}

HttpGoes(s, a, b) ==
  \/ a = b /\ HttpFree(s)
  \/ a = 0 /\ b = 0 /\ s.op \notin {"lock", "unlock"} /\ NoLocals(s)
  \/ a \in {0, 20} /\ b = 20 /\ s.op \notin {"lock", "unlock"}
  \/ a = 0 /\ b = 1 /\ s.op = "lock"
  \/ a = 1 /\ b = 0 /\ s.op = "unlock"
  \/ a = 1 /\ b = 2 /\ s.op = "take" /\ s.arg = "channel"
  \/ a = 2 /\ b = 3 /\ s.op = "take" /\ s.arg = "bw"
  \/ a = 3 /\ b = 4 /\ s.op = "take" /\ s.arg = "tfc_bw"
  \/ a = 4 /\ b = 5 /\ s.op = "take" /\ s.arg = "cell_id"
  \/ a = 5 /\ b = 6 /\ Sets(s, "slb_set_channel")
  \/ a = 6 /\ b = 7 /\ Queries(s, "slb_get_bw", "bw", "bw_now")
  \/ a = 7 /\ b = 8 /\ s.op = "if" /\ s.arg = "bw grows" /\ s.lits = <<>>
  \/ a = 8 /\ b = 9 /\ Sets(s, "slb_set_bw")
  \/ a = 9 /\ b = 10 /\ Sets(s, "slb_set_tfc_bw")
  \/ a = 10 /\ b = 11 /\ s.op = "if" /\ s.arg = "bw shrinks" /\ s.lits = <<>>
  \/ a = 11 /\ b = 12 /\ Sets(s, "slb_set_tfc_bw")
  \/ a = 12 /\ b = 13 /\ Sets(s, "slb_set_bw")
  \/ a = 13 /\ b = 14 /\ Sets(s, "slb_set_cell_id")
  \/ a = 14 /\ b = 15 /\ s.op = "save" /\ s.arg = "CHANNEL" /\ s.name = "channel" /\ s.lits = <<>>
  \/ a = 15 /\ b = 16 /\ s.op = "unlock"

HttpSkips(s, a, b) ==
  \/ b = a
  \/ s.arg = "bw grows" /\ s.lits = <<>> /\ a = 7 /\ b = 10
  \/ s.arg = "bw shrinks" /\ s.lits = <<>> /\ a = 10 /\ b = 13

\* A pass of the watcher: under the mutex from 1 to 4, with the driver's channel in 2,
\* in 3 because that is not the structure's, and in 5 done.
WatchFree(s) ==
  /\ MemOf(s) = {} /\ DrvOf(s) = {} /\ FileOf(s) = {} /\ LocalOf(s) = {}
  /\ s.op \notin {"lock", "unlock"} /\ ~Refuses(s)

WatchGoes(s, a, b) ==
  \/ a = b /\ WatchFree(s)
  \/ a = 0 /\ b = 1 /\ s.op = "lock"
  \/ a = 1 /\ b = 2 /\ Queries(s, "slb_get_channel", "channel", "tmp_channel")
  \/ a = 2 /\ b = 3 /\ s.op = "if" /\ s.arg = "channel moved" /\ s.lits = <<>>
  \/ a = 3 /\ b = 3 /\ s.op = "assign" /\ s.arg = "channel"
  \/ a = 3 /\ b = 3 /\ s.op = "copy"
  \/ a = 3 /\ b = 4 /\ s.op = "save" /\ s.arg = "CHANNEL" /\ s.name = "channel"
  \/ a = 4 /\ b = 5 /\ s.op = "unlock"

WatchSkips(s, a, b) ==
  b = a \/ (s.arg = "channel moved" /\ s.lits = <<>> /\ a = 2 /\ b = 4)

\* The boot: the driver has the channel of the structure in 1.
BootGoes(s, a, b) ==
  /\ NoLocals(s) /\ FileOf(s) = {} /\ s.op \notin {"lock", "unlock"} /\ ~Refuses(s)
  /\ \/ a = 0 /\ b = 0
     \/ a = 0 /\ b = 1 /\ Sets(s, "slb_set_channel")
     \/ a = 1 /\ b = 1 /\ "channel" \notin MemOf(s) \cup DrvOf(s)

\* The key that the handlers save a parameter under, and the one it is read from.
KeyOf == [bw |-> "BW", tfc_bw |-> "TFC_BW", channel |-> "CHANNEL", type |-> "TYPE",
          cell_id |-> "CELL_ID", log_port |-> "LOG_PORT", ip |-> "IP", name |-> "NAME",
          net_manage_ip |-> "NET_MANAGE_IP", cc_offset |-> "CC_SPOS", cp_type |-> "CP_TYPE",
          symbol_type |-> "SYMBOL_CFG", sysmsg_period |-> "SYSMSG_PERIOD",
          s_cfg_idx |-> "S_CFG_IDX", sec_exch_cap |-> "SEC_EXCH_CAP",
          range_opt |-> "RANGE_OPT", power |-> "TX_POWER", aifh_enable |-> "ACS_ENABLE",
          fisa_enable |-> "FISA_ENABLE", auto_join |-> "AUTO_JOIN_NET"]

ReadFrom(p) == IF p = "node_type" THEN "TYPE" ELSE KeyOf[p]

Loaded == Durable \cup {"node_type"}

\* Those saved under a key that is not read: only SYMBOL_TYPE is, which nobody saves.
Lost == {"symbol_type", "sec_exch_cap", "range_opt", "power"}

\* The boot again: what has been read back from the file so far, after the defaults.
LoadGoes(s, a, b) ==
  \/ <<s>> = param_default /\ a = {} /\ b = {"default"}
  \/ MemOf(s) = {} /\ b = a
  \/ /\ s.op = "read" /\ (s.name \in Loaded => s.arg = ReadFrom(s.name))
     /\ s.name \in Lost => s.arg = "SYMBOL_TYPE"
     /\ b = a \cup {s.name}

\* A request that takes parameters to save them, among those that last the ones in X:
\* which it has taken, and which it has saved.
FileGoes(X, s, a, b) ==
  /\ NoLocals(s)
  /\ \/ MemOf(s) = {} /\ FileOf(s) = {} /\ b = a
     \/ /\ s.op = "take" /\ (s.arg \in Durable => s.arg \in X) /\ s.arg \notin a[2]
        /\ b = <<a[1] \cup {s.arg}, a[2]>>
     \/ /\ s.op = "save" /\ s.lits = <<>> /\ s.name \in DOMAIN KeyOf /\ s.arg = KeyOf[s.name]
        /\ b = <<a[1], a[2] \cup {s.name}>>

Saves == [set_basicinfo   |-> {"type", "channel", "bw", "tfc_bw", "cell_id", "name", "ip",
                               "log_port", "net_manage_ip"},
          set_advinfo     |-> {"cell_id", "cc_offset", "cp_type", "sysmsg_period", "s_cfg_idx",
                               "fisa_enable", "aifh_enable"},
          autojoinNetwork |-> {"auto_join"}]

\* All others, of which two take a parameter, without the mutex.
PlainGoes(s, a, b)   == a = b /\ s.op # "take"
OneGoes(p, s, a, b)  == a = b /\ s.op # "lock" /\ (s.op = "take" => s.arg = p)

Goes(g, s, a, b) ==
  CASE g = "band"   -> BandGoes(s, a, b)
    [] g = "http"   -> HttpGoes(s, a, b)
    [] g = "watch"  -> WatchGoes(s, a, b)
    [] g = "boot"   -> BootGoes(s, a, b)
    [] g = "load"   -> LoadGoes(s, a, b)
    [] g = "plain"  -> PlainGoes(s, a, b)
    [] g = "switch" -> OneGoes("channel", s, a, b)
    [] g = "aifh"   -> OneGoes("aifh_enable", s, a, b)
    [] g = "set_basicinfo"   -> FileGoes(Saves["set_basicinfo"], s, a, b)
    [] g = "set_advinfo"     -> FileGoes(Saves["set_advinfo"], s, a, b)
    [] g = "autojoinNetwork" -> FileGoes(Saves["autojoinNetwork"], s, a, b)

Skips(g, s, a, b) ==
  CASE g = "band"  -> BandSkips(s, a, b)
    [] g = "http"  -> HttpSkips(s, a, b)
    [] g = "watch" -> WatchSkips(s, a, b)
    [] OTHER       -> a = b

\* A says where P is before each of its steps.
Outline(g, P, A) ==
  /\ IsSeq(P)
  /\ \A i \in 1 .. Len(P) :
       /\ Goes(g, P[i], A[i], A[i + 1])
       /\ P[i].op = "if" =>
            /\ P[i].name \in Nat /\ i + P[i].name <= Len(P)
            /\ Skips(g, P[i], A[i], A[i + 1 + P[i].name])

\* It leads from a to b.
Turns(g, P, a, b) == \E A : Outline(g, P, A) /\ A[1] = a /\ A[Len(P) + 1] = b

\* Outlines join where one ends and the other begins.
LEMMA TurnsJoined ==
  \A g, P, Q, a, b, c : Turns(g, P, a, b) /\ Turns(g, Q, b, c) => Turns(g, P \o Q, a, c)
<1> SUFFICES ASSUME NEW g, NEW P, NEW Q, NEW a, NEW b, NEW c,
                    Turns(g, P, a, b), Turns(g, Q, b, c)
             PROVE  Turns(g, P \o Q, a, c)
  OBVIOUS
<1>1. PICK A : Outline(g, P, A) /\ A[1] = a /\ A[Len(P) + 1] = b
  BY DEF Turns
<1>2. PICK B : Outline(g, Q, B) /\ B[1] = b /\ B[Len(Q) + 1] = c
  BY DEF Turns
<1> DEFINE m == Len(P)
           n == Len(Q)
           R == P \o Q
           C == [i \in 1 .. m + n + 1 |-> IF i <= m THEN A[i] ELSE B[i - m]]
<1>3. InTwo(P, Q, R) /\ IsSeq(R)
  BY <1>1, <1>2, Halves DEF Outline
<1>4. /\ m \in Nat /\ n \in Nat /\ Len(R) = m + n
      /\ \A i \in 1 .. Len(R) :
            \/ i \in 1 .. m /\ R[i] = P[i]
            \/ i - m \in 1 .. n /\ R[i] = Q[i - m]
  BY <1>3, Zenon DEF InTwo
<1>5. /\ \A i \in 1 .. m + 1 : C[i] = A[i]
      /\ \A i \in 1 .. n + 1 : C[m + i] = B[i]
  BY <1>1, <1>2, <1>4
<1>p. \A i \in 1 .. m :
        /\ Goes(g, P[i], A[i], A[i + 1])
        /\ P[i].op = "if" =>
             /\ P[i].name \in Nat /\ i + P[i].name <= m
             /\ Skips(g, P[i], A[i], A[i + 1 + P[i].name])
  BY <1>1 DEF Outline
<1>q. \A i \in 1 .. n :
        /\ Goes(g, Q[i], B[i], B[i + 1])
        /\ Q[i].op = "if" =>
             /\ Q[i].name \in Nat /\ i + Q[i].name <= n
             /\ Skips(g, Q[i], B[i], B[i + 1 + Q[i].name])
  BY <1>2 DEF Outline
<1>6. C[1] = a /\ C[Len(R) + 1] = c
  <2>1. C[1] = A[1]
    BY <1>4, <1>5
  <2>2. C[Len(R) + 1] = B[n + 1]
    <3>1. m + (n + 1) = Len(R) + 1
      BY <1>4
    <3> QED
      BY <3>1, <1>4, <1>5
  <2> QED
    BY <1>1, <1>2, <2>1, <2>2
<1> HIDE DEF R, C, m, n
<1>7. ASSUME NEW i \in 1 .. Len(R)
      PROVE  /\ Goes(g, R[i], C[i], C[i + 1])
             /\ R[i].op = "if" =>
                  /\ R[i].name \in Nat /\ i + R[i].name <= Len(R)
                  /\ Skips(g, R[i], C[i], C[i + 1 + R[i].name])
  <2>1. CASE i \in 1 .. m /\ R[i] = P[i]
    <3>1. C[i] = A[i] /\ C[i + 1] = A[i + 1]
      BY <2>1, <1>4, <1>5
    <3>2. ASSUME P[i].op = "if"
          PROVE  /\ P[i].name \in Nat /\ i + P[i].name <= Len(R)
                 /\ C[i + 1 + P[i].name] = A[i + 1 + P[i].name]
      BY <2>1, <3>2, <1>p, <1>4, <1>5
    <3> QED
      BY <2>1, <3>1, <3>2, <1>p
  <2>2. CASE i - m \in 1 .. n /\ R[i] = Q[i - m]
    <3> DEFINE j == i - m
    <3>1. j \in 1 .. n /\ R[i] = Q[j] /\ i = m + j /\ i + 1 = m + (j + 1)
      BY <2>2, <1>4
    <3> HIDE DEF j
    <3>2. C[i] = B[j] /\ C[i + 1] = B[j + 1]
      BY <3>1, <1>4, <1>5
    <3>3. ASSUME Q[j].op = "if"
          PROVE  /\ Q[j].name \in Nat /\ i + Q[j].name <= Len(R)
                 /\ C[i + 1 + Q[j].name] = B[j + 1 + Q[j].name]
      <4>1. Q[j].name \in Nat /\ j + Q[j].name <= n
        BY <3>1, <3>3, <1>q
      <4>2. i + 1 + Q[j].name = m + (j + 1 + Q[j].name) /\ j + 1 + Q[j].name \in 1 .. n + 1
        BY <3>1, <4>1, <1>4
      <4>3. C[m + (j + 1 + Q[j].name)] = B[j + 1 + Q[j].name]
        BY <4>2, <1>5
      <4>4. i + Q[j].name <= Len(R)
        BY <3>1, <4>1, <1>4
      <4> QED
        BY <4>1, <4>2, <4>3, <4>4
    <3> QED
      BY <3>1, <3>2, <3>3, <1>q
  <2> QED
    BY <2>1, <2>2, <1>4
<1>8. Outline(g, R, C)
  BY <1>3, <1>7 DEF Outline, R
<1> QED
  BY <1>6, <1>8 DEF Turns, R

\* The outline of a single step.
LEMMA TurnsStep ==
  \A g, s, a, b : Goes(g, s, a, b) /\ s.op # "if" => Turns(g, <<s>>, a, b)
<1> SUFFICES ASSUME NEW g, NEW s, NEW a, NEW b, Goes(g, s, a, b), s.op # "if"
             PROVE  Turns(g, <<s>>, a, b)
  OBVIOUS
<1> DEFINE A == <<a, b>>
<1>1. <<s>> \in Seq({s}) /\ Len(<<s>>) = 1 /\ <<s>>[1] = s
  OBVIOUS
<1>2. \A i \in 1 .. Len(<<s>>) : i = 1
  BY <1>1
<1>3. A[1] = a /\ A[2] = b
  OBVIOUS
<1> HIDE DEF A
<1>4. Outline(g, <<s>>, A)
  <2>1. ASSUME NEW i \in 1 .. Len(<<s>>)
        PROVE  /\ Goes(g, <<s>>[i], A[i], A[i + 1])
               /\ <<s>>[i].op # "if"
    <3>1. i = 1 /\ i + 1 = 2
      BY <1>2
    <3> QED
      BY <3>1, <1>1, <1>3, Zenon
  <2>2. IsSeq(<<s>>)
    BY <1>1 DEF IsSeq
  <2> HIDE DEF A
  <2> QED
    BY <2>1, <2>2, Zenon DEF Outline
<1>5. Len(<<s>>) + 1 = 2
  BY <1>1
<1> QED
  BY <1>3, <1>4, <1>5, Zenon DEF Turns

\* A condition: where it leads when it holds, and when it does not.
LEMMA TurnsIf ==
  \A g, c, P, a, b, d :
    /\ Turns(g, P, b, d)
    /\ Goes(g, [op |-> "if", arg |-> c, name |-> Len(P), lits |-> <<>>], a, b)
    /\ Skips(g, [op |-> "if", arg |-> c, name |-> Len(P), lits |-> <<>>], a, d)
    => Turns(g, If(c, P), a, d)
<1> SUFFICES ASSUME NEW g, NEW c, NEW P, NEW a, NEW b, NEW d, Turns(g, P, b, d),
                    Goes(g, [op |-> "if", arg |-> c, name |-> Len(P), lits |-> <<>>], a, b),
                    Skips(g, [op |-> "if", arg |-> c, name |-> Len(P), lits |-> <<>>], a, d)
             PROVE  Turns(g, If(c, P), a, d)
  OBVIOUS
<1> DEFINE s == [op |-> "if", arg |-> c, name |-> Len(P), lits |-> <<>>]
           m == Len(P)
           R == <<s>> \o P
<1>1. PICK A : Outline(g, P, A) /\ A[1] = b /\ A[Len(P) + 1] = d
  BY DEF Turns
<1> DEFINE C == [i \in 1 .. m + 2 |-> IF i = 1 THEN a ELSE A[i - 1]]
<1>2. <<s>> \in Seq({s}) /\ Len(<<s>>) = 1 /\ <<s>>[1] = s
  OBVIOUS
<1>3. InTwo(<<s>>, P, R) /\ IsSeq(R)
  BY <1>1, <1>2, Halves DEF Outline, IsSeq
<1>4. /\ m \in Nat /\ Len(R) = 1 + m /\ R[1] = s
      /\ \A i \in 1 .. m : R[1 + i] = P[i]
  BY <1>2, <1>3 DEF InTwo
<1>5. C[1] = a /\ \A i \in 1 .. m + 1 : C[1 + i] = A[i]
  BY <1>4
<1>6. s.op = "if" /\ s.name = m /\ Goes(g, s, a, b) /\ Skips(g, s, a, d)
  OBVIOUS
<1>7. R = If(c, P)
  BY DEF If
<1>8. A[m + 1] = d
  BY <1>1
<1>p. \A i \in 1 .. m :
        /\ Goes(g, P[i], A[i], A[i + 1])
        /\ P[i].op = "if" =>
             /\ P[i].name \in Nat /\ i + P[i].name <= m
             /\ Skips(g, P[i], A[i], A[i + 1 + P[i].name])
  BY <1>1 DEF Outline
<1> HIDE DEF s, R, C, m
<1>9. ASSUME NEW i \in 1 .. Len(R)
      PROVE  /\ Goes(g, R[i], C[i], C[i + 1])
             /\ R[i].op = "if" =>
                  /\ R[i].name \in Nat /\ i + R[i].name <= Len(R)
                  /\ Skips(g, R[i], C[i], C[i + 1 + R[i].name])
  <2>1. CASE i = 1
    <3>1. C[i] = a /\ C[i + 1] = b /\ R[i] = s
      BY <2>1, <1>1, <1>4, <1>5
    <3>2. i + 1 + m = 1 + (m + 1) /\ m + 1 \in 1 .. m + 1 /\ i + m <= Len(R)
      BY <2>1, <1>4
    <3>3. C[i + 1 + m] = d
      BY <3>2, <1>5, <1>8
    <3> QED
      BY <3>1, <3>2, <3>3, <1>4, <1>6, Zenon
  <2>2. CASE i # 1
    <3> DEFINE j == i - 1
    <3>1. j \in 1 .. m /\ i = 1 + j /\ i + 1 = 1 + (j + 1)
      BY <2>2, <1>4
    <3> HIDE DEF j
    <3>2. R[i] = P[j] /\ C[i] = A[j] /\ C[i + 1] = A[j + 1]
      BY <3>1, <1>4, <1>5
    <3>3. ASSUME P[j].op = "if"
          PROVE  /\ P[j].name \in Nat /\ i + P[j].name <= Len(R)
                 /\ C[i + 1 + P[j].name] = A[j + 1 + P[j].name]
      <4>1. P[j].name \in Nat /\ j + P[j].name <= m
        BY <3>1, <3>3, <1>p
      <4>2. i + 1 + P[j].name = 1 + (j + 1 + P[j].name) /\ j + 1 + P[j].name \in 1 .. m + 1
        BY <3>1, <4>1, <1>4
      <4>3. C[1 + (j + 1 + P[j].name)] = A[j + 1 + P[j].name]
        BY <4>2, <1>5
      <4>4. i + P[j].name <= Len(R)
        BY <3>1, <4>1, <1>4
      <4> QED
        BY <4>1, <4>2, <4>3, <4>4
    <3> QED
      BY <3>1, <3>2, <3>3, <1>p
  <2> QED
    BY <2>1, <2>2
<1>10. Outline(g, R, C)
  BY <1>3, <1>9 DEF Outline
<1>11. Len(R) + 1 = 1 + (m + 1) /\ m + 1 \in 1 .. m + 1
  BY <1>4
<1>12. C[Len(R) + 1] = d
  BY <1>11, <1>5, <1>8
<1> QED
  BY <1>5, <1>7, <1>10, <1>12, Zenon DEF Turns

-----------------------------------------------------------------------------
(***************************************************************************)
(* The functions of NodeApi, in outline                                    *)
(***************************************************************************)
\* Has nothing to do with what outlines follow; not even at boot; may be refused.
Aside(P) == (\A a : Turns("band", P, a, a)) /\ (\A a : Turns("http", P, a, a))
Calm(P)  == Aside(P) /\ Turns("boot", P, 0, 0) /\ Turns("boot", P, 1, 1)
Rests(P) == Turns("band", P, "rest", "rest") /\ Turns("http", P, 0, 0)

\* The three kinds follow from each other, join, and may be conditional.
LEMMA KindsOutlined ==
  /\ \A P : (Calm(P) => Aside(P)) /\ (Aside(P) => Rests(P))
  /\ \A P, Q : /\ Aside(P) /\ Aside(Q) => Aside(P \o Q)
               /\ Calm(P) /\ Calm(Q) => Calm(P \o Q)
               /\ Rests(P) /\ Rests(Q) => Rests(P \o Q)
  /\ \A c, P : (c \notin {"bw grows", "bw shrinks", "channel moved"}) =>
               /\ Aside(P) => Aside(If(c, P))
               /\ Calm(P) => Calm(If(c, P))
               /\ Rests(P) => Rests(If(c, P))
<1>1. \A P : (Calm(P) => Aside(P)) /\ (Aside(P) => Rests(P))
  BY Zenon DEF Aside, Calm, Rests
<1>2. \A P, Q : /\ Aside(P) /\ Aside(Q) => Aside(P \o Q)
                /\ Calm(P) /\ Calm(Q) => Calm(P \o Q)
                /\ Rests(P) /\ Rests(Q) => Rests(P \o Q)
  <2> TAKE P, Q
  <2>1. Aside(P) /\ Aside(Q) => Aside(P \o Q)
    BY TurnsJoined, Zenon DEF Aside
  <2>2. Calm(P) /\ Calm(Q) => Calm(P \o Q)
    BY <2>1, TurnsJoined, Zenon DEF Calm
  <2>3. Rests(P) /\ Rests(Q) => Rests(P \o Q)
    BY TurnsJoined, Zenon DEF Rests
  <2> QED
    BY <2>1, <2>2, <2>3
<1>3. ASSUME NEW c, NEW P
      PROVE  /\ Aside(P) => Aside(If(c, P))
             /\ Calm(P) => Calm(If(c, P))
             /\ Rests(P) => Rests(If(c, P))
  <2> DEFINE s == [op |-> "if", arg |-> c, name |-> Len(P), lits |-> <<>>]
  <2>1. /\ MemOf(s) = {} /\ DrvOf(s) = {} /\ FileOf(s) = {} /\ LocalOf(s) = {}
        /\ s.op = "if" /\ ~Refuses(s)
    BY DEF MemOf, DrvOf, FileOf, LocalOf, Refuses
  <2> HIDE DEF s
  <2>2. \A a : Goes("band", s, a, a) /\ Skips("band", s, a, a)
    BY <2>1 DEF Goes, Skips, BandGoes, BandSkips, BandFree
  <2>3. \A a : Goes("http", s, a, a) /\ Skips("http", s, a, a)
    BY <2>1 DEF Goes, Skips, HttpGoes, HttpSkips, HttpFree, NoLocals
  <2>4. \A a \in {0, 1} : Goes("boot", s, a, a) /\ Skips("boot", s, a, a)
    BY <2>1 DEF Goes, Skips, BootGoes, NoLocals
  <2>5. /\ \A a : Turns("band", P, a, a) => Turns("band", If(c, P), a, a)
        /\ \A a : Turns("http", P, a, a) => Turns("http", If(c, P), a, a)
        /\ \A a \in {0, 1} : Turns("boot", P, a, a) => Turns("boot", If(c, P), a, a)
    BY <2>2, <2>3, <2>4, TurnsIf, Zenon DEF s
  <2>6. 0 \in {0, 1} /\ 1 \in {0, 1}
    OBVIOUS
  <2> QED
    BY <2>5, <2>6, Zenon DEF Aside, Calm, Rests
<1> QED
  BY <1>1, <1>2, <1>3, Zenon

\* Single steps.
LEMMA CalmSteps ==
  /\ \A w, l : w \in Setters /\ WrittenBy(w) \cap Watched = {} => Calm(SetTo(w, l)) /\ Calm(Set(w))
  /\ \A w : w \in Getters /\ ReadBy(w) \cap Watched = {} => Calm(Get(w))
  /\ Calm(Down) /\ Calm(Up) /\ Calm(Row) /\ Calm(Reboot)
  /\ \A c : Calm(Show(c)) /\ Calm(Tell(c))
  /\ \A p : p \notin Watched => Aside(Take(p)) /\ Aside(Op("clear", p))
  /\ \A k, p : k # "CHANNEL" => Aside(Save(k, p))
  /\ Aside(Query("slb_get_channel", "channel", "tmp_channel"))
<1> DEFINE Free(s) == /\ MemOf(s) \cap Watched = {} /\ DrvOf(s) \cap Watched = {}
                      /\ LocalOf(s) \cap (Params \cup {"bw_now"}) = {}
                      /\ "CHANNEL" \notin FileOf(s)
                      /\ s.op \notin {"if", "lock", "unlock"} /\ ~Refuses(s)
<1>1. ASSUME NEW s, Free(s)
      PROVE  Aside(<<s>>)
  <2>1. \A a : Goes("band", s, a, a) /\ Goes("http", s, a, a)
    <3>1. BandFree(s)
      BY <1>1 DEF BandFree, Watched, Params
    <3>2. HttpFree(s)
      BY <1>1 DEF HttpFree, NoLocals
    <3>3. ~Refuses(s)
      BY <1>1
    <3>4. \A a : BandGoes(s, a, a) /\ HttpGoes(s, a, a)
      BY <3>1, <3>2, <3>3, Zenon DEF BandGoes, HttpGoes
    <3> QED
      BY <3>4 DEF Goes
  <2>2. s.op # "if"
    BY <1>1
  <2> QED
    BY <2>1, <2>2, TurnsStep, Zenon DEF Aside
<1>2. ASSUME NEW s, Free(s), FileOf(s) = {}
      PROVE  Calm(<<s>>)
  <2>1. Goes("boot", s, 0, 0) /\ Goes("boot", s, 1, 1)
    BY <1>2 DEF Goes, BootGoes, NoLocals, Watched
  <2>2. s.op # "if"
    BY <1>2
  <2> QED
    BY <2>1, <2>2, <1>1, <1>2, TurnsStep, Zenon DEF Calm
<1>3. ASSUME NEW w, NEW l, w \in Setters, WrittenBy(w) \cap Watched = {}
      PROVE  Calm(SetTo(w, l)) /\ Calm(Set(w))
  BY <1>2, <1>3 DEF SetTo, Set, Op, MemOf, DrvOf, FileOf, LocalOf, Refuses
<1>4. ASSUME NEW w, w \in Getters, ReadBy(w) \cap Watched = {}
      PROVE  Calm(Get(w))
  BY <1>2, <1>4 DEF Get, Op, MemOf, DrvOf, FileOf, LocalOf, Refuses
<1>5. Calm(Down) /\ Calm(Up) /\ Calm(Row) /\ Calm(Reboot) /\ \A c : Calm(Show(c)) /\ Calm(Tell(c))
  BY <1>2 DEF Down, Up, Row, Reboot, Show, Tell, Op, MemOf, DrvOf, FileOf, LocalOf, Refuses
<1>6. \A p : p \notin Watched => Aside(Take(p)) /\ Aside(Op("clear", p))
  BY <1>1 DEF Take, Op, MemOf, DrvOf, FileOf, LocalOf, Refuses
<1>7. \A k, p : k # "CHANNEL" => Aside(Save(k, p))
  BY <1>1 DEF Save, MemOf, DrvOf, FileOf, LocalOf, Refuses
<1>8. Aside(Query("slb_get_channel", "channel", "tmp_channel"))
  <2> DEFINE s == [op |-> "query", arg |-> "slb_get_channel",
                   name |-> <<"channel", "tmp_channel">>, lits |-> <<>>]
  <2>1. LocalOf(s) = {"tmp_channel"} /\ MemOf(s) = {} /\ DrvOf(s) = {} /\ FileOf(s) = {}
        /\ s.op = "query" /\ ~Refuses(s)
    BY DEF LocalOf, MemOf, DrvOf, FileOf, Refuses
  <2> HIDE DEF s
  <2>2. Free(s)
    BY <2>1 DEF Params
  <2> QED
    BY <2>2, <1>1 DEF s, Query
<1> QED
  BY <1>3, <1>4, <1>5, <1>6, <1>7, <1>8, Zenon

\* A request that has copied parameters.
Loose(P)  == Turns("band", P, "rest", "rest") /\ Turns("http", P, 20, 20)
Copies(P) == Turns("band", P, "rest", "rest") /\ Turns("http", P, 0, 20)

\* What may follow when parameters have been copied.
LEMMA LooseJoined ==
  /\ \A P : Aside(P) => Loose(P)
  /\ \A P, Q : /\ Loose(P) /\ Loose(Q) => Loose(P \o Q)
               /\ Rests(P) /\ Copies(Q) => Copies(P \o Q)
               /\ Copies(P) /\ Loose(Q) => Copies(P \o Q)
  /\ \A c, P : Loose(P) => Loose(If(c, P))
<1>1. \A P : Aside(P) => Loose(P)
  BY Zenon DEF Aside, Loose
<1>2. \A P, Q : /\ Loose(P) /\ Loose(Q) => Loose(P \o Q)
                /\ Rests(P) /\ Copies(Q) => Copies(P \o Q)
                /\ Copies(P) /\ Loose(Q) => Copies(P \o Q)
  BY TurnsJoined, Zenon DEF Loose, Rests, Copies
<1>3. ASSUME NEW c, NEW P, Loose(P)
      PROVE  Loose(If(c, P))
  <2> DEFINE s == [op |-> "if", arg |-> c, name |-> Len(P), lits |-> <<>>]
  <2>1. /\ MemOf(s) = {} /\ DrvOf(s) = {} /\ LocalOf(s) = {} /\ s.op = "if" /\ ~Refuses(s)
    BY DEF MemOf, DrvOf, LocalOf, Refuses
  <2> HIDE DEF s
  <2>2. Goes("band", s, "rest", "rest") /\ Skips("band", s, "rest", "rest")
    BY <2>1 DEF Goes, Skips, BandGoes, BandSkips, BandFree
  <2>3. Goes("http", s, 20, 20) /\ Skips("http", s, 20, 20)
    BY <2>1 DEF Goes, Skips, HttpGoes, HttpSkips
  <2> QED
    BY <1>3, <2>2, <2>3, TurnsIf, Zenon DEF Loose, s
<1> QED
  BY <1>1, <1>2, <1>3, Zenon

\* The steps that requests are made of.
LEMMA RestSteps ==
  /\ Rests(Parse) /\ Rests(Null) /\ Rests(Popen) /\ \A c : Rests(Ask(c))
  /\ Rests(Op("remove", ""))
  /\ \A w : w \in Setters /\ WrittenBy(w) \cap {"bw", "tfc_bw"} = {} =>
       Rests(Set(w)) /\ Rests(MustSet(w)) /\ \A l : Rests(SetTo(w, l))
  /\ \A w : w \in Getters /\ ReadBy(w) \cap {"bw", "tfc_bw"} = {} => Rests(Get(w))
  /\ \A p : p \notin {"bw", "tfc_bw"} => Rests(Take(p))
  /\ \A k, p : Rests(Save(k, p)) /\ Loose(Save(k, p))
  /\ Loose(Null) /\ Loose(Op("joined", ""))
  /\ \A w : w \in Setters /\ WrittenBy(w) \cap {"bw", "tfc_bw"} = {} => Loose(MustSet(w))
  /\ \A p : p \notin {"bw", "tfc_bw", "bw_now"} => Copies(Copy(p)) /\ Loose(Copy(p))
<1> DEFINE Free(s) == /\ MemOf(s) \cap {"bw", "tfc_bw"} = {}
                      /\ DrvOf(s) \cap {"bw", "tfc_bw"} = {}
                      /\ LocalOf(s) \cap {"bw", "tfc_bw", "bw_now"} = {}
                      /\ s.op \notin {"if", "lock", "unlock"}
<1>1. ASSUME NEW s, Free(s)
      PROVE  Loose(<<s>>) /\ Copies(<<s>>) /\ (LocalOf(s) \cap Params = {} => Rests(<<s>>))
  <2>1. Goes("band", s, "rest", "rest")
    BY <1>1 DEF Goes, BandGoes, BandFree
  <2>2. Goes("http", s, 20, 20) /\ Goes("http", s, 0, 20)
    BY <1>1 DEF Goes, HttpGoes
  <2>3. LocalOf(s) \cap Params = {} => Goes("http", s, 0, 0)
    BY <1>1 DEF Goes, HttpGoes, NoLocals
  <2>4. s.op # "if"
    BY <1>1
  <2> QED
    BY <2>1, <2>2, <2>3, <2>4, TurnsStep, Zenon DEF Loose, Copies, Rests
<1>2. /\ Rests(Parse) /\ Rests(Null) /\ Rests(Popen) /\ \A c : Rests(Ask(c))
      /\ Rests(Op("remove", "")) /\ Loose(Null) /\ Loose(Op("joined", ""))
  BY <1>1 DEF Parse, Null, Popen, Ask, Op, MemOf, DrvOf, LocalOf
<1>3. ASSUME NEW w, w \in Setters, WrittenBy(w) \cap {"bw", "tfc_bw"} = {}
      PROVE  Rests(Set(w)) /\ Rests(MustSet(w)) /\ Loose(MustSet(w)) /\ \A l : Rests(SetTo(w, l))
  BY <1>1, <1>3 DEF SetTo, Set, MustSet, Op, MemOf, DrvOf, LocalOf
<1>4. ASSUME NEW w, w \in Getters, ReadBy(w) \cap {"bw", "tfc_bw"} = {}
      PROVE  Rests(Get(w))
  BY <1>1, <1>4 DEF Get, Op, MemOf, DrvOf, LocalOf
<1>5. \A p : p \notin {"bw", "tfc_bw"} => Rests(Take(p))
  BY <1>1 DEF Take, Op, MemOf, DrvOf, LocalOf
<1>6. \A k, p : Rests(Save(k, p)) /\ Loose(Save(k, p))
  BY <1>1 DEF Save, MemOf, DrvOf, LocalOf
<1>7. \A p : p \notin {"bw", "tfc_bw", "bw_now"} => Copies(Copy(p)) /\ Loose(Copy(p))
  BY <1>1 DEF Copy, MemOf, DrvOf, LocalOf
<1> QED
  BY <1>2, <1>3, <1>4, <1>5, <1>6, <1>7, Zenon

\* The steps that outlines tell apart.
LEMMA WatchedSteps ==
  /\ Turns("band", Take("bw"), "rest", "half") /\ Turns("http", Take("bw"), 2, 3)
  /\ Turns("band", Take("tfc_bw"), "half", "ready") /\ Turns("http", Take("tfc_bw"), 3, 4)
  /\ \A a : Turns("band", Take("channel"), a, a) /\ Turns("band", Take("cell_id"), a, a)
  /\ Turns("http", Take("channel"), 1, 2) /\ Turns("http", Take("cell_id"), 4, 5)
  /\ \A a : Turns("band", Lock, a, a) /\ Turns("band", Unlock, a, a)
  /\ Turns("http", Lock, 0, 1) /\ Turns("http", Unlock, 15, 16) /\ Turns("http", Unlock, 1, 0)
  /\ \A a : Turns("band", Save("CHANNEL", "channel"), a, a)
  /\ Turns("http", Save("CHANNEL", "channel"), 14, 15)
<1>1. Turns("band", Take("bw"), "rest", "half") /\ Turns("http", Take("bw"), 2, 3)
  BY TurnsStep DEF Take, Op, Goes, BandGoes, HttpGoes
<1>2. Turns("band", Take("tfc_bw"), "half", "ready") /\ Turns("http", Take("tfc_bw"), 3, 4)
  BY TurnsStep DEF Take, Op, Goes, BandGoes, HttpGoes
<1>3. \A a : Turns("band", Take("channel"), a, a) /\ Turns("band", Take("cell_id"), a, a)
  BY TurnsStep DEF Take, Op, Goes, BandGoes, BandFree, MemOf, DrvOf, LocalOf, Refuses
<1>4. Turns("http", Take("channel"), 1, 2) /\ Turns("http", Take("cell_id"), 4, 5)
  BY TurnsStep DEF Take, Op, Goes, HttpGoes
<1>5. \A a : Turns("band", Lock, a, a) /\ Turns("band", Unlock, a, a)
  BY TurnsStep DEF Lock, Unlock, Op, Goes, BandGoes, BandFree, MemOf, DrvOf, LocalOf, Refuses
<1>6. Turns("http", Lock, 0, 1) /\ Turns("http", Unlock, 15, 16) /\ Turns("http", Unlock, 1, 0)
  BY TurnsStep DEF Lock, Unlock, Op, Goes, HttpGoes
<1>7. \A a : Turns("band", Save("CHANNEL", "channel"), a, a)
  BY TurnsStep DEF Save, Goes, BandGoes, BandFree, MemOf, DrvOf, LocalOf, Refuses
<1>8. Turns("http", Save("CHANNEL", "channel"), 14, 15)
  BY TurnsStep DEF Save, Goes, HttpGoes
<1> QED
  BY <1>1, <1>2, <1>3, <1>4, <1>5, <1>6, <1>7, <1>8

\* The setters of the parameters that outlines follow.
LEMMA WatchedSetters ==
  /\ \A a : Turns("band", Set("slb_set_channel"), a, a) /\ Turns("band", Set("slb_set_cell_id"), a, a)
  /\ Turns("http", Set("slb_set_channel"), 5, 6) /\ Turns("http", Set("slb_set_cell_id"), 13, 14)
  /\ Turns("boot", Set("slb_set_channel"), 0, 1) /\ Turns("boot", Set("slb_set_cell_id"), 1, 1)
  /\ Turns("band", Set("slb_set_bw"), "grows", "grown")
  /\ Turns("band", Set("slb_set_tfc_bw"), "grown", "either")
  /\ Turns("band", Set("slb_set_tfc_bw"), "shrinks", "shrunk")
  /\ Turns("band", Set("slb_set_bw"), "shrunk", "rest")
  /\ Turns("band", Set("slb_set_bw"), "twenty", "broad")
  /\ Turns("band", Set("slb_set_tfc_bw"), "broad", "rest")
  /\ Turns("http", Set("slb_set_bw"), 8, 9) /\ Turns("http", Set("slb_set_tfc_bw"), 9, 10)
  /\ Turns("http", Set("slb_set_tfc_bw"), 11, 12) /\ Turns("http", Set("slb_set_bw"), 12, 13)
  /\ Turns("boot", Set("slb_set_bw"), 1, 1) /\ Turns("boot", Set("slb_set_tfc_bw"), 1, 1)
<1>1. \A a : Turns("band", Set("slb_set_channel"), a, a) /\ Turns("band", Set("slb_set_cell_id"), a, a)
  BY TurnsStep DEF Set, Op, Goes, BandGoes, BandFree, MemOf, DrvOf, LocalOf, Refuses, WrittenBy
<1>2. Turns("http", Set("slb_set_channel"), 5, 6) /\ Turns("http", Set("slb_set_cell_id"), 13, 14)
  BY TurnsStep DEF Set, Op, Goes, HttpGoes, Sets
<1>3. /\ Turns("boot", Set("slb_set_channel"), 0, 1) /\ Turns("boot", Set("slb_set_cell_id"), 1, 1)
      /\ Turns("boot", Set("slb_set_bw"), 1, 1) /\ Turns("boot", Set("slb_set_tfc_bw"), 1, 1)
  BY TurnsStep DEF Set, Op, Goes, BootGoes, Sets, MemOf, DrvOf, FileOf, LocalOf, NoLocals, Refuses,
                   WrittenBy
<1>4. /\ Turns("band", Set("slb_set_bw"), "grows", "grown")
      /\ Turns("band", Set("slb_set_tfc_bw"), "grown", "either")
      /\ Turns("band", Set("slb_set_tfc_bw"), "shrinks", "shrunk")
      /\ Turns("band", Set("slb_set_bw"), "shrunk", "rest")
      /\ Turns("band", Set("slb_set_bw"), "twenty", "broad")
      /\ Turns("band", Set("slb_set_tfc_bw"), "broad", "rest")
  BY TurnsStep DEF Set, Op, Goes, BandGoes, Sets
<1>5. /\ Turns("http", Set("slb_set_bw"), 8, 9) /\ Turns("http", Set("slb_set_tfc_bw"), 9, 10)
      /\ Turns("http", Set("slb_set_tfc_bw"), 11, 12) /\ Turns("http", Set("slb_set_bw"), 12, 13)
  BY TurnsStep DEF Set, Op, Goes, HttpGoes, Sets
<1> QED
  BY <1>1, <1>2, <1>3, <1>4, <1>5

\* Both bandwidths, in either order.
LEMMA SetBandwidthsOutlined ==
  /\ \A a \in {"rest", "ready"} : Turns("band", SetBandwidths, a, "rest")
  /\ Turns("http", SetBandwidths, 6, 13) /\ Turns("http", SetBandwidths, 0, 0)
<1> DEFINE grow == Set("slb_set_bw") \o Set("slb_set_tfc_bw")
           fall  == Set("slb_set_tfc_bw") \o Set("slb_set_bw")
           ask  == Query("slb_get_bw", "bw", "bw_now")
<1>1. \A a \in {"rest", "ready"} : Turns("band", ask, a, "known")
  BY TurnsStep DEF Query, Goes, BandGoes, Queries
<1>2. Turns("http", ask, 6, 7) /\ Turns("http", ask, 0, 0)
  <2>1. Turns("http", ask, 6, 7)
    BY TurnsStep DEF Query, Goes, HttpGoes, Queries
  <2>2. "bw_now" \notin Params
    BY DEF Params
  <2>3. Turns("http", ask, 0, 0)
    BY <2>2, TurnsStep DEF Query, Goes, HttpGoes, NoLocals, LocalOf
  <2> QED
    BY <2>1, <2>3
<1>3. Turns("band", grow, "grows", "either") /\ Turns("band", fall, "shrinks", "rest")
  BY TurnsJoined, WatchedSetters, Zenon
<1>4. Turns("http", grow, 8, 10) /\ Turns("http", fall, 11, 13)
  BY TurnsJoined, WatchedSetters, Zenon
<1>5. Turns("http", grow, 0, 0) /\ Turns("http", fall, 0, 0)
  <2>1. Turns("http", Set("slb_set_bw"), 0, 0) /\ Turns("http", Set("slb_set_tfc_bw"), 0, 0)
    BY TurnsStep DEF Set, Op, Goes, HttpGoes, NoLocals, LocalOf
  <2> QED
    BY <2>1, TurnsJoined, Zenon
<1> HIDE DEF grow, fall, ask
<1>6. /\ Turns("band", If("bw grows", grow), "known", "either")
      /\ Turns("http", If("bw grows", grow), 7, 10) /\ Turns("http", If("bw grows", grow), 0, 0)
  <2> DEFINE s == [op |-> "if", arg |-> "bw grows", name |-> Len(grow), lits |-> <<>>]
  <2>1. s.op = "if" /\ s.arg = "bw grows" /\ s.lits = <<>> /\ NoLocals(s)
    BY DEF NoLocals, LocalOf
  <2> HIDE DEF s
  <2>2. /\ Goes("band", s, "known", "grows") /\ Skips("band", s, "known", "either")
        /\ Goes("http", s, 7, 8) /\ Skips("http", s, 7, 10)
        /\ Goes("http", s, 0, 0) /\ Skips("http", s, 0, 0)
    BY <2>1 DEF Goes, Skips, BandGoes, BandSkips, HttpGoes, HttpSkips
  <2> QED
    BY <2>2, <1>3, <1>4, <1>5, TurnsIf, Zenon DEF s
<1>7. /\ Turns("band", If("bw shrinks", fall), "either", "rest")
      /\ Turns("http", If("bw shrinks", fall), 10, 13) /\ Turns("http", If("bw shrinks", fall), 0, 0)
  <2> DEFINE s == [op |-> "if", arg |-> "bw shrinks", name |-> Len(fall), lits |-> <<>>]
  <2>1. s.op = "if" /\ s.arg = "bw shrinks" /\ s.lits = <<>> /\ NoLocals(s)
    BY DEF NoLocals, LocalOf
  <2> HIDE DEF s
  <2>2. /\ Goes("band", s, "either", "shrinks") /\ Skips("band", s, "either", "rest")
        /\ Goes("http", s, 10, 11) /\ Skips("http", s, 10, 13)
        /\ Goes("http", s, 0, 0) /\ Skips("http", s, 0, 0)
    BY <2>1 DEF Goes, Skips, BandGoes, BandSkips, HttpGoes, HttpSkips
  <2> QED
    BY <2>2, <1>3, <1>4, <1>5, TurnsIf, Zenon DEF s
<1>8. SetBandwidths = (ask \o If("bw grows", grow)) \o If("bw shrinks", fall)
  BY DEF SetBandwidths, grow, fall, ask
<1>9. \A a \in {"rest", "ready"} : Turns("band", SetBandwidths, a, "rest")
  BY <1>1, <1>6, <1>7, <1>8, TurnsJoined, Zenon
<1>10. Turns("http", SetBandwidths, 6, 13) /\ Turns("http", SetBandwidths, 0, 0)
  BY <1>2, <1>6, <1>7, <1>8, TurnsJoined, Zenon
<1> QED
  BY <1>9, <1>10

\* All parameters, of which the radio's four are followed.
LEMMA SetNodeOutlined ==
  /\ \A a \in {"rest", "ready"} : Turns("band", set_node, a, "rest")
  /\ Turns("http", set_node, 5, 14) /\ Turns("http", set_node, 0, 0)
<1> DEFINE Sofar(P) == /\ \A a \in {"rest", "ready"} : Turns("band", P, a, "rest")
                       /\ Turns("http", P, 5, 14) /\ Turns("http", P, 0, 0)
           begin == Down \o Set("slb_set_channel") \o SetBandwidths
                    \o Set("slb_set_cc_start_pos") \o Set("slb_set_cell_id")
<1>1. /\ Aside(Set("slb_set_cc_start_pos")) /\ Aside(Set("slb_set_essid"))
      /\ Aside(Set("slb_set_mib_params")) /\ Aside(Set("slb_set_sec_auth_pwd"))
      /\ Aside(Set("slb_set_sec_exch_cap")) /\ Aside(Set("slb_set_range_opt"))
      /\ Aside(Set("slb_set_fisa_enable")) /\ Aside(Set("slb_set_acs_enable"))
      /\ Aside(Set("init_net_bridge")) /\ Aside(Set("slb_set_tx_power"))
      /\ Aside(Get("get_wt_vap_interface_count")) /\ Aside(Up) /\ Aside(Down) /\ Aside(Reboot)
  <2>1. \A w : w \in Setters /\ WrittenBy(w) \cap Watched = {} => Aside(Set(w))
    BY CalmSteps, KindsOutlined, Zenon
  <2>2. \A w : w \in Getters /\ ReadBy(w) \cap Watched = {} => Aside(Get(w))
    BY CalmSteps, KindsOutlined, Zenon
  <2>3. Aside(Up) /\ Aside(Down) /\ Aside(Reboot)
    BY CalmSteps, KindsOutlined, Zenon
  <2> QED
    BY <2>1, <2>2, <2>3 DEF Setters, Getters, WrittenBy, ReadBy, Watched
<1>2. /\ Aside(If("T", Set("slb_set_sec_exch_cap"))) /\ Aside(If("G", Set("slb_set_acs_enable")))
      /\ Aside(If("role differs", Reboot))
  BY <1>1, KindsOutlined
<1>3. Sofar(begin)
  <2> DEFINE c == Set("slb_set_channel")
             i == Set("slb_set_cell_id")
             o == Set("slb_set_cc_start_pos")
  <2>1. /\ \A a : Turns("band", Down, a, a) /\ Turns("http", Down, a, a)
        /\ \A a : Turns("band", o, a, a) /\ Turns("http", o, a, a)
    BY <1>1, Zenon DEF Aside
  <2>2. Turns("http", c, 0, 0) /\ Turns("http", i, 0, 0)
    <3>1. Rests(c) /\ Rests(i)
      BY RestSteps DEF Setters, WrittenBy
    <3> QED
      BY <3>1 DEF Rests
  <2>3. /\ \A a : Turns("band", c, a, a) /\ Turns("band", i, a, a)
        /\ Turns("http", c, 5, 6) /\ Turns("http", i, 13, 14)
    BY WatchedSetters, Zenon
  <2> HIDE DEF c, i, o
  <2>4. \A a \in {"rest", "ready"} : Turns("band", Down \o c \o SetBandwidths \o o \o i, a, "rest")
    BY ONLY <2>1, <2>3, SetBandwidthsOutlined, TurnsJoined, ZenonT(60)
  <2>5. Turns("http", Down \o c \o SetBandwidths \o o \o i, 5, 14)
    BY ONLY <2>1, <2>3, SetBandwidthsOutlined, TurnsJoined, ZenonT(60)
  <2>6. Turns("http", Down \o c \o SetBandwidths \o o \o i, 0, 0)
    BY ONLY <2>1, <2>2, SetBandwidthsOutlined, TurnsJoined, ZenonT(60)
  <2> QED
    BY <2>4, <2>5, <2>6 DEF c, i, o
<1>4. \A P, Q : Sofar(P) /\ Aside(Q) => Sofar(P \o Q)
  BY TurnsJoined, Zenon DEF Aside
<1>5. Sofar(begin) => Sofar(set_node)
  <2> HIDE DEF Sofar, begin
  <2>1. Sofar(begin) => Sofar(begin \o Set("slb_set_essid")
    \o Set("slb_set_mib_params") \o Set("slb_set_sec_auth_pwd")
    \o If("T", Set("slb_set_sec_exch_cap")) \o Set("slb_set_sec_exch_cap")
    \o Set("slb_set_range_opt") \o Set("slb_set_fisa_enable")
    \o If("G", Set("slb_set_acs_enable"))
    \o Set("init_net_bridge") \o Up
    \o Get("get_wt_vap_interface_count") \o Set("slb_set_tx_power")
    \o If("role differs", Reboot))
    BY ONLY <1>1, <1>2, <1>4, ZenonT(60)
  <2> QED
    BY <2>1, Zenon DEF set_node, begin
<1> QED
  BY <1>3, <1>5

\* A function without steps.
LEMMA EmptyOutlined == Calm(<<>>)
<1>1. IsSeq(<<>>) /\ Len(<<>>) = 0 /\ Len(<<>>) + 1 = 1
  <2>1. <<>> \in Seq({}) /\ Len(<<>>) = 0
    OBVIOUS
  <2> QED
    BY <2>1 DEF IsSeq
<1>2. ASSUME NEW g, NEW a
      PROVE  Turns(g, <<>>, a, a)
  <2> DEFINE A == <<a>>
  <2>1. A[1] = a
    OBVIOUS
  <2> HIDE DEF A
  <2>2. Outline(g, <<>>, A)
    BY <1>1 DEF Outline
  <2> QED
    BY <1>1, <2>1, <2>2, Zenon DEF Turns
<1> QED
  BY <1>2 DEF Calm, Aside

\* The parameters of the node.
LEMMA BasicOutlined ==
  /\ Turns("band", wtsl_core_set_node_basicinfo, "rest", "rest")
  /\ Turns("http", wtsl_core_set_node_basicinfo, 0, 16)
<1>1. Aside(Take("type")) /\ Aside(Take("name")) /\ Aside(Take("ip")) /\ Aside(Take("password"))
      /\ Aside(Take("log_port")) /\ Aside(Take("net_manage_ip"))
  BY CalmSteps DEF Watched
<1>2. \A k, p : k # "CHANNEL" => Aside(Save(k, p))
  BY CalmSteps
<1>3. Turns("band", TakeBasic, "rest", "ready")
  BY <1>1, WatchedSteps, TurnsJoined, ZenonT(60) DEF TakeBasic, Aside
<1>4. Turns("http", TakeBasic, 1, 5)
  BY <1>1, WatchedSteps, TurnsJoined, ZenonT(60) DEF TakeBasic, Aside
<1>5. Turns("band", SaveBasic, "rest", "rest") /\ Turns("http", SaveBasic, 14, 15)
  <2>1. /\ Aside(Save("BW", "bw")) /\ Aside(Save("TFC_BW", "tfc_bw"))
        /\ Aside(Save("TYPE", "type")) /\ Aside(Save("CELL_ID", "cell_id"))
        /\ Aside(Save("LOG_PORT", "log_port")) /\ Aside(Save("IP", "ip"))
        /\ Aside(Save("NAME", "name")) /\ Aside(Save("NET_MANAGE_IP", "net_manage_ip"))
    BY <1>2
  <2>2. Turns("band", SaveBasic, "rest", "rest")
    BY ONLY <2>1, WatchedSteps, TurnsJoined, ZenonT(60) DEF SaveBasic, Aside
  <2>3. Turns("http", SaveBasic, 14, 15)
    BY ONLY <2>1, WatchedSteps, TurnsJoined, ZenonT(60) DEF SaveBasic, Aside
  <2> QED
    BY <2>2, <2>3
<1>6. Rests(Parse) /\ Aside(Row)
  BY RestSteps, CalmSteps, KindsOutlined
<1>7. /\ Turns("band", Parse, "rest", "rest") /\ Turns("http", Parse, 0, 0)
      /\ Turns("band", Row, "rest", "rest") /\ Turns("http", Row, 16, 16)
  BY <1>6, Zenon DEF Rests, Aside
<1>8. /\ Turns("band", Lock, "rest", "rest") /\ Turns("band", Unlock, "rest", "rest")
      /\ Turns("http", Lock, 0, 1) /\ Turns("http", Unlock, 15, 16)
  BY WatchedSteps, Zenon
<1>9. Turns("band", set_node, "ready", "rest") /\ Turns("http", set_node, 5, 14)
  BY SetNodeOutlined
<1>10. Turns("band", wtsl_core_set_node_basicinfo, "rest", "rest")
  BY ONLY <1>3, <1>5, <1>7, <1>8, <1>9, TurnsJoined, ZenonT(60)
     DEF wtsl_core_set_node_basicinfo, wtsl_core_parse_json_setnode
<1>11. Turns("http", wtsl_core_set_node_basicinfo, 0, 16)
  <2> DEFINE A == Parse \o Lock
             B == A \o TakeBasic
             C == B \o set_node
             D == C \o SaveBasic
             E == D \o Unlock
  <2>1. wtsl_core_set_node_basicinfo = E \o Row
    BY DEF wtsl_core_set_node_basicinfo, wtsl_core_parse_json_setnode
  <2>2. Turns("http", A, 0, 1)
    BY <1>7, <1>8, TurnsJoined
  <2> HIDE DEF A
  <2>3. Turns("http", B, 0, 5)
    BY <2>2, <1>4, TurnsJoined
  <2> HIDE DEF B
  <2>4. Turns("http", C, 0, 14)
    BY <2>3, <1>9, TurnsJoined
  <2> HIDE DEF C
  <2>5. Turns("http", D, 0, 15)
    BY <2>4, <1>5, TurnsJoined
  <2> HIDE DEF D
  <2>6. Turns("http", E, 0, 16)
    BY <2>5, <1>8, TurnsJoined
  <2> HIDE DEF E
  <2> QED
    BY <2>1, <2>6, <1>7, TurnsJoined
<1> QED
  BY <1>10, <1>11

\* The advanced parameters.
LEMMA AdvancedOutlined == Rests(wtsl_core_set_node_advinfo)
<1>1. /\ Rests(Take("cell_id")) /\ Rests(Take("cc_offset")) /\ Rests(Take("cp_type"))
      /\ Rests(Take("symbol_type")) /\ Rests(Take("sysmsg_period")) /\ Rests(Take("s_cfg_idx"))
      /\ Rests(Take("sec_exch_cap")) /\ Rests(Take("range_opt")) /\ Rests(Take("aifh_enable"))
      /\ Rests(Take("power")) /\ Rests(Take("fisa_enable"))
      /\ Rests(Parse)
  BY RestSteps
<1>2. \A k, p : Rests(Save(k, p))
  BY RestSteps
<1>3. Rests(Row)
  BY CalmSteps, KindsOutlined
<1>4. Rests(set_node)
  BY SetNodeOutlined DEF Rests
<1>5. \A P, Q : Rests(P) /\ Rests(Q) => Rests(P \o Q)
  BY KindsOutlined
<1> QED
  BY ONLY <1>1, <1>2, <1>3, <1>4, <1>5, ZenonT(60)
     DEF wtsl_core_set_node_advinfo, wtsl_core_parse_json_set_node_advinfo

\* The modes of operation.
LEMMA ModesOutlined ==
  /\ Rests(wtsl_core_do_shortrange) /\ Rests(wtsl_core_do_remoterange)
  /\ Rests(wtsl_core_do_lowlatency) /\ Rests(wtsl_core_do_throughput)
  /\ Rests(wtsl_core_do_lowpow)
<1>1. Rests(WideChannel)
  <2> DEFINE c == SetTo("slb_set_channel", Value("channel", 1875))
             x == Adopt("slb_set_bw", Value("bw", 80))
             y == Adopt("slb_set_tfc_bw", Value("tfc_bw", 80))
  <2>1. Rests(Down) /\ Rests(c)
    <3>1. "slb_set_channel" \in Setters /\ WrittenBy("slb_set_channel") \cap {"bw", "tfc_bw"} = {}
      BY DEF Setters, WrittenBy
    <3>2. Rests(Down)
      BY CalmSteps, KindsOutlined, Zenon
    <3>3. \A l : Rests(SetTo("slb_set_channel", l))
      BY <3>1, RestSteps, Zenon
    <3> QED
      BY <3>2, <3>3
  <2>2. Turns("band", x, "rest", "wide") /\ Turns("band", y, "wide", "rest")
    BY TurnsStep DEF Adopt, Goes, BandGoes
  <2>3. Turns("http", x, 0, 0) /\ Turns("http", y, 0, 0)
    BY TurnsStep DEF Adopt, Goes, HttpGoes, NoLocals, LocalOf
  <2> HIDE DEF c
  <2>4. Rests(Down \o c)
    BY <2>1, KindsOutlined, Zenon
  <2> DEFINE A == Down \o c
             B == A \o x
  <2>5. WideChannel = B \o y
    BY DEF WideChannel, c
  <2> HIDE DEF A, x, y
  <2>6. Turns("band", B, "rest", "wide") /\ Turns("http", B, 0, 0)
    BY <2>2, <2>3, <2>4, TurnsJoined DEF Rests, A
  <2> HIDE DEF B
  <2>7. Turns("band", WideChannel, "rest", "rest") /\ Turns("http", WideChannel, 0, 0)
    BY <2>2, <2>3, <2>5, <2>6, TurnsJoined
  <2> QED
    BY <2>7 DEF Rests
<1>2. \A l : Rests(SetTo("slb_set_mib_params", l)) /\ Rests(SetTo("slb_set_range_opt", l))
             /\ Rests(SetTo("slb_set_tx_power", l))
  BY RestSteps DEF Setters, WrittenBy
<1>3. \A c, y : Rests(Mib(c, y))
  BY <1>2 DEF Mib
<1>4. Rests(Up) /\ Rests(Row) /\ (\A c : Rests(Tell(c))) /\ Rests(<<>>)
  BY CalmSteps, KindsOutlined, EmptyOutlined
<1>5. \A P, Q : Rests(P) /\ Rests(Q) => Rests(P \o Q)
  BY KindsOutlined
<1>6. Rests(wtsl_core_do_shortrange) /\ Rests(wtsl_core_do_lowlatency) /\ Rests(wtsl_core_do_lowpow)
  BY ONLY <1>1, <1>3, <1>4, <1>5, ZenonT(60)
     DEF wtsl_core_do_shortrange, wtsl_core_parse_json_do_shortrange, wtsl_core_do_lowlatency,
         wtsl_core_parse_json_do_lowlatency, wtsl_core_do_lowpow, wtsl_core_parse_json_do_lowpow
<1>7. Rests(wtsl_core_do_remoterange)
  BY ONLY <1>1, <1>2, <1>3, <1>4, <1>5, ZenonT(60)
     DEF wtsl_core_do_remoterange, wtsl_core_parse_json_do_remoterange
<1>8. Rests(wtsl_core_do_throughput)
  BY ONLY <1>1, <1>2, <1>3, <1>4, <1>5, ZenonT(60) DEF wtsl_core_do_throughput
<1> QED
  BY <1>6, <1>7, <1>8

\* Networks.
LEMMA NetworksOutlined ==
  /\ Copies(wtsl_core_do_connect)
  /\ Rests(wtsl_core_start_scan) /\ Rests(wtsl_core_auto_join_net)
  /\ Rests(wtsl_core_do_disconnect) /\ Rests(wtsl_core_show_bss)
  /\ Rests(wtsl_core_get_node_conninfo)
<1>1. Copies(wtsl_core_do_connect)
  <2> DEFINE ask == Query("slb_get_channel", "channel", "tmp_channel")
             put == Assign("channel", "tmp_channel")
             joins == Op("join", "")
  <2>1. Turns("band", joins, "rest", "joined") /\ Turns("http", joins, 0, 20)
    BY TurnsStep DEF Op, Goes, BandGoes, HttpGoes
  <2>2. Turns("band", ask, "joined", "joined") /\ Turns("http", ask, 20, 20)
    BY CalmSteps, Zenon DEF Aside
  <2>3. Turns("band", put, "joined", "joined") /\ Turns("http", put, 20, 20)
    BY TurnsStep DEF Assign, Goes, BandGoes, HttpGoes, BandFree, MemOf, DrvOf, LocalOf, Refuses
  <2>4. /\ Turns("band", If("tmp_channel # 0", put), "joined", "joined")
        /\ Turns("http", If("tmp_channel # 0", put), 20, 20)
    <3> DEFINE s == [op |-> "if", arg |-> "tmp_channel # 0", name |-> Len(put), lits |-> <<>>]
    <3>1. /\ MemOf(s) = {} /\ DrvOf(s) = {} /\ LocalOf(s) = {} /\ s.op = "if" /\ ~Refuses(s)
      BY DEF MemOf, DrvOf, LocalOf, Refuses
    <3> HIDE DEF s
    <3>2. /\ Goes("band", s, "joined", "joined") /\ Skips("band", s, "joined", "joined")
          /\ Goes("http", s, 20, 20) /\ Skips("http", s, 20, 20)
      BY <3>1 DEF Goes, Skips, BandGoes, BandSkips, HttpGoes, HttpSkips, BandFree
    <3> QED
      BY <2>3, <3>2, TurnsIf, Zenon DEF s
  <2>5. /\ Turns("band", Get("slb_get_bw"), "joined", "got")
        /\ Turns("band", Get("slb_get_tfc_bw"), "got", "rest")
        /\ Turns("http", Get("slb_get_bw"), 20, 20) /\ Turns("http", Get("slb_get_tfc_bw"), 20, 20)
    BY TurnsStep DEF Get, Op, Goes, BandGoes, HttpGoes
  <2>6. Rests(Parse) /\ Rests(Up) /\ Loose(Copy("channel")) /\ Loose(Op("joined", ""))
        /\ \A k, p : Loose(Save(k, p))
    BY RestSteps, CalmSteps, KindsOutlined
  <2>7. /\ Turns("band", Parse, "rest", "rest") /\ Turns("http", Parse, 0, 0)
        /\ Turns("band", Up, "rest", "rest") /\ Turns("http", Up, 0, 0)
    BY <2>6 DEF Rests
  <2> DEFINE first == Parse \o Up \o joins \o ask \o If("tmp_channel # 0", put)
                      \o Get("slb_get_bw") \o Get("slb_get_tfc_bw")
  <2>8. wtsl_core_do_connect =
          first \o Copy("channel") \o Save("CHANNEL", "channel") \o Save("BW", "bw")
          \o Save("TFC_BW", "tfc_bw") \o Op("joined", "")
    BY DEF wtsl_core_do_connect, wtsl_core_parse_json_tnode_join_net
  <2> HIDE DEF ask, put, joins
  <2>9. Copies(first)
    <3>1. Turns("band", first, "rest", "rest")
      BY ONLY <2>1, <2>2, <2>4, <2>5, <2>7, TurnsJoined, ZenonT(60)
    <3>2. Turns("http", first, 0, 20)
      <4>1. Turns("http", Parse \o Up \o joins, 0, 20)
        BY ONLY <2>1, <2>7, TurnsJoined, ZenonT(60)
      <4>2. \A P, Q : Turns("http", P, 0, 20) /\ Turns("http", Q, 20, 20)
                        => Turns("http", P \o Q, 0, 20)
        BY TurnsJoined
      <4> QED
        BY ONLY <4>1, <4>2, <2>2, <2>4, <2>5, ZenonT(60)
    <3> QED
      BY <3>1, <3>2 DEF Copies
  <2> HIDE DEF first
  <2>10. \A P, Q : Copies(P) /\ Loose(Q) => Copies(P \o Q)
    BY LooseJoined
  <2> QED
    BY ONLY <2>6, <2>8, <2>9, <2>10, ZenonT(60)
<1>2. Rests(Parse) /\ Rests(Take("auto_join")) /\ \A k, p : Rests(Save(k, p))
  BY RestSteps
<1>3. Rests(Up) /\ Rests(Down) /\ Rests(Row) /\ (\A c : Rests(Tell(c)) /\ Rests(Show(c)))
      /\ Rests(Op("clear", "auto_join"))
  BY CalmSteps, KindsOutlined DEF Watched
<1>4. \A P, Q : Rests(P) /\ Rests(Q) => Rests(P \o Q)
  BY KindsOutlined
<1>5. /\ Rests(wtsl_core_start_scan) /\ Rests(wtsl_core_auto_join_net)
      /\ Rests(wtsl_core_do_disconnect) /\ Rests(wtsl_core_show_bss)
  BY ONLY <1>2, <1>3, <1>4, ZenonT(60)
     DEF wtsl_core_start_scan, wtsl_core_auto_join_net, wtsl_core_do_disconnect,
         wtsl_core_show_bss, parse_show_bss_output, slb_t_node_scan
<1>6. Rests(wtsl_core_get_node_conninfo)
  <2>1. Turns("band", Lock \o Unlock, "rest", "rest") /\ Turns("http", Lock \o Unlock, 0, 0)
    BY WatchedSteps, TurnsJoined, Zenon
  <2>2. Rests(If("T", Lock \o Unlock))
    BY <2>1, KindsOutlined DEF Rests
  <2> QED
    BY <2>2, <1>3, <1>4
       DEF wtsl_core_get_node_conninfo, wtsl_core_parse_json_view_users
<1> QED
  BY <1>1, <1>5, <1>6

\* Single commands.
LEMMA CommandsOutlined ==
  /\ Copies(wtsl_core_do_aifh) /\ Copies(wtsl_core_do_chswitch)
  /\ Rests(wtsl_core_get_secalg) /\ Rests(wtsl_core_set_adaptivemcs)
  /\ Rests(wtsl_core_do_clearschmcs) /\ Rests(wtsl_core_get_adaptivemcsinfo)
  /\ Rests(wtsl_core_get_mcsboundinfo) /\ Rests(wtsl_core_set_mcsbound)
  /\ Rests(wtsl_core_get_node_traffic) /\ Rests(wtsl_core_do_time_sync)
  /\ Rests(wtsl_core_do_reboot) /\ Rests(wtsl_core_do_restore)
<1>1. Rests(Parse) /\ Rests(Take("aifh_enable")) /\ Rests(Take("channel")) /\ Rests(Popen)
      /\ Rests(Null) /\ (\A c : Rests(Ask(c))) /\ Rests(Op("remove", ""))
  BY RestSteps
<1>2. /\ Copies(Copy("aifh_enable")) /\ Copies(Copy("channel"))
      /\ Loose(MustSet("set_acs_enable")) /\ Loose(MustSet("bss_chan_switch"))
      /\ Loose(Null) /\ \A k, p : Loose(Save(k, p))
  BY RestSteps DEF Setters, WrittenBy
<1>3. Loose(If("aifh_enable illegal", Null)) /\ Loose(If("channel illegal", Null))
  BY <1>2, LooseJoined
<1>4. \A P, Q : /\ Rests(P) /\ Rests(Q) => Rests(P \o Q)
                /\ Rests(P) /\ Copies(Q) => Copies(P \o Q)
                /\ Copies(P) /\ Loose(Q) => Copies(P \o Q)
  BY LooseJoined, KindsOutlined
<1>5. Copies(wtsl_core_do_aifh) /\ Copies(wtsl_core_do_chswitch)
  BY ONLY <1>1, <1>2, <1>3, <1>4, ZenonT(60) DEF wtsl_core_do_aifh, wtsl_core_do_chswitch
<1>6. Rests(Reboot) /\ \A c : Rests(Tell(c)) /\ Rests(Show(c))
  BY CalmSteps, KindsOutlined
<1>7. Rests(If("time illegal", Null))
  BY <1>1, KindsOutlined
<1>8. /\ Rests(wtsl_core_get_secalg) /\ Rests(wtsl_core_set_adaptivemcs)
      /\ Rests(wtsl_core_do_clearschmcs) /\ Rests(wtsl_core_get_adaptivemcsinfo)
      /\ Rests(wtsl_core_get_mcsboundinfo) /\ Rests(wtsl_core_set_mcsbound)
  BY ONLY <1>1, <1>4, ZenonT(60)
     DEF wtsl_core_get_secalg, wtsl_core_set_adaptivemcs, wtsl_core_do_clearschmcs,
         wtsl_core_get_adaptivemcsinfo, wtsl_core_get_mcsboundinfo, wtsl_core_set_mcsbound
<1>9. /\ Rests(wtsl_core_get_node_traffic) /\ Rests(wtsl_core_do_time_sync)
      /\ Rests(wtsl_core_do_reboot) /\ Rests(wtsl_core_do_restore)
  BY ONLY <1>1, <1>4, <1>6, <1>7, ZenonT(60)
     DEF wtsl_core_get_node_traffic, wtsl_core_do_time_sync, wtsl_core_do_reboot,
         wtsl_core_do_restore
<1> QED
  BY <1>5, <1>8, <1>9

\* Readings.
LEMMA ReadingsOutlined ==
  /\ Rests(wtsl_core_get_all_nodes_info) /\ Rests(wtsl_core_get_node_basicinfo)
  /\ Rests(wtsl_core_get_node_advinfo) /\ Rests(wtsl_core_get_hw_resources_usage)
  /\ Rests(wtsl_core_get_traceinfo)
<1>1. Rests(Parse) /\ Rests(Null) /\ \A c : Rests(Show(c))
  BY RestSteps, CalmSteps, KindsOutlined
<1>2. \A P, Q : Rests(P) /\ Rests(Q) => Rests(P \o Q)
  BY KindsOutlined
<1>3. Rests(wtsl_core_get_all_nodes_info) /\ Rests(wtsl_core_get_node_basicinfo)
  BY <1>1 DEF wtsl_core_get_all_nodes_info, wtsl_core_get_node_basicinfo, create_node_info_json
<1>4. Rests(wtsl_core_get_node_advinfo)
  <2>1. /\ Rests(Get("slb_get_cc_start_pos")) /\ Rests(Get("slb_get_cell_id"))
        /\ Rests(Get("get_wt_vap_interface_count")) /\ Rests(Get("slb_get_chip_temperature"))
        /\ Rests(Get("slb_get_range_opt")) /\ Rests(Get("slb_get_acs_enable"))
        /\ Rests(Get("slb_get_mib_params")) /\ Rests(Get("slb_get_sec_exch_cap"))
        /\ Rests(Get("slb_get_sec_sec_cap")) /\ Rests(Get("slb_get_lce_mode"))
        /\ Rests(Get("slb_get_pps_switch")) /\ Rests(Get("slb_get_timestamp_cnt"))
        /\ Rests(Get("slb_get_wds_mode")) /\ Rests(Get("slb_get_view_mcs_info"))
        /\ Rests(Get("slb_get_real_power")) /\ Rests(Get("slb_get_rssi_info"))
        /\ Rests(Get("slb_fem_check"))
    BY RestSteps DEF Getters, ReadBy
  <2>2. Rests(If("G", Get("slb_get_lce_mode")))
    BY <2>1, KindsOutlined
  <2> QED
    BY ONLY <2>1, <2>2, <1>2, ZenonT(60)
       DEF wtsl_core_get_node_advinfo, create_node_advinfo_json, sync_advinfo
<1>5. Rests(wtsl_core_get_hw_resources_usage)
  BY ONLY <1>1, <1>2, ZenonT(60)
     DEF wtsl_core_get_hw_resources_usage, slb_node_get_hw_resources_info,
         get_cpu_usage_stats, get_load_average, get_memory_usage, get_disk_usage
<1>6. Rests(wtsl_core_get_traceinfo)
  <2>1. \A c, d : c \in Traces \cup {"no feature"} =>
          Rests(If(c, Show(d))) /\ Rests(If(c, Null))
    BY <1>1, KindsOutlined DEF Traces
  <2>2. /\ Rests(If("vip", Show("trace vip")))
        /\ Rests(If("throughput", Show("trace throughput")))
        /\ Rests(If("delay", Show("trace delay"))) /\ Rests(If("drop", Show("trace drop")))
        /\ Rests(If("mcs", Show("trace mcs")))
        /\ Rests(If("user_access", Show("trace user_access")))
        /\ Rests(If("no feature", Null))
    BY <2>1 DEF Traces
  <2> QED
    BY ONLY <2>2, <1>1, <1>2, ZenonT(60)
       DEF wtsl_core_get_traceinfo, wtsl_core_get_traceinfo_vip,
           wtsl_core_get_traceinfo_throughput, wtsl_core_get_traceinfo_delay,
           wtsl_core_get_traceinfo_drop, wtsl_core_get_traceinfo_mcs,
           wtsl_core_get_traceinfo_user_access
<1> QED
  BY <1>3, <1>4, <1>5, <1>6

\* The boot.
LEMMA BootOutlined ==
  Turns("band", wtsl_core_main, "blank", "rest") /\ Turns("boot", wtsl_core_main, 0, 1)
<1>1. Turns("band", param_default, "blank", "twenty") /\ Turns("boot", param_default, 0, 0)
  <2>d. \E l : param_default = Default(l)
    BY DEF param_default
  <2>l. PICK l : param_default = Default(l)
    BY <2>d
  <2> DEFINE s == [op |-> "default", arg |-> "", name |-> "", lits |-> l]
  <2>1. param_default = <<s>>
    BY <2>l DEF Default
  <2>2. s.op = "default"
    OBVIOUS
  <2>3. LocalOf(s) = {} /\ FileOf(s) = {} /\ ~Refuses(s)
    BY DEF LocalOf, FileOf, Refuses
  <2> HIDE DEF s
  <2>4. Goes("band", s, "blank", "twenty")
    BY <2>1 DEF Goes, BandGoes
  <2>5. Goes("boot", s, 0, 0)
    BY <2>2, <2>3 DEF Goes, BootGoes, NoLocals
  <2> QED
    BY <2>1, <2>2, <2>4, <2>5, TurnsStep
<1> DEFINE Loads(P) == Turns("band", P, "twenty", "twenty") /\ Turns("boot", P, 0, 0)
<1>2. \A k, p : Loads(Read(k, p))
  BY TurnsStep DEF Read, Goes, BandGoes, BootGoes, NoLocals, LocalOf, FileOf, Refuses
<1>3. \A P, Q : Loads(P) /\ Loads(Q) => Loads(P \o Q)
  BY TurnsJoined
<1> HIDE DEF Loads
<1>4. Loads(config_read)
  <2>1. Loads(ReadBasic)
    BY ONLY <1>2, <1>3, ZenonT(60) DEF ReadBasic
  <2>2. Loads(ReadAdvanced)
    BY ONLY <1>2, <1>3, ZenonT(60) DEF ReadAdvanced
  <2> QED
    BY <2>1, <2>2, <1>3 DEF config_read
<1>5. /\ Calm(Set("slb_create_device")) /\ Calm(Set("set_mac_address"))
      /\ Calm(Set("slb_set_cc_start_pos")) /\ Calm(Set("slb_set_essid"))
      /\ Calm(Set("slb_set_mib_params")) /\ Calm(Set("slb_set_tx_power"))
      /\ Calm(Set("slb_set_fisa_enable")) /\ Calm(Set("slb_set_sec_auth_pwd"))
      /\ Calm(Set("slb_set_acs_enable")) /\ Calm(Set("init_net_bridge"))
      /\ Calm(Set("slb_set_sec_exch_cap")) /\ Calm(Get("get_wt_vap_interface_count"))
      /\ Calm(Up) /\ Calm(Down)
  BY CalmSteps DEF Setters, Getters, WrittenBy, ReadBy, Watched
<1>6. Calm(If("G", Set("slb_set_acs_enable"))) /\ Calm(If("T", Set("slb_set_sec_exch_cap")))
  BY <1>5, KindsOutlined
<1> DEFINE Sofar(P) == Turns("band", P, "twenty", "rest") /\ Turns("boot", P, 0, 1)
           begin == Set("slb_create_device") \o Set("set_mac_address")
                    \o Down \o Set("slb_set_channel") \o Set("slb_set_bw") \o Set("slb_set_tfc_bw")
                    \o Set("slb_set_cc_start_pos") \o Set("slb_set_cell_id")
<1>7. Sofar(begin)
  <2> DEFINE first == Set("slb_create_device") \o Set("set_mac_address") \o Down
             c == Set("slb_set_channel")
             x == Set("slb_set_bw")
             y == Set("slb_set_tfc_bw")
             o == Set("slb_set_cc_start_pos")
             i == Set("slb_set_cell_id")
  <2>1. Calm(first)
    BY <1>5, KindsOutlined
  <2>2. /\ \A a : Turns("band", first, a, a) /\ Turns("band", o, a, a)
        /\ Turns("boot", first, 0, 0) /\ Turns("boot", o, 1, 1)
    BY <2>1, <1>5, Zenon DEF Calm, Aside
  <2>3. /\ \A a : Turns("band", c, a, a) /\ Turns("band", i, a, a)
        /\ Turns("boot", c, 0, 1) /\ Turns("boot", i, 1, 1)
        /\ Turns("boot", x, 1, 1) /\ Turns("boot", y, 1, 1)
        /\ Turns("band", x, "twenty", "broad") /\ Turns("band", y, "broad", "rest")
    BY WatchedSetters, Zenon
  <2> HIDE DEF first, c, x, y, o, i
  <2>4. Turns("band", first \o c \o x \o y \o o \o i, "twenty", "rest")
    BY ONLY <2>2, <2>3, TurnsJoined, ZenonT(60)
  <2>5. Turns("boot", first \o c \o x \o y \o o \o i, 0, 1)
    BY ONLY <2>2, <2>3, TurnsJoined, ZenonT(60)
  <2> QED
    BY <2>4, <2>5 DEF first, c, x, y, o, i
<1>8. \A P, Q : Sofar(P) /\ Calm(Q) => Sofar(P \o Q)
  BY TurnsJoined, Zenon DEF Calm, Aside
<1>9. Sofar(begin) => Sofar(init_node)
  <2> HIDE DEF Sofar, begin
  <2>1. Sofar(begin) => Sofar(begin \o Set("slb_set_essid")
    \o Set("slb_set_mib_params") \o Set("slb_set_tx_power")
    \o Set("slb_set_fisa_enable") \o Set("slb_set_sec_auth_pwd")
    \o If("G", Set("slb_set_acs_enable"))
    \o Set("init_net_bridge") \o Up
    \o If("T", Set("slb_set_sec_exch_cap")) \o Get("get_wt_vap_interface_count"))
    BY ONLY <1>5, <1>6, <1>8, ZenonT(60)
  <2> QED
    BY <2>1, Zenon DEF init_node, begin
<1>10. /\ Turns("band", init_node, "twenty", "rest") /\ Turns("boot", init_node, 0, 1)
       /\ Turns("band", config_read, "twenty", "twenty") /\ Turns("boot", config_read, 0, 0)
  BY <1>4, <1>7, <1>9 DEF Loads
<1> QED
  BY ONLY <1>1, <1>10, TurnsJoined, ZenonT(60) DEF wtsl_core_main

\* A pass of the watcher.
LEMMA PassOutlined == Turns("watch", wtsl_core_splink_state_watcher, 0, 5)
<1>1. \A s, a : WatchFree(s) /\ s.op # "if" => Turns("watch", <<s>>, a, a)
  BY TurnsStep DEF Goes, WatchGoes
<1>2. /\ \A c, a : Turns("watch", Tell(c), a, a)
      /\ \A a : Turns("watch", Row, a, a)
  BY <1>1 DEF Tell, Row, Op, WatchFree, MemOf, DrvOf, FileOf, LocalOf, Refuses
<1>3. \A c, P, a : Turns("watch", P, a, a) => Turns("watch", If(c, P), a, a)
  <2> SUFFICES ASSUME NEW c, NEW P, NEW a, Turns("watch", P, a, a)
               PROVE  Turns("watch", If(c, P), a, a)
    OBVIOUS
  <2> DEFINE s == [op |-> "if", arg |-> c, name |-> Len(P), lits |-> <<>>]
  <2>1. WatchFree(s)
    BY DEF WatchFree, MemOf, DrvOf, FileOf, LocalOf, Refuses
  <2> HIDE DEF s
  <2>2. Goes("watch", s, a, a) /\ Skips("watch", s, a, a)
    BY <2>1 DEF Goes, Skips, WatchGoes, WatchSkips
  <2> QED
    BY <2>2, TurnsIf, Zenon DEF s
<1>4. Turns("watch", Lock, 0, 1) /\ Turns("watch", Unlock, 4, 5)
  BY TurnsStep DEF Lock, Unlock, Op, Goes, WatchGoes
<1> DEFINE ask == Query("slb_get_channel", "channel", "tmp_channel")
           put == Assign("channel", "tmp_channel")
           cpy == Copy("channel")
           sav == Save("CHANNEL", "channel")
           new == put \o cpy \o sav
<1>5. Turns("watch", ask, 1, 2)
  BY TurnsStep DEF Query, Goes, WatchGoes, Queries
<1>6. Turns("watch", put, 3, 3) /\ Turns("watch", cpy, 3, 3) /\ Turns("watch", sav, 3, 4)
  BY TurnsStep DEF Assign, Copy, Save, Goes, WatchGoes
<1> HIDE DEF ask, put, cpy, sav
<1>7. Turns("watch", new, 3, 4)
  BY ONLY <1>6, TurnsJoined, ZenonT(60)
<1> HIDE DEF new
<1>8. Turns("watch", If("channel moved", new), 2, 4)
  <2> DEFINE s == [op |-> "if", arg |-> "channel moved", name |-> Len(new), lits |-> <<>>]
  <2>1. Goes("watch", s, 2, 3) /\ Skips("watch", s, 2, 4)
    <3>1. s.op = "if" /\ s.arg = "channel moved" /\ s.lits = <<>>
      OBVIOUS
    <3> HIDE DEF s
    <3> QED
      BY <3>1 DEF Goes, Skips, WatchGoes, WatchSkips
  <2> QED
    BY <2>1, <1>7, TurnsIf, Zenon
<1>9. Turns("watch", get_all_version, 4, 4) /\ Turns("watch", If("T", get_rssi_info), 4, 4)
  BY <1>2, <1>3 DEF get_all_version, get_rssi_info
<1>10. wtsl_core_get_splink_info =
         Tell("view_users") \o ask \o If("channel moved", new) \o get_all_version
         \o If("T", get_rssi_info)
  BY DEF wtsl_core_get_splink_info, ask, new, put, cpy, sav
<1>11. Turns("watch", wtsl_core_get_splink_info, 1, 4)
  BY ONLY <1>2, <1>5, <1>8, <1>9, <1>10, TurnsJoined, ZenonT(60)
<1>12. Turns("watch", Lock \o wtsl_core_get_splink_info, 0, 4) /\ Turns("watch", Row, 4, 4)
  BY <1>2, <1>4, <1>11, TurnsJoined, Zenon
<1>13. Turns("watch", (Lock \o wtsl_core_get_splink_info) \o Row, 0, 4)
  BY <1>12, TurnsJoined, Zenon
<1> QED
  BY <1>4, <1>13, TurnsJoined, Zenon DEF wtsl_core_splink_state_watcher

\* The functions that take parameters to save them.
Filed == {"set_basicinfo", "set_advinfo", "autojoinNetwork"}

\* Neither takes, nor reads, nor saves; takes nothing that lasts.
Inert(P) == \A g \in Filed \cup {"load"} : \A a : Turns(g, P, a, a)
Idles(P) == Turns("plain", P, 0, 0)

\* The kinds join, and may be conditional.
LEMMA InertJoined ==
  /\ \A P, Q : Inert(P) /\ Inert(Q) => Inert(P \o Q)
  /\ \A P, Q : Idles(P) /\ Idles(Q) => Idles(P \o Q)
  /\ \A c, P : Inert(P) => Inert(If(c, P))
  /\ \A c, P : Idles(P) => Idles(If(c, P))
<1>1. \A P, Q : Inert(P) /\ Inert(Q) => Inert(P \o Q)
  BY TurnsJoined, Zenon DEF Inert
<1>2. \A P, Q : Idles(P) /\ Idles(Q) => Idles(P \o Q)
  BY TurnsJoined, Zenon DEF Idles
<1>3. ASSUME NEW c, NEW P
      PROVE  (Inert(P) => Inert(If(c, P))) /\ (Idles(P) => Idles(If(c, P)))
  <2> DEFINE s == [op |-> "if", arg |-> c, name |-> Len(P), lits |-> <<>>]
  <2>1. MemOf(s) = {} /\ FileOf(s) = {} /\ LocalOf(s) = {} /\ s.op = "if"
    BY DEF MemOf, FileOf, LocalOf
  <2> HIDE DEF s
  <2>2. ASSUME NEW g \in Filed \cup {"load"}, NEW a
        PROVE  Goes(g, s, a, a) /\ Skips(g, s, a, a)
    BY <2>1, <2>2 DEF Filed, Goes, Skips, LoadGoes, FileGoes, NoLocals
  <2>3. Goes("plain", s, 0, 0) /\ Skips("plain", s, 0, 0)
    BY <2>1 DEF Goes, Skips, PlainGoes
  <2> QED
    BY <2>2, <2>3, TurnsIf, Zenon DEF Inert, Idles, s
<1> QED
  BY <1>1, <1>2, <1>3, Zenon

\* Single steps.
LEMMA InertSteps ==
  /\ Inert(Parse) /\ Inert(Lock) /\ Inert(Unlock) /\ Inert(Row) /\ Inert(Reboot)
  /\ Inert(Up) /\ Inert(Down) /\ \A w : Inert(Set(w))
  /\ Inert(Get("get_wt_vap_interface_count")) /\ Inert(Query("slb_get_bw", "bw", "bw_now"))
<1>1. ASSUME NEW s, MemOf(s) = {}, FileOf(s) = {}, NoLocals(s), s.op # "if"
      PROVE  Inert(<<s>>)
  <2>1. ASSUME NEW g \in Filed \cup {"load"}, NEW a
        PROVE  Goes(g, s, a, a)
    BY <1>1, <2>1 DEF Filed, Goes, LoadGoes, FileGoes
  <2> QED
    BY <1>1, <2>1, TurnsStep, Zenon DEF Inert
<1>2. /\ Inert(Parse) /\ Inert(Lock) /\ Inert(Unlock) /\ Inert(Row) /\ Inert(Reboot)
      /\ Inert(Up) /\ Inert(Down) /\ \A w : Inert(Set(w))
  BY <1>1 DEF Parse, Lock, Unlock, Row, Reboot, Up, Down, Set, Op, MemOf, FileOf, LocalOf, NoLocals
<1>3. Inert(Get("get_wt_vap_interface_count"))
  BY <1>1 DEF Get, Op, MemOf, FileOf, LocalOf, NoLocals, ReadBy
<1>4. Inert(Query("slb_get_bw", "bw", "bw_now"))
  <2> DEFINE s == [op |-> "query", arg |-> "slb_get_bw", name |-> <<"bw", "bw_now">>, lits |-> <<>>]
  <2>1. MemOf(s) = {} /\ FileOf(s) = {} /\ LocalOf(s) = {"bw_now"} /\ s.op = "query"
    BY DEF MemOf, FileOf, LocalOf
  <2> HIDE DEF s
  <2>2. NoLocals(s)
    BY <2>1 DEF NoLocals, Params
  <2> QED
    BY <2>1, <2>2, <1>1 DEF Query, s
<1> QED
  BY <1>2, <1>3, <1>4

\* The steps of all other functions.
LEMMA IdleSteps ==
  /\ Idles(Parse) /\ Idles(Null) /\ Idles(Popen) /\ Idles(Row) /\ Idles(Reboot)
  /\ Idles(Up) /\ Idles(Down) /\ Idles(Lock) /\ Idles(Unlock)
  /\ \A c : Idles(Ask(c)) /\ Idles(Show(c)) /\ Idles(Tell(c))
  /\ \A w : Idles(Get(w)) /\ Idles(MustSet(w)) /\ \A l : Idles(SetTo(w, l)) /\ Idles(Adopt(w, l))
  /\ \A k, p : Idles(Save(k, p)) /\ Idles(Copy(p)) /\ Idles(Op("clear", p))
  /\ \A w, p, x : Idles(Query(w, p, x)) /\ Idles(Assign(p, x))
  /\ Idles(Op("remove", "")) /\ Idles(Op("join", "")) /\ Idles(Op("joined", ""))
<1>1. ASSUME NEW s, s.op \notin {"if", "take"}
      PROVE  Idles(<<s>>)
  <2>1. Goes("plain", s, 0, 0)
    BY <1>1 DEF Goes, PlainGoes
  <2> QED
    BY <1>1, <2>1, TurnsStep, Zenon DEF Idles
<1>2. /\ Idles(Parse) /\ Idles(Null) /\ Idles(Popen) /\ Idles(Row) /\ Idles(Reboot)
      /\ Idles(Up) /\ Idles(Down) /\ Idles(Lock) /\ Idles(Unlock)
      /\ \A c : Idles(Ask(c)) /\ Idles(Show(c)) /\ Idles(Tell(c))
  BY <1>1 DEF Parse, Null, Popen, Row, Reboot, Up, Down, Lock, Unlock, Ask, Show, Tell, Op
<1>3. /\ \A w : Idles(Get(w)) /\ Idles(MustSet(w)) /\ \A l : Idles(SetTo(w, l)) /\ Idles(Adopt(w, l))
      /\ \A k, p : Idles(Save(k, p)) /\ Idles(Copy(p)) /\ Idles(Op("clear", p))
  BY <1>1 DEF Get, MustSet, SetTo, Adopt, Save, Copy, Op
<1>4. /\ \A w, p, x : Idles(Query(w, p, x)) /\ Idles(Assign(p, x))
      /\ Idles(Op("remove", "")) /\ Idles(Op("join", "")) /\ Idles(Op("joined", ""))
  BY <1>1 DEF Query, Assign, Op
<1> QED
  BY <1>2, <1>3, <1>4

\* The sequences that the boot and the requests share.
LEMMA InertFunctions == Inert(set_node) /\ Inert(init_node)
<1>1. /\ \A P, Q : Inert(P) /\ Inert(Q) => Inert(P \o Q)
      /\ \A c, P : Inert(P) => Inert(If(c, P))
  BY InertJoined
<1>2. Inert(SetBandwidths)
  BY ONLY <1>1, InertSteps, ZenonT(60) DEF SetBandwidths
<1>3. Inert(set_node)
  BY ONLY <1>1, <1>2, InertSteps, ZenonT(60) DEF set_node
<1>4. Inert(init_node)
  BY ONLY <1>1, InertSteps, ZenonT(60) DEF init_node
<1> QED
  BY <1>3, <1>4

\* The boot sets the defaults, and then reads every parameter that lasts from the key it
\* is saved under.
LEMMA LoadOutlined ==
  \E e \in SUBSET Params :
    Loaded \subseteq e /\ Turns("load", wtsl_core_main, {}, {"default"} \cup e)
<1> DEFINE Reads(P, S) == \A a : Turns("load", P, a, a \cup S)
<1>1. \A P, Q, S, T : Reads(P, S) /\ Reads(Q, T) => Reads(P \o Q, S \cup T)
  <2> SUFFICES ASSUME NEW P, NEW Q, NEW S, NEW T, Reads(P, S), Reads(Q, T), NEW a
               PROVE  Turns("load", P \o Q, a, a \cup (S \cup T))
    OBVIOUS
  <2>1. Turns("load", P \o Q, a, (a \cup S) \cup T)
    BY TurnsJoined, Zenon
  <2>2. (a \cup S) \cup T = a \cup (S \cup T)
    OBVIOUS
  <2> QED
    BY <2>1, <2>2, Zenon
<1>2. \A k, p : (p \in Loaded => k = ReadFrom(p)) /\ (p \in Lost => k = "SYMBOL_TYPE")
                  => Reads(Read(k, p), {p})
  BY TurnsStep DEF Read, Goes, LoadGoes
<1>3. /\ Reads(Read("BW", "bw"), {"bw"}) /\ Reads(Read("TFC_BW", "tfc_bw"), {"tfc_bw"})
      /\ Reads(Read("CHANNEL", "channel"), {"channel"}) /\ Reads(Read("TYPE", "type"), {"type"})
      /\ Reads(Read("TYPE", "node_type"), {"node_type"})
      /\ Reads(Read("LOG_PORT", "log_port"), {"log_port"})
      /\ Reads(Read("AUTO_JOIN_NET", "auto_join"), {"auto_join"})
      /\ Reads(Read("ACS_ENABLE", "aifh_enable"), {"aifh_enable"})
      /\ Reads(Read("NAME", "name"), {"name"}) /\ Reads(Read("IP", "ip"), {"ip"})
      /\ Reads(Read("NET_MANAGE_IP", "net_manage_ip"), {"net_manage_ip"})
  <2>1. /\ ReadFrom("bw") = "BW" /\ ReadFrom("tfc_bw") = "TFC_BW" /\ ReadFrom("channel") = "CHANNEL"
        /\ ReadFrom("type") = "TYPE" /\ ReadFrom("node_type") = "TYPE"
        /\ ReadFrom("log_port") = "LOG_PORT" /\ ReadFrom("auto_join") = "AUTO_JOIN_NET"
        /\ ReadFrom("aifh_enable") = "ACS_ENABLE" /\ ReadFrom("name") = "NAME"
        /\ ReadFrom("ip") = "IP" /\ ReadFrom("net_manage_ip") = "NET_MANAGE_IP"
    BY DEF ReadFrom, KeyOf
  <2>2. /\ "bw" \notin Lost /\ "tfc_bw" \notin Lost /\ "channel" \notin Lost /\ "type" \notin Lost
        /\ "node_type" \notin Lost /\ "log_port" \notin Lost /\ "auto_join" \notin Lost
        /\ "aifh_enable" \notin Lost /\ "name" \notin Lost /\ "ip" \notin Lost
        /\ "net_manage_ip" \notin Lost
    BY DEF Lost
  <2> HIDE DEF Reads
  <2> QED
    BY ONLY <1>2, <2>1, <2>2, Zenon
<1>4. /\ Reads(Read("CELL_ID", "cell_id"), {"cell_id"})
      /\ Reads(Read("CC_SPOS", "cc_offset"), {"cc_offset"})
      /\ Reads(Read("CP_TYPE", "cp_type"), {"cp_type"})
      /\ Reads(Read("SYMBOL_TYPE", "symbol_type"), {"symbol_type"})
      /\ Reads(Read("SYSMSG_PERIOD", "sysmsg_period"), {"sysmsg_period"})
      /\ Reads(Read("S_CFG_IDX", "s_cfg_idx"), {"s_cfg_idx"})
      /\ Reads(Read("FISA_ENABLE", "fisa_enable"), {"fisa_enable"})
  <2>1. "symbol_type" \notin Loaded
    BY DEF Loaded, Durable
  <2>2. /\ ReadFrom("cell_id") = "CELL_ID" /\ ReadFrom("cc_offset") = "CC_SPOS"
        /\ ReadFrom("cp_type") = "CP_TYPE" /\ ReadFrom("sysmsg_period") = "SYSMSG_PERIOD"
        /\ ReadFrom("s_cfg_idx") = "S_CFG_IDX" /\ ReadFrom("fisa_enable") = "FISA_ENABLE"
    BY DEF ReadFrom, KeyOf
  <2>3. /\ "cell_id" \notin Lost /\ "cc_offset" \notin Lost /\ "cp_type" \notin Lost
        /\ "sysmsg_period" \notin Lost /\ "s_cfg_idx" \notin Lost /\ "fisa_enable" \notin Lost
    BY DEF Lost
  <2> HIDE DEF Reads
  <2> QED
    BY ONLY <1>2, <2>1, <2>2, <2>3, Zenon
<1> DEFINE first == {"bw"} \cup {"tfc_bw"} \cup {"channel"} \cup {"type"} \cup {"node_type"}
                    \cup {"log_port"} \cup {"auto_join"} \cup {"aifh_enable"} \cup {"name"}
                    \cup {"ip"} \cup {"net_manage_ip"}
           second == {"cell_id"} \cup {"cc_offset"} \cup {"cp_type"} \cup {"symbol_type"}
                     \cup {"sysmsg_period"} \cup {"s_cfg_idx"} \cup {"fisa_enable"}
<1> HIDE DEF Reads
<1>5. Reads(ReadBasic, first)
  <2> DEFINE x == Read("BW", "bw") \o Read("TFC_BW", "tfc_bw") \o Read("CHANNEL", "channel")
                  \o Read("TYPE", "type") \o Read("TYPE", "node_type")
             X == {"bw"} \cup {"tfc_bw"} \cup {"channel"} \cup {"type"} \cup {"node_type"}
             y == x \o Read("LOG_PORT", "log_port") \o Read("AUTO_JOIN_NET", "auto_join")
                  \o Read("ACS_ENABLE", "aifh_enable")
             Y == X \cup {"log_port"} \cup {"auto_join"} \cup {"aifh_enable"}
  <2>1. Reads(x, X)
    BY ONLY <1>1, <1>3, ZenonT(60)
  <2>2. /\ ReadBasic = y \o Read("NAME", "name") \o Read("IP", "ip")
                      \o Read("NET_MANAGE_IP", "net_manage_ip")
        /\ first = Y \cup {"name"} \cup {"ip"} \cup {"net_manage_ip"}
    BY DEF ReadBasic
  <2> HIDE DEF x, X, first
  <2>3. Reads(y, Y)
    BY ONLY <1>1, <1>3, <2>1, ZenonT(60)
  <2> HIDE DEF y, Y
  <2> QED
    BY ONLY <1>1, <1>3, <2>2, <2>3, ZenonT(60)
<1>6. Reads(ReadAdvanced, second)
  BY ONLY <1>1, <1>4, ZenonT(60) DEF ReadAdvanced
<1>7. first \cup second \in SUBSET Params /\ Loaded \subseteq first \cup second
  BY DEF Loaded, Durable, Params
<1> HIDE DEF first, second
<1>8. Turns("load", config_read, {"default"}, {"default"} \cup (first \cup second))
  BY <1>1, <1>5, <1>6, Zenon DEF config_read, Reads
<1>9. Turns("load", param_default, {}, {"default"})
  <2>1. \E l : param_default = Default(l)
    BY DEF param_default
  <2>2. PICK l : param_default = Default(l)
    BY <2>1
  <2> QED
    BY <2>2, TurnsStep DEF Default, Goes, LoadGoes
<1>10. \A a : Turns("load", init_node, a, a)
  BY InertFunctions DEF Inert
<1>11. Turns("load", wtsl_core_main, {}, {"default"} \cup (first \cup second))
  BY <1>8, <1>9, <1>10, TurnsJoined, Zenon DEF wtsl_core_main
<1> QED
  BY <1>7, <1>11

\* What a request takes, and what it saves.
Takes(g, P, S) == \A x : Turns(g, P, <<x, {}>>, <<x \cup S, {}>>)
Puts(g, P, S)  == \A x, y : Turns(g, P, <<x, y>>, <<x, y \cup S>>)

\* The steps of those that save.
LEMMA FiledSteps ==
  ASSUME NEW g \in Filed
  PROVE  /\ \A P, Q, S, T : /\ Takes(g, P, S) /\ Takes(g, Q, T) => Takes(g, P \o Q, S \cup T)
                            /\ Puts(g, P, S) /\ Puts(g, Q, T) => Puts(g, P \o Q, S \cup T)
         /\ \A p : (p \in Durable => p \in Saves[g]) => Takes(g, Take(p), {p})
         /\ \A p \in DOMAIN KeyOf : Puts(g, Save(KeyOf[p], p), {p})
<1>1. ASSUME NEW P, NEW Q, NEW S, NEW T, Takes(g, P, S), Takes(g, Q, T)
      PROVE  Takes(g, P \o Q, S \cup T)
  <2> SUFFICES ASSUME NEW x
               PROVE  Turns(g, P \o Q, <<x, {}>>, <<x \cup (S \cup T), {}>>)
    BY DEF Takes
  <2>1. Turns(g, P \o Q, <<x, {}>>, <<(x \cup S) \cup T, {}>>)
    BY <1>1, TurnsJoined, Zenon DEF Takes
  <2>2. (x \cup S) \cup T = x \cup (S \cup T)
    OBVIOUS
  <2> QED
    BY <2>1, <2>2, Zenon
<1>2. ASSUME NEW P, NEW Q, NEW S, NEW T, Puts(g, P, S), Puts(g, Q, T)
      PROVE  Puts(g, P \o Q, S \cup T)
  <2> SUFFICES ASSUME NEW x, NEW y
               PROVE  Turns(g, P \o Q, <<x, y>>, <<x, y \cup (S \cup T)>>)
    BY DEF Puts
  <2>1. Turns(g, P \o Q, <<x, y>>, <<x, (y \cup S) \cup T>>)
    BY <1>2, TurnsJoined, Zenon DEF Puts
  <2>2. (y \cup S) \cup T = y \cup (S \cup T)
    OBVIOUS
  <2> QED
    BY <2>1, <2>2, Zenon
<1>3. \A s, a, b : FileGoes(Saves[g], s, a, b) => Goes(g, s, a, b)
  BY DEF Goes, Filed
<1>4. ASSUME NEW p, p \in Durable => p \in Saves[g], NEW x
      PROVE  Turns(g, Take(p), <<x, {}>>, <<x \cup {p}, {}>>)
  <2> DEFINE s == [op |-> "take", arg |-> p, name |-> "", lits |-> <<>>]
             a == <<x, {}>>
             b == <<x \cup {p}, {}>>
  <2>1. NoLocals(s) /\ s.op = "take" /\ s.arg = p
    BY DEF NoLocals, LocalOf
  <2>2. a[1] = x /\ a[2] = {} /\ b = <<a[1] \cup {p}, a[2]>>
    OBVIOUS
  <2> HIDE DEF s, a, b
  <2>3. FileGoes(Saves[g], s, a, b)
    BY <1>4, <2>1, <2>2 DEF FileGoes
  <2> QED
    BY <1>3, <2>1, <2>3, TurnsStep DEF Take, Op, s, a, b
<1>5. ASSUME NEW p \in DOMAIN KeyOf, NEW x, NEW y
      PROVE  Turns(g, Save(KeyOf[p], p), <<x, y>>, <<x, y \cup {p}>>)
  <2> DEFINE s == [op |-> "save", arg |-> KeyOf[p], name |-> p, lits |-> <<>>]
             a == <<x, y>>
             b == <<x, y \cup {p}>>
  <2>1. NoLocals(s) /\ s.op = "save" /\ s.arg = KeyOf[p] /\ s.name = p /\ s.lits = <<>>
    BY DEF NoLocals, LocalOf
  <2>2. b = <<a[1], a[2] \cup {p}>>
    OBVIOUS
  <2> HIDE DEF s, a, b
  <2>3. FileGoes(Saves[g], s, a, b)
    BY <2>1, <2>2, Zenon DEF FileGoes
  <2> QED
    BY <1>3, <2>1, <2>3, TurnsStep DEF Save, s, a, b
<1> QED
  BY <1>1, <1>2, <1>4, <1>5 DEF Takes, Puts

\* set_basicinfo, whose whole is between the field taken first and the key saved last.
LEMMA BasicFiled ==
  \E x, y \in SUBSET Params :
    /\ Saves["set_basicinfo"] \subseteq x \cap y
    /\ Turns("set_basicinfo", wtsl_core_set_node_basicinfo, <<{}, {}>>, <<x, y>>)
<1> DEFINE g == "set_basicinfo"
           Gets(P, S) == Takes(g, P, S)
           Files(P, S) == Puts(g, P, S)
<1>0. g \in Filed
  BY DEF Filed
<1>1. \A P, Q, S, T : /\ Gets(P, S) /\ Gets(Q, T) => Gets(P \o Q, S \cup T)
                      /\ Files(P, S) /\ Files(Q, T) => Files(P \o Q, S \cup T)
  BY <1>0, FiledSteps
<1>2. /\ Gets(Take("type"), {"type"}) /\ Gets(Take("channel"), {"channel"})
      /\ Gets(Take("bw"), {"bw"}) /\ Gets(Take("tfc_bw"), {"tfc_bw"})
      /\ Gets(Take("cell_id"), {"cell_id"}) /\ Gets(Take("name"), {"name"})
      /\ Gets(Take("ip"), {"ip"}) /\ Gets(Take("password"), {"password"})
      /\ Gets(Take("log_port"), {"log_port"}) /\ Gets(Take("net_manage_ip"), {"net_manage_ip"})
  BY <1>0, FiledSteps DEF Saves, Durable
<1>3. /\ Files(Save("BW", "bw"), {"bw"}) /\ Files(Save("TFC_BW", "tfc_bw"), {"tfc_bw"})
      /\ Files(Save("CHANNEL", "channel"), {"channel"}) /\ Files(Save("TYPE", "type"), {"type"})
      /\ Files(Save("CELL_ID", "cell_id"), {"cell_id"})
      /\ Files(Save("LOG_PORT", "log_port"), {"log_port"}) /\ Files(Save("IP", "ip"), {"ip"})
      /\ Files(Save("NAME", "name"), {"name"})
      /\ Files(Save("NET_MANAGE_IP", "net_manage_ip"), {"net_manage_ip"})
  <2> HIDE DEF Files
  <2>1. \A p \in DOMAIN KeyOf : Files(Save(KeyOf[p], p), {p})
    BY <1>0, FiledSteps DEF Files
  <2> QED
    BY <2>1 DEF KeyOf
<1> DEFINE S == {"type"} \cup {"channel"} \cup {"bw"} \cup {"tfc_bw"} \cup {"cell_id"}
                \cup {"name"} \cup {"ip"} \cup {"password"} \cup {"log_port"} \cup {"net_manage_ip"}
           T == {"bw"} \cup {"tfc_bw"} \cup {"channel"} \cup {"type"} \cup {"cell_id"} \cup {"type"}
                \cup {"log_port"} \cup {"ip"} \cup {"name"} \cup {"net_manage_ip"}
<1> HIDE DEF Gets, Files
<1>4. Gets(TakeBasic, S)
  BY ONLY <1>1, <1>2, ZenonT(60) DEF TakeBasic
<1>5. Files(SaveBasic, T)
  BY ONLY <1>1, <1>3, ZenonT(60) DEF SaveBasic
<1>6. S \in SUBSET Params /\ T \in SUBSET Params /\ Saves[g] \subseteq S \cap T
  BY DEF Saves, Params
<1> HIDE DEF S, T
<1>7. /\ \A a : Turns(g, Parse, a, a) /\ Turns(g, Lock, a, a) /\ Turns(g, set_node, a, a)
      /\ \A a : Turns(g, Unlock, a, a) /\ Turns(g, Row, a, a)
  BY <1>0, InertSteps, InertFunctions, Zenon DEF Inert
<1>8. Turns(g, TakeBasic, <<{}, {}>>, <<{} \cup S, {}>>)
  BY <1>4, Zenon DEF Gets, Takes
<1>9. Turns(g, SaveBasic, <<{} \cup S, {}>>, <<{} \cup S, {} \cup T>>)
  BY <1>5, Zenon DEF Files, Puts
<1>10. Turns(g, wtsl_core_set_node_basicinfo, <<{}, {}>>, <<{} \cup S, {} \cup T>>)
  BY ONLY <1>7, <1>8, <1>9, TurnsJoined, ZenonT(60)
     DEF wtsl_core_set_node_basicinfo, wtsl_core_parse_json_setnode
<1>11. {} \cup S = S /\ {} \cup T = T
  OBVIOUS
<1> QED
  BY <1>6, <1>10, <1>11, Zenon

\* set_advinfo.
LEMMA AdvancedFiled ==
  \E x, y \in SUBSET Params :
    /\ Saves["set_advinfo"] \subseteq x \cap y
    /\ Turns("set_advinfo", wtsl_core_set_node_advinfo, <<{}, {}>>, <<x, y>>)
<1> DEFINE g == "set_advinfo"
           Gets(P, S) == Takes(g, P, S)
           Files(P, S) == Puts(g, P, S)
<1>0. g \in Filed
  BY DEF Filed
<1>2. /\ Gets(Take("cell_id"), {"cell_id"}) /\ Gets(Take("cc_offset"), {"cc_offset"})
      /\ Gets(Take("cp_type"), {"cp_type"}) /\ Gets(Take("symbol_type"), {"symbol_type"})
      /\ Gets(Take("sysmsg_period"), {"sysmsg_period"}) /\ Gets(Take("s_cfg_idx"), {"s_cfg_idx"})
      /\ Gets(Take("sec_exch_cap"), {"sec_exch_cap"}) /\ Gets(Take("range_opt"), {"range_opt"})
      /\ Gets(Take("aifh_enable"), {"aifh_enable"}) /\ Gets(Take("power"), {"power"})
      /\ Gets(Take("fisa_enable"), {"fisa_enable"})
  BY <1>0, FiledSteps DEF Saves, Durable
<1>3. /\ Files(Save("CELL_ID", "cell_id"), {"cell_id"})
      /\ Files(Save("CC_SPOS", "cc_offset"), {"cc_offset"})
      /\ Files(Save("CP_TYPE", "cp_type"), {"cp_type"})
      /\ Files(Save("SYMBOL_CFG", "symbol_type"), {"symbol_type"})
      /\ Files(Save("SYSMSG_PERIOD", "sysmsg_period"), {"sysmsg_period"})
      /\ Files(Save("S_CFG_IDX", "s_cfg_idx"), {"s_cfg_idx"})
      /\ Files(Save("SEC_EXCH_CAP", "sec_exch_cap"), {"sec_exch_cap"})
      /\ Files(Save("RANGE_OPT", "range_opt"), {"range_opt"})
      /\ Files(Save("TX_POWER", "power"), {"power"})
      /\ Files(Save("ACS_ENABLE", "aifh_enable"), {"aifh_enable"})
      /\ Files(Save("FISA_ENABLE", "fisa_enable"), {"fisa_enable"})
  <2> HIDE DEF Files
  <2>1. \A p \in DOMAIN KeyOf : Files(Save(KeyOf[p], p), {p})
    BY <1>0, FiledSteps DEF Files
  <2> QED
    BY <2>1 DEF KeyOf
<1>4. \A a : Turns(g, Parse, a, a) /\ Turns(g, set_node, a, a) /\ Turns(g, Row, a, a)
  BY <1>0, InertSteps, InertFunctions, Zenon DEF Inert
<1> DEFINE S == {} \cup {"cell_id"} \cup {"cc_offset"} \cup {"cp_type"} \cup {"symbol_type"}
                \cup {"sysmsg_period"} \cup {"s_cfg_idx"} \cup {"sec_exch_cap"} \cup {"range_opt"}
                \cup {"aifh_enable"} \cup {"power"} \cup {"fisa_enable"}
           T == {} \cup {"cell_id"} \cup {"cc_offset"} \cup {"cp_type"} \cup {"symbol_type"}
                \cup {"sysmsg_period"} \cup {"s_cfg_idx"} \cup {"sec_exch_cap"} \cup {"range_opt"}
                \cup {"power"} \cup {"aifh_enable"} \cup {"fisa_enable"}
           takes == Parse \o Take("cell_id") \o Take("cc_offset") \o Take("cp_type")
                    \o Take("symbol_type") \o Take("sysmsg_period") \o Take("s_cfg_idx")
                    \o Take("sec_exch_cap") \o Take("range_opt") \o Take("aifh_enable")
                    \o Take("power") \o Take("fisa_enable")
           Taken(P, X) == Turns(g, P, <<{}, {}>>, <<X, {}>>)
           Wrote(P, Y) == Turns(g, P, <<{}, {}>>, <<S, Y>>)
<1>5. \A P, Q, X, Y : Taken(P, X) /\ Gets(Q, Y) => Taken(P \o Q, X \cup Y)
  BY TurnsJoined, Zenon DEF Takes
<1>6. \A P, Q, X, Y : Wrote(P, X) /\ Files(Q, Y) => Wrote(P \o Q, X \cup Y)
  BY TurnsJoined, Zenon DEF Puts
<1>7. Taken(Parse, {})
  BY <1>4, Zenon
<1>8. Taken(takes, S)
  <2> HIDE DEF Taken, Gets
  <2> QED
    BY ONLY <1>2, <1>5, <1>7, ZenonT(60)
<1>9. S \in SUBSET Params /\ T \in SUBSET Params /\ Saves[g] \subseteq S \cap T
  BY DEF Saves, Params
<1> DEFINE begin == takes \o set_node
           all == begin
                  \o Save("CELL_ID", "cell_id") \o Save("CC_SPOS", "cc_offset")
                  \o Save("CP_TYPE", "cp_type") \o Save("SYMBOL_CFG", "symbol_type")
                  \o Save("SYSMSG_PERIOD", "sysmsg_period") \o Save("S_CFG_IDX", "s_cfg_idx")
                  \o Save("SEC_EXCH_CAP", "sec_exch_cap") \o Save("RANGE_OPT", "range_opt")
                  \o Save("TX_POWER", "power") \o Save("ACS_ENABLE", "aifh_enable")
                  \o Save("FISA_ENABLE", "fisa_enable")
<1>10. wtsl_core_set_node_advinfo = all \o Row
  BY DEF wtsl_core_set_node_advinfo, wtsl_core_parse_json_set_node_advinfo
<1> HIDE DEF S, T, takes
<1>11. Wrote(begin, {})
  BY <1>4, <1>8, TurnsJoined, Zenon
<1>12. Wrote(all, T)
  <2> DEFINE x == begin \o Save("CELL_ID", "cell_id") \o Save("CC_SPOS", "cc_offset")
                  \o Save("CP_TYPE", "cp_type") \o Save("SYMBOL_CFG", "symbol_type")
                  \o Save("SYSMSG_PERIOD", "sysmsg_period")
             X == {} \cup {"cell_id"} \cup {"cc_offset"} \cup {"cp_type"} \cup {"symbol_type"}
                  \cup {"sysmsg_period"}
             y == x \o Save("S_CFG_IDX", "s_cfg_idx") \o Save("SEC_EXCH_CAP", "sec_exch_cap")
                  \o Save("RANGE_OPT", "range_opt")
             Y == X \cup {"s_cfg_idx"} \cup {"sec_exch_cap"} \cup {"range_opt"}
  <2> HIDE DEF Wrote, Files, begin
  <2>1. Wrote(x, X)
    BY ONLY <1>3, <1>6, <1>11, ZenonT(60)
  <2>2. /\ all = y \o Save("TX_POWER", "power") \o Save("ACS_ENABLE", "aifh_enable")
                \o Save("FISA_ENABLE", "fisa_enable")
        /\ T = Y \cup {"power"} \cup {"aifh_enable"} \cup {"fisa_enable"}
    BY DEF T
  <2> HIDE DEF x, X, all
  <2>3. Wrote(y, Y)
    BY ONLY <1>3, <1>6, <2>1, ZenonT(60)
  <2> HIDE DEF y, Y
  <2> QED
    BY ONLY <1>3, <1>6, <2>2, <2>3, ZenonT(60)
<1> HIDE DEF begin, all
<1>13. Wrote(wtsl_core_set_node_advinfo, T)
  BY <1>4, <1>10, <1>12, TurnsJoined, Zenon
<1> QED
  BY <1>9, <1>13

\* autojoinNetwork.
LEMMA AutoJoinFiled ==
  \E x, y \in SUBSET Params :
    /\ Saves["autojoinNetwork"] \subseteq x \cap y
    /\ Turns("autojoinNetwork", wtsl_core_auto_join_net, <<{}, {}>>, <<x, y>>)
<1> DEFINE g == "autojoinNetwork"
           S == {} \cup {"auto_join"}
<1>1. g \in Filed
  BY DEF Filed
<1>2. Takes(g, Take("auto_join"), {"auto_join"})
  BY <1>1, FiledSteps DEF Saves, Durable
<1>3. Puts(g, Save("AUTO_JOIN_NET", "auto_join"), {"auto_join"})
  <2>1. "auto_join" \in DOMAIN KeyOf /\ KeyOf["auto_join"] = "AUTO_JOIN_NET"
    BY DEF KeyOf
  <2> QED
    BY <1>1, <2>1, FiledSteps
<1>4. Turns(g, Parse, <<{}, {}>>, <<{}, {}>>)
  BY <1>1, InertSteps, Zenon DEF Inert
<1>5. /\ Turns(g, Take("auto_join"), <<{}, {}>>, <<S, {}>>)
      /\ Turns(g, Save("AUTO_JOIN_NET", "auto_join"), <<S, {}>>, <<S, S>>)
  BY <1>2, <1>3, Zenon DEF Takes, Puts
<1>6. S \in SUBSET Params /\ Saves[g] \subseteq S \cap S
  BY DEF Saves, Params
<1> HIDE DEF S
<1>7. Turns(g, wtsl_core_auto_join_net, <<{}, {}>>, <<S, S>>)
  BY <1>4, <1>5, TurnsJoined, Zenon DEF wtsl_core_auto_join_net
<1> QED
  BY <1>6, <1>7

\* All others take no parameter, but for two, which take one each.
LEMMA OthersFiled ==
  /\ \A a \in (DOMAIN GetApi \cup DOMAIN PostApi) \ (Filed \cup {"chswitch", "aifh"}) :
       Turns("plain", Program[a], 0, 0)
  /\ Turns("switch", Program["chswitch"], 0, 0) /\ Turns("aifh", Program["aifh"], 0, 0)
<1>1. /\ \A P, Q : Idles(P) /\ Idles(Q) => Idles(P \o Q)
      /\ \A c, P : Idles(P) => Idles(If(c, P))
  BY InertJoined
<1>2. Idles(<<>>)
  <2>1. IsSeq(<<>>) /\ Len(<<>>) = 0 /\ Len(<<>>) + 1 = 1
    <3>1. <<>> \in Seq({}) /\ Len(<<>>) = 0
      OBVIOUS
    <3> QED
      BY <3>1 DEF IsSeq
  <2> DEFINE A == <<0>>
  <2>2. A[1] = 0
    OBVIOUS
  <2> HIDE DEF A
  <2>3. Outline("plain", <<>>, A)
    BY <2>1 DEF Outline
  <2> QED
    BY <2>1, <2>2, <2>3, Zenon DEF Turns, Idles
<1>3. Idles(WideChannel)
  <2> DEFINE c == SetTo("slb_set_channel", Value("channel", 1875))
             x == Adopt("slb_set_bw", Value("bw", 80))
             y == Adopt("slb_set_tfc_bw", Value("tfc_bw", 80))
  <2>1. Idles(Down) /\ Idles(c) /\ Idles(x) /\ Idles(y)
    <3>1. \A w, l : Idles(Down) /\ Idles(SetTo(w, l)) /\ Idles(Adopt(w, l))
      BY IdleSteps, Zenon
    <3> QED
      BY <3>1
  <2>2. WideChannel = Down \o c \o x \o y
    BY DEF WideChannel
  <2> HIDE DEF c, x, y
  <2> QED
    BY ONLY <1>1, <2>1, <2>2, ZenonT(60)
<1>4. \A c, y : Idles(Mib(c, y))
  BY IdleSteps DEF Mib
<1>5. /\ Idles(wtsl_core_do_shortrange) /\ Idles(wtsl_core_do_remoterange)
      /\ Idles(wtsl_core_do_lowlatency) /\ Idles(wtsl_core_do_lowpow)
  BY ONLY <1>1, <1>2, <1>3, <1>4, IdleSteps, ZenonT(60)
     DEF wtsl_core_do_shortrange, wtsl_core_parse_json_do_shortrange,
         wtsl_core_do_remoterange, wtsl_core_parse_json_do_remoterange,
         wtsl_core_do_lowlatency, wtsl_core_parse_json_do_lowlatency,
         wtsl_core_do_lowpow, wtsl_core_parse_json_do_lowpow
<1>6. Idles(wtsl_core_do_throughput)
  <2> DEFINE x == Tell("sysctl") \o Tell("rx_thread_switch") \o Tell("set_mcs_bound")
             power == SetTo("slb_set_tx_power", Value("power", 250))
  <2>1. Idles(x)
    BY ONLY <1>1, IdleSteps, ZenonT(60)
  <2>2. Idles(power) /\ Idles(Mib(0, 1)) /\ Idles(Up)
    <3>1. /\ \A w, l : Idles(SetTo(w, l))
          /\ Idles(Up)
      BY IdleSteps, Zenon
    <3> QED
      BY <1>4, <3>1
  <2>3. wtsl_core_do_throughput = x \o power \o WideChannel \o Mib(0, 1) \o Up
    BY DEF wtsl_core_do_throughput
  <2> HIDE DEF x, power
  <2> QED
    BY ONLY <1>1, <1>3, <2>1, <2>2, <2>3, ZenonT(60)
<1>7. Idles(wtsl_core_do_connect)
  BY ONLY <1>1, IdleSteps, ZenonT(60) DEF wtsl_core_do_connect, wtsl_core_parse_json_tnode_join_net
<1>8. /\ Idles(wtsl_core_start_scan) /\ Idles(wtsl_core_do_disconnect)
      /\ Idles(wtsl_core_show_bss) /\ Idles(wtsl_core_get_node_conninfo)
  BY ONLY <1>1, IdleSteps, ZenonT(60)
     DEF wtsl_core_start_scan, wtsl_core_do_disconnect, wtsl_core_show_bss, parse_show_bss_output,
         slb_t_node_scan, wtsl_core_get_node_conninfo, wtsl_core_parse_json_view_users
<1>9. /\ Idles(wtsl_core_do_time_sync) /\ Idles(wtsl_core_do_reboot)
      /\ Idles(wtsl_core_do_restore) /\ Idles(wtsl_core_get_node_traffic)
  BY ONLY <1>1, IdleSteps, ZenonT(60)
     DEF wtsl_core_do_time_sync, wtsl_core_do_reboot, wtsl_core_do_restore,
         wtsl_core_get_node_traffic
<1>10. /\ Idles(wtsl_core_get_secalg) /\ Idles(wtsl_core_set_adaptivemcs)
       /\ Idles(wtsl_core_do_clearschmcs) /\ Idles(wtsl_core_get_adaptivemcsinfo)
       /\ Idles(wtsl_core_get_mcsboundinfo) /\ Idles(wtsl_core_set_mcsbound)
  BY ONLY <1>1, IdleSteps, ZenonT(60)
     DEF wtsl_core_get_secalg, wtsl_core_set_adaptivemcs, wtsl_core_do_clearschmcs,
         wtsl_core_get_adaptivemcsinfo, wtsl_core_get_mcsboundinfo, wtsl_core_set_mcsbound
<1>11. Idles(wtsl_core_get_traceinfo)
  BY ONLY <1>1, IdleSteps, ZenonT(60)
     DEF wtsl_core_get_traceinfo, wtsl_core_get_traceinfo_vip,
         wtsl_core_get_traceinfo_throughput, wtsl_core_get_traceinfo_delay,
         wtsl_core_get_traceinfo_drop, wtsl_core_get_traceinfo_mcs,
         wtsl_core_get_traceinfo_user_access
<1>12. Idles(wtsl_core_get_node_advinfo)
  BY ONLY <1>1, IdleSteps, ZenonT(60)
     DEF wtsl_core_get_node_advinfo, create_node_advinfo_json, sync_advinfo
<1>13. /\ Idles(wtsl_core_get_all_nodes_info) /\ Idles(wtsl_core_get_node_basicinfo)
       /\ Idles(wtsl_core_get_hw_resources_usage)
  BY ONLY <1>1, IdleSteps, ZenonT(60)
     DEF wtsl_core_get_all_nodes_info, wtsl_core_get_node_basicinfo, create_node_info_json,
         wtsl_core_get_hw_resources_usage, slb_node_get_hw_resources_info,
         get_cpu_usage_stats, get_load_average, get_memory_usage, get_disk_usage
<1>14. /\ \A a \in DOMAIN GetApi : Program[a] = GetApi[a]
       /\ \A a \in DOMAIN PostApi : Program[a] = PostApi[a]
  BY DEF Program, Over, GetApi, PostApi
<1>15. \A a \in DOMAIN GetApi : Idles(GetApi[a])
  BY <1>8, <1>12, <1>13 DEF GetApi
<1>16. \A a \in DOMAIN PostApi \ (Filed \cup {"chswitch", "aifh"}) : Idles(PostApi[a])
  BY <1>5, <1>6, <1>7, <1>8, <1>9, <1>10, <1>11 DEF PostApi, Filed
\* The two.
<1>17. ASSUME NEW g, NEW p, \A s, a, b : OneGoes(p, s, a, b) => Goes(g, s, a, b),
              \A s, a : Skips(g, s, a, a)
       PROVE  LET Stays(P) == Turns(g, P, 0, 0) IN
              /\ \A s : s.op \notin {"if", "lock"} /\ (s.op = "take" => s.arg = p) => Stays(<<s>>)
              /\ \A P, Q : Stays(P) /\ Stays(Q) => Stays(P \o Q)
              /\ \A c, P : Stays(P) => Stays(If(c, P))
  <2> DEFINE Stays(P) == Turns(g, P, 0, 0)
  <2>1. ASSUME NEW s, s.op \notin {"if", "lock"}, s.op = "take" => s.arg = p
        PROVE  Stays(<<s>>)
    <3>1. Goes(g, s, 0, 0)
      BY <2>1, <1>17 DEF OneGoes
    <3> QED
      BY <2>1, <3>1, TurnsStep, Zenon
  <2>2. \A P, Q : Stays(P) /\ Stays(Q) => Stays(P \o Q)
    BY TurnsJoined, Zenon
  <2>3. ASSUME NEW c, NEW P, Stays(P)
        PROVE  Stays(If(c, P))
    <3> DEFINE s == [op |-> "if", arg |-> c, name |-> Len(P), lits |-> <<>>]
    <3>1. s.op = "if"
      OBVIOUS
    <3> HIDE DEF s
    <3>2. Goes(g, s, 0, 0) /\ Skips(g, s, 0, 0)
      BY <3>1, <1>17 DEF OneGoes
    <3> QED
      BY <2>3, <3>2, TurnsIf, Zenon DEF s
  <2> HIDE DEF Stays
  <2> QED
    BY <2>1, <2>2, <2>3 DEF Stays
<1>18. Turns("switch", wtsl_core_do_chswitch, 0, 0)
  <2> DEFINE Stays(P) == Turns("switch", P, 0, 0)
  <2>1. /\ \A s, a, b : OneGoes("channel", s, a, b) => Goes("switch", s, a, b)
        /\ \A s, a : Skips("switch", s, a, a)
    BY DEF Goes, Skips
  <2>2. /\ \A s : s.op \notin {"if", "lock"} /\ (s.op = "take" => s.arg = "channel")
                 => Stays(<<s>>)
        /\ \A P, Q : Stays(P) /\ Stays(Q) => Stays(P \o Q)
        /\ \A c, P : Stays(P) => Stays(If(c, P))
    BY <1>17, <2>1
  <2> HIDE DEF Stays
  <2>3. /\ Stays(Parse) /\ Stays(Take("channel")) /\ Stays(Copy("channel")) /\ Stays(Null)
        /\ Stays(Save("CHANNEL", "channel")) /\ Stays(MustSet("bss_chan_switch"))
    BY <2>2 DEF Parse, Take, Copy, Null, Save, MustSet, Op
  <2>4. Stays(wtsl_core_do_chswitch)
    BY ONLY <2>2, <2>3, ZenonT(60) DEF wtsl_core_do_chswitch
  <2> QED
    BY <2>4 DEF Stays
<1>19. Turns("aifh", wtsl_core_do_aifh, 0, 0)
  <2> DEFINE Stays(P) == Turns("aifh", P, 0, 0)
  <2>1. /\ \A s, a, b : OneGoes("aifh_enable", s, a, b) => Goes("aifh", s, a, b)
        /\ \A s, a : Skips("aifh", s, a, a)
    BY DEF Goes, Skips
  <2>2. /\ \A s : s.op \notin {"if", "lock"} /\ (s.op = "take" => s.arg = "aifh_enable")
                 => Stays(<<s>>)
        /\ \A P, Q : Stays(P) /\ Stays(Q) => Stays(P \o Q)
        /\ \A c, P : Stays(P) => Stays(If(c, P))
    BY <1>17, <2>1
  <2> HIDE DEF Stays
  <2>3. /\ Stays(Parse) /\ Stays(Take("aifh_enable")) /\ Stays(Copy("aifh_enable"))
        /\ Stays(Null) /\ Stays(Save("AIFH_ENABLE", "aifh_enable"))
        /\ Stays(MustSet("set_acs_enable"))
    BY <2>2 DEF Parse, Take, Copy, Null, Save, MustSet, Op
  <2>4. Stays(wtsl_core_do_aifh)
    BY ONLY <2>2, <2>3, ZenonT(60) DEF wtsl_core_do_aifh
  <2> QED
    BY <2>4 DEF Stays
<1>20. /\ "chswitch" \in DOMAIN PostApi /\ PostApi["chswitch"] = wtsl_core_do_chswitch
       /\ "aifh" \in DOMAIN PostApi /\ PostApi["aifh"] = wtsl_core_do_aifh
  BY DEF PostApi
<1> QED
  BY <1>14, <1>15, <1>16, <1>18, <1>19, <1>20 DEF Idles

\* All functions.
LEMMA Outlined ==
  /\ \A a \in DOMAIN GetApi \cup DOMAIN PostApi :
       /\ Turns("band", Program[a], "rest", "rest")
       /\ \E e \in {0, 16, 20} : Turns("http", Program[a], 0, e)
  /\ Turns("http", Program["set_basicinfo"], 0, 16)
  /\ Turns("band", Program["boot"], "blank", "rest") /\ Turns("boot", Program["boot"], 0, 1)
  /\ Turns("watch", Program["pass"], 0, 5)
  /\ \E e \in SUBSET Params :
       Loaded \subseteq e /\ Turns("load", Program["boot"], {}, {"default"} \cup e)
  /\ \A g \in Filed : \E x, y \in SUBSET Params :
       /\ Saves[g] \subseteq x \cap y
       /\ Turns(g, Program[g], <<{}, {}>>, <<x, y>>)
  /\ \A a \in (DOMAIN GetApi \cup DOMAIN PostApi) \ (Filed \cup {"chswitch", "aifh"}) :
       Turns("plain", Program[a], 0, 0)
  /\ Turns("switch", Program["chswitch"], 0, 0) /\ Turns("aifh", Program["aifh"], 0, 0)
<1> DEFINE OK(P) == /\ Turns("band", P, "rest", "rest")
                    /\ \E e \in {0, 16, 20} : Turns("http", P, 0, e)
<1>1. /\ \A a \in DOMAIN GetApi : Program[a] = GetApi[a]
      /\ \A a \in DOMAIN PostApi : Program[a] = PostApi[a]
      /\ Program["boot"] = wtsl_core_main
      /\ Program["pass"] = wtsl_core_splink_state_watcher
      /\ Program["set_basicinfo"] = wtsl_core_set_node_basicinfo
  BY DEF Program, Over, GetApi, PostApi
<1>2. \A P : Rests(P) \/ Copies(P) => OK(P)
  BY DEF Rests, Copies
<1>3. OK(wtsl_core_set_node_basicinfo)
  BY BasicOutlined
<1> HIDE DEF OK
<1>4. \A a \in DOMAIN GetApi : OK(GetApi[a])
  BY <1>2, ReadingsOutlined, NetworksOutlined DEF GetApi
<1>5. \A a \in DOMAIN PostApi : OK(PostApi[a])
  BY <1>2, <1>3, ReadingsOutlined, NetworksOutlined, CommandsOutlined, AdvancedOutlined,
     ModesOutlined DEF PostApi
<1>6. \A a \in DOMAIN GetApi \cup DOMAIN PostApi : OK(Program[a])
  BY <1>1, <1>4, <1>5
<1>7. \A g \in Filed : \E x, y \in SUBSET Params :
        /\ Saves[g] \subseteq x \cap y
        /\ Turns(g, Program[g], <<{}, {}>>, <<x, y>>)
  <2>1. /\ Program["set_advinfo"] = wtsl_core_set_node_advinfo
        /\ Program["autojoinNetwork"] = wtsl_core_auto_join_net
    BY DEF Program, Over, GetApi, PostApi
  <2> QED
    BY <1>1, <2>1, BasicFiled, AdvancedFiled, AutoJoinFiled DEF Filed
<1> QED
  BY <1>1, <1>6, <1>7, BasicOutlined, BootOutlined, PassOutlined, LoadOutlined, OthersFiled DEF OK

-----------------------------------------------------------------------------
(***************************************************************************)
(* What a step does when no command fails                                  *)
(***************************************************************************)
\* Which action a step is, by its operation.
LEMMA ByOperation ==
  ASSUME Jobs, NEW self \in Thread, Step(self), ~Return(self)
  PROVE  /\ AtStep(self)
         /\ Now(self).op \in {"set", "must", "adopt"} => SetParameter(self)
         /\ Now(self).op = "get" => GetParameter(self)
         /\ Now(self).op = "query" => QueryParameter(self)
         /\ Now(self).op \in {"take", "copy", "assign", "default", "clear"} => Compute(self)
         /\ Now(self).op = "read" => config_get(self)
         /\ Now(self).op = "save" => config_set(self)
         /\ Now(self).op = "remove" => RemoveFile(self)
         /\ Now(self).op = "join" => slb_t_node_start_join(self)
         /\ Now(self).op = "if" => Branch(self)
         /\ Now(self).op \in {"lock", "unlock"} => Mutex(self)
<1> DEFINE Is(A, ops) == A => AtStep(self) /\ Now(self).op \in ops
<1>1. Is(SetParameter(self), {"set", "must", "adopt"})
  BY Places DEF SetParameter
<1>2. Is(GetParameter(self), {"get"}) /\ Is(QueryParameter(self), {"query"})
  BY Places DEF GetParameter, QueryParameter
<1>3. Is(Compute(self), {"take", "copy", "assign", "default", "clear"})
  BY Places DEF Compute
<1>4. /\ Is(config_get(self), {"read"}) /\ Is(config_set(self), {"save"})
      /\ Is(RemoveFile(self), {"remove"})
  BY Places DEF config_get, config_set, RemoveFile
<1>5. Is(slb_ifconfig(self), {"ifconfig"}) /\ Is(slb_t_node_start_join(self), {"join"})
  BY Places DEF slb_ifconfig, slb_t_node_start_join
<1>6. /\ Is(TestResult(self), {"parse", "joined", "null", "ask", "popen"})
      /\ Is(RunCommand(self), {"show", "tell"}) /\ Is(Reboots(self), {"reboot"})
  BY Places DEF TestResult, RunCommand, Reboots
<1>7. Is(Branch(self), {"if"})
  <2>1. Branch(self) => At(self, {"if"})
    BY Zenon DEF Branch
  <2> QED
    BY <2>1, Places
<1>8. Is(Mutex(self), {"lock", "unlock"}) /\ Is(update_wtsl_node_basicinfo(self), {"row"})
  BY Places DEF Mutex, update_wtsl_node_basicinfo
<1> QED
  BY <1>1, <1>2, <1>3, <1>4, <1>5, <1>6, <1>7, <1>8 DEF Step

\* The driver's parameters that are written, as the setter says.
LEMMA SetsWell ==
  ASSUME Values, Jobs, NEW self \in Thread, Step(self), ~Return(self), "fault" \notin events',
         Now(self).op \in {"set", "must", "adopt"}
  PROVE  LET s == SetterNamed(Now(self).arg, Args(self)) IN
         /\ s.valid => /\ drv' = Over(s.writes, drv)
                       /\ mem' = IF Now(self).op = "adopt" THEN Over(Now(self).lits, mem) ELSE mem
         /\ ~s.valid => drv' = drv /\ mem' = mem
<1>1. SetParameter(self)
  BY ByOperation
<1>2. ~Fault
  BY Failures
<1> QED
  BY <1>1, <1>2 DEF SetParameter

\* What is read, asked and taken.
LEMMA ReadsWell ==
  ASSUME Values, Jobs, NEW self \in Thread, Step(self), ~Return(self), "fault" \notin events'
  PROVE  LET st == Now(self) IN
         /\ st.op = "get" => \A p \in ReadBy(st.arg) : p \in Params =>
              mem'[p] = GetterNamed(st.arg, drv).value[p]
         /\ st.op = "query" =>
              /\ job'[self].local[st.name[2]] = drv[st.name[1]]
              /\ Noting(st.arg = "slb_get_bw" /\ Given("tfc_bw") > Given("bw"))
         /\ st.op = "take" =>
              mem'[st.arg] = IF st.arg \in DOMAIN job[self].body
                             THEN job[self].body[st.arg] ELSE mem[st.arg]
         /\ st.op = "assign" => mem'[st.arg] = job[self].local[st.name]
         /\ st.op = "default" => \A p \in DOMAIN st.lits : mem'[p] = st.lits[p]
         /\ st.op = "read" =>
              mem'[st.name] = IF file[st.arg] = Absent THEN mem[st.name] ELSE file[st.arg]
         /\ st.op = "join" => (\E n \in Networks : drv' = Over(n, drv)) /\ Noting(~Fits(drv'))
         /\ st.op = "save" => file'[st.arg] = Arg(self, st.name)
<1> DEFINE st == Now(self)
<1>1. ~Fault /\ AtStep(self)
  BY Failures, ByOperation
<1>2. mem \in [Params -> Int] /\ DOMAIN file = Key
  BY DEF Values
<1>3. StepOK(st)
  BY <1>1 DEF AtStep
<1>4. DOMAIN job = Thread /\ DOMAIN job[self] = {"prog", "at", "body", "local", "data"}
  BY DEF Jobs, JobInv
<1>5. ASSUME st.op = "get", NEW p \in Params, p \in ReadBy(st.arg)
      PROVE  mem'[p] = GetterNamed(st.arg, drv).value[p]
  <2>1. st.arg \in Getters
    BY <1>3, <1>5 DEF StepOK
  <2>2. p \in DOMAIN GetterNamed(st.arg, drv).value
    BY <2>1, <1>5, GettersTable
  <2>3. mem' = [q \in Params |-> IF q \in DOMAIN GetterNamed(st.arg, drv).value
                                 THEN GetterNamed(st.arg, drv).value[q] ELSE mem[q]]
    BY <1>1, <1>5, ByOperation DEF GetParameter
  <2> QED
    BY <2>2, <2>3
<1>6. ASSUME st.op = "query"
      PROVE  job'[self].local[st.name[2]] = drv[st.name[1]]
  <2>1. \/ st.arg = "slb_get_channel" /\ st.name = <<"channel", "tmp_channel">>
        \/ st.arg = "slb_get_bw" /\ st.name = <<"bw", "bw_now">>
    BY <1>3, <1>6 DEF StepOK
  <2>2. ContinueWith(self, st.name[2], GetterNamed(st.arg, drv).value[st.name[1]])
    BY <1>1, <1>6, ByOperation DEF QueryParameter
  <2>3. GetterNamed(st.arg, drv).value[st.name[1]] = drv[st.name[1]]
    <3>1. CASE st.arg = "slb_get_channel" /\ st.name = <<"channel", "tmp_channel">>
      BY <3>1 DEF GetterNamed, slb_get_channel, Getter, Value
    <3>2. CASE st.arg = "slb_get_bw" /\ st.name = <<"bw", "bw_now">>
      BY <3>2 DEF GetterNamed, slb_get_bw, Getter, Value
    <3> QED
      BY <2>1, <3>1, <3>2
  <2> DEFINE x == st.name[2]
             v == drv[st.name[1]]
             l == Over(Value(x, v), job[self].local)
  <2>4. job' = [job EXCEPT ![self].at = @ + 1, ![self].local = l]
    BY <2>2, <2>3 DEF ContinueWith
  <2>5. l[x] = v
    BY DEF Over, Value
  <2> HIDE DEF l, x, v
  <2>6. job'[self].local = l
    BY <1>4, <2>4
  <2> QED
    BY <2>5, <2>6 DEF x, v
<1>7. ASSUME st.op = "take"
      PROVE  mem'[st.arg] = IF st.arg \in DOMAIN job[self].body
                            THEN job[self].body[st.arg] ELSE mem[st.arg]
  <2>1. st.arg \in Params
    BY <1>3, <1>7 DEF StepOK
  <2>2. mem' = IF st.arg \in DOMAIN job[self].body
               THEN [mem EXCEPT ![st.arg] = job[self].body[st.arg]] ELSE mem
    BY <1>7, ByOperation DEF Compute
  <2> QED
    BY <1>2, <2>1, <2>2
<1>8. ASSUME st.op = "assign"
      PROVE  mem'[st.arg] = job[self].local[st.name]
  <2>1. st.arg \in Params
    BY <1>3, <1>8 DEF StepOK
  <2>2. mem' = [mem EXCEPT ![st.arg] = job[self].local[st.name]]
    BY <1>8, ByOperation DEF Compute
  <2> QED
    BY <1>2, <2>1, <2>2
<1>9. ASSUME st.op = "default", NEW p \in DOMAIN st.lits
      PROVE  mem'[p] = st.lits[p]
  <2>1. mem' = Over(st.lits, mem)
    BY <1>9, ByOperation DEF Compute
  <2> QED
    BY <1>9, <2>1 DEF Over
<1>10. ASSUME st.op = "read"
       PROVE  mem'[st.name] = IF file[st.arg] = Absent THEN mem[st.name] ELSE file[st.arg]
  <2>1. st.name \in Params
    BY <1>3, <1>10 DEF StepOK
  <2>2. mem' = IF file[st.arg] = Absent THEN mem
               ELSE [mem EXCEPT ![st.name] = file[st.arg]]
    BY <1>1, <1>10, ByOperation DEF config_get
  <2> QED
    BY <1>2, <2>1, <2>2
<1>11. st.op = "join" => (\E n \in Networks : drv' = Over(n, drv)) /\ Noting(~Fits(drv'))
  BY <1>1, ByOperation DEF slb_t_node_start_join
<1>12. ASSUME st.op = "save"
       PROVE  file'[st.arg] = Arg(self, st.name)
  <2>1. st.arg \in Key
    BY <1>3, <1>12 DEF StepOK, Saved
  <2>2. file' = [file EXCEPT ![st.arg] = Arg(self, st.name)]
    BY <1>1, <1>12, ByOperation DEF config_set
  <2> QED
    BY <1>2, <2>1, <2>2
<1>13. st.op = "query" => Noting(st.arg = "slb_get_bw" /\ Given("tfc_bw") > Given("bw"))
  BY <1>1, ByOperation DEF QueryParameter
<1> QED
  BY <1>5, <1>6, <1>7, <1>8, <1>9, <1>10, <1>11, <1>12, <1>13

\* Where a condition leads, and the mutex.
LEMMA TestsWell ==
  ASSUME Values, Jobs, NEW self \in Thread, Step(self), ~Return(self)
  PROVE  LET st == Now(self) IN
         /\ st.op = "lock" => lock = "none" /\ lock' = self
         /\ st.op = "unlock" => lock' = "none"
         /\ st.op = "if" /\ "fault" \notin events' =>
              \/ Holds(self, st.arg) /\ job'[self].at = job[self].at + 1
              \/ ~Holds(self, st.arg) /\ job'[self].at = job[self].at + 1 + st.name
<1> DEFINE st == Now(self)
<1>1. AtStep(self)
  BY ByOperation
<1>2. st.op = "lock" => lock = "none" /\ lock' = self
  <2> SUFFICES ASSUME st.op = "lock"
               PROVE  lock = "none" /\ lock' = self
    OBVIOUS
  <2>1. Mutex(self)
    BY ByOperation
  <2>2. ~At(self, {"unlock"})
    BY Places
  <2> QED
    BY <2>1, <2>2 DEF Mutex
<1>3. st.op = "unlock" => lock' = "none"
  <2> SUFFICES ASSUME st.op = "unlock"
               PROVE  lock' = "none"
    OBVIOUS
  <2>1. Mutex(self)
    BY ByOperation
  <2>2. ~At(self, {"lock"})
    BY Places
  <2> QED
    BY <2>1, <2>2 DEF Mutex
<1>4. ASSUME st.op = "if", "fault" \notin events'
      PROVE  \/ Holds(self, st.arg) /\ job'[self].at = job[self].at + 1
             \/ ~Holds(self, st.arg) /\ job'[self].at = job[self].at + 1 + st.name
  <2> DEFINE h == Holds(self, st.arg)
             Goto(taken) == job' = [job EXCEPT ![self].at =
                                      @ + 1 + (IF taken THEN 0 ELSE st.name)]
  <2>1. Branch(self) /\ ~Fault
    BY <1>4, ByOperation, Failures
  <2>2. Goto(h)
    BY <2>1 DEF Branch
  <2>3. /\ DOMAIN job = Thread /\ job[self].at \in Nat
        /\ DOMAIN job[self] = {"prog", "at", "body", "local", "data"}
    BY <1>1 DEF Jobs, JobInv, AtStep, Place
  <2> HIDE DEF h
  <2>4. CASE h
    <3>1. job' = [job EXCEPT ![self].at = @ + 1 + 0]
      BY <2>2, <2>4
    <3> QED
      BY <2>3, <2>4, <3>1 DEF h
  <2>5. CASE ~h
    <3>1. job' = [job EXCEPT ![self].at = @ + 1 + st.name]
      BY <2>2, <2>5
    <3> QED
      BY <2>3, <2>5, <3>1 DEF h
  <2> QED
    BY <2>4, <2>5
<1> QED
  BY <1>2, <1>3, <1>4

-----------------------------------------------------------------------------
(***************************************************************************)
(* Where the threads are in the outlines of their functions                *)
(***************************************************************************)
Api == DOMAIN GetApi \cup DOMAIN PostApi

\* The functions that an outline is of; where it begins and ends.
Follows == [band |-> Api \cup {"boot"}, http |-> Api, watch |-> {"pass"}, boot |-> {"boot"},
            load |-> {"boot"}, plain |-> Api \ (Filed \cup {"chswitch", "aifh"}),
            switch |-> {"chswitch"}, aifh |-> {"aifh"},
            set_basicinfo |-> {"set_basicinfo"}, set_advinfo |-> {"set_advinfo"},
            autojoinNetwork |-> {"autojoinNetwork"}]

Begin(g, a) ==
  CASE g = "band" /\ a = "boot" -> "blank"
    [] g = "band" /\ a # "boot" -> "rest"
    [] g = "load"               -> {}
    [] g \in Filed              -> <<{}, {}>>
    [] OTHER                    -> 0

End(g, a) ==
  CASE g = "band"  -> {"rest"}
    [] g = "http"  -> IF a = "set_basicinfo" THEN {16} ELSE {0, 16, 20}
    [] g = "watch" -> {5}
    [] g = "boot"  -> {1}
    [] g = "load"  -> {{"default"} \cup e : e \in {x \in SUBSET Params : Loaded \subseteq x}}
    [] g \in Filed -> {<<x, y>> : x, y \in {e \in SUBSET Params : Saves[g] \subseteq e}}
    [] OTHER       -> {0}

Drawn(g, a, A) ==
  Outline(g, Program[a], A) /\ A[1] = Begin(g, a) /\ A[Len(Program[a]) + 1] \in End(g, a)

OutlineOf(g, a) == CHOOSE A : Drawn(g, a, A)

Phase(g, t) == OutlineOf(g, job[t].prog)[job[t].at]

\* Every function has the outline chosen for it.
LEMMA Outlines ==
  ASSUME NEW g \in DOMAIN Follows, NEW a \in Follows[g]
  PROVE  Drawn(g, a, OutlineOf(g, a))
<1>1. \E e \in End(g, a) : Turns(g, Program[a], Begin(g, a), e)
  <2>1. CASE g = "band"
    <3>1. a = "boot" \/ (a \in Api /\ a # "boot")
      BY <2>1, Names DEF Follows, Api
    <3> QED
      BY <2>1, <3>1, Outlined DEF Begin, End, Api, Filed
  <2>2. CASE g = "http"
    <3>1. a \in Api
      BY <2>2 DEF Follows
    <3>2. CASE a = "set_basicinfo"
      BY <2>2, <3>2, Outlined DEF Begin, End, Filed
    <3>3. CASE a # "set_basicinfo"
      BY <2>2, <3>1, <3>3, Outlined DEF Begin, End, Api, Filed
    <3> QED
      BY <3>2, <3>3
  <2>3. CASE g = "watch"
    BY <2>3, Outlined DEF Begin, End, Follows, Filed
  <2>4. CASE g = "boot"
    BY <2>4, Outlined DEF Begin, End, Follows, Filed
  <2>5. CASE g = "load"
    BY <2>5, Outlined DEF Begin, End, Follows, Filed
  <2>6. CASE g \in Filed
    <3>1. a = g
      BY <2>6 DEF Follows, Filed
    <3>2. PICK x, y \in SUBSET Params :
            Saves[g] \subseteq x \cap y /\ Turns(g, Program[g], <<{}, {}>>, <<x, y>>)
      BY <2>6, Outlined
    <3>3. Begin(g, a) = <<{}, {}>> /\ <<x, y>> \in End(g, a)
      BY <2>6, <3>2 DEF Begin, End, Filed
    <3> QED
      BY <3>1, <3>2, <3>3
  <2>7. CASE g \in {"plain", "switch", "aifh"}
    BY <2>7, Outlined DEF Begin, End, Follows, Filed, Api
  <2> QED
    BY <2>1, <2>2, <2>3, <2>4, <2>5, <2>6, <2>7 DEF Follows, Filed
<1>2. \E A : Drawn(g, a, A)
  BY <1>1 DEF Turns, Drawn
<1> QED
  BY <1>2, Zenon DEF OutlineOf

\* A step follows the outline.
Moves(g, self) ==
  LET s == Now(self)
      i == job[self].at
      k == job'[self].at
  IN /\ k = i + 1 => Goes(g, s, Phase(g, self), Phase(g, self)')
     /\ s.op = "if" /\ k = i + 1 + s.name => Skips(g, s, Phase(g, self), Phase(g, self)')
     /\ k = i + 1 \/ (s.op = "if" /\ k = i + 1 + s.name)

\* A thread that goes on is at a stage that its step leads to.
LEMMA PhaseMoves ==
  ASSUME Jobs, NEW self \in Thread, AtStep(self), GoesOn(self),
         NEW g \in DOMAIN Follows, job[self].prog \in Follows[g]
  PROVE  Moves(g, self)
<1> DEFINE a == job[self].prog
           A == OutlineOf(g, a)
           P == Program[a]
           i == job[self].at
<1>1. Outline(g, P, A)
  BY Outlines DEF Drawn
<1>2. i \in 1 .. Len(P) /\ Now(self) = P[i]
  BY DEF AtStep, Code, Place
<1>3. /\ Goes(g, P[i], A[i], A[i + 1])
      /\ P[i].op = "if" => Skips(g, P[i], A[i], A[i + 1 + P[i].name])
  BY <1>1, <1>2 DEF Outline
<1>4. job'[self].prog = a
  BY DEF GoesOn, Advances
<1>5. Phase(g, self) = A[i] /\ Phase(g, self)' = A[job'[self].at]
  BY <1>4 DEF Phase
<1>6. \/ job'[self].at = i + 1
      \/ Now(self).op = "if" /\ job'[self].at = i + 1 + Now(self).name
  BY DEF GoesOn, Advances, Place
<1> HIDE DEF a, A, P, i
<1>7. /\ job'[self].at = i + 1 => Goes(g, P[i], A[i], A[job'[self].at])
      /\ P[i].op = "if" /\ job'[self].at = i + 1 + P[i].name
           => Skips(g, P[i], A[i], A[job'[self].at])
  BY <1>3
<1> QED
  BY <1>2, <1>5, <1>6, <1>7, Zenon DEF Moves, i

\* Every step is one that the outline knows, refusals too.
LEMMA PhaseKnown ==
  ASSUME NEW self \in Thread, AtStep(self), NEW g \in DOMAIN Follows,
         job[self].prog \in Follows[g]
  PROVE  \E k : Goes(g, Now(self), Phase(g, self), k)
<1> DEFINE A == OutlineOf(g, job[self].prog)
           P == Program[job[self].prog]
           i == job[self].at
<1>1. Outline(g, P, A)
  BY Outlines DEF Drawn
<1>2. i \in 1 .. Len(P) /\ Now(self) = P[i]
  BY DEF AtStep, Code, Place
<1>3. Goes(g, P[i], A[i], A[i + 1])
  BY <1>1, <1>2 DEF Outline
<1> QED
  BY <1>2, <1>3, Zenon DEF Phase

\* A function begins at the first stage,
LEMMA PhaseBegins ==
  ASSUME NEW t \in Thread, NEW g \in DOMAIN Follows, job[t].prog \in Follows[g], job[t].at = 1
  PROVE  Phase(g, t) = Begin(g, job[t].prog)
BY Outlines DEF Drawn, Phase

\* and returns at a last one.
LEMMA PhaseEnds ==
  ASSUME Jobs, NEW t \in Thread, Return(t), NEW g \in DOMAIN Follows, job[t].prog \in Follows[g]
  PROVE  Phase(g, t) \in End(g, job[t].prog)
<1> DEFINE a == job[t].prog
<1>1. a \in DOMAIN Program /\ job[t].at > Len(Program[a])
  BY DEF Return
<1>2. Len(Program[a]) \in Nat
  BY <1>1, Programs DEF Good, Fragment, IsSeq
<1>3. job[t].at \in 1 .. Len(Program[a]) + 1
  BY <1>1 DEF Jobs, JobInv, JobOK
<1>4. job[t].at = Len(Program[a]) + 1
  BY <1>1, <1>2, <1>3
<1> QED
  BY <1>4, Outlines DEF Drawn, Phase

\* A thread whose job stays is where it was.
LEMMA PhaseStays ==
  ASSUME NEW t, NEW g, job'[t] = job[t]
  PROVE  Phase(g, t)' = Phase(g, t)
BY DEF Phase

\* The setters of the parameters that outlines follow.
LEMMA SetsOne ==
  ASSUME Values, Jobs, NEW self \in Thread, Step(self), ~Return(self), "fault" \notin events',
         NEW w, NEW p, Sets(Now(self), w), p \notin DOMAIN job[self].local,
         \/ w = "slb_set_bw" /\ p = "bw"
         \/ w = "slb_set_tfc_bw" /\ p = "tfc_bw"
         \/ w = "slb_set_channel" /\ p = "channel"
         \/ w = "slb_set_cell_id" /\ p = "cell_id"
  PROVE  /\ drv'[p] = IF mem[p] \in Legal[p] THEN mem[p] ELSE drv[p]
         /\ mem' = mem
         /\ \A q \in Radio \ {p} : drv'[q] = drv[q]
<1> DEFINE s == SetterNamed(w, Args(self))
<1>1. p \in Params /\ p \in Radio
  BY DEF Radio, Params
<1>2. Args(self)[p] = mem[p]
  <2>1. DOMAIN <<>> = {}
    OBVIOUS
  <2> QED
    BY <2>1, <1>1 DEF Args, Arg, Sets
<1>3. s.valid = (mem[p] \in Legal[p]) /\ s.writes = Value(p, mem[p])
  <2>1. CASE w = "slb_set_bw" /\ p = "bw"
    BY <2>1, <1>2 DEF SetterNamed, slb_set_bw, Setter, Legal
  <2>2. CASE w = "slb_set_tfc_bw" /\ p = "tfc_bw"
    BY <2>2, <1>2 DEF SetterNamed, slb_set_tfc_bw, Setter, Legal
  <2>3. CASE w = "slb_set_channel" /\ p = "channel"
    BY <2>3, <1>2 DEF SetterNamed, slb_set_channel, Setter, Legal
  <2>4. CASE w = "slb_set_cell_id" /\ p = "cell_id"
    BY <2>4, <1>2 DEF SetterNamed, slb_set_cell_id, Setter, Legal
  <2> QED
    BY <2>1, <2>2, <2>3, <2>4
<1> HIDE DEF s
<1>4. /\ s.valid => drv' = Over(s.writes, drv) /\ mem' = mem
      /\ ~s.valid => drv' = drv /\ mem' = mem
  BY SetsWell DEF Sets, s
<1>5. DOMAIN drv = Radio
  BY DEF Values
<1>6. CASE mem[p] \in Legal[p]
  <2>1. drv' = Over(Value(p, mem[p]), drv) /\ mem' = mem
    BY <1>3, <1>4, <1>6
  <2> QED
    BY <2>1, <1>1, <1>5, <1>6 DEF Over, Value
<1>7. CASE mem[p] \notin Legal[p]
  BY <1>3, <1>4, <1>7
<1> QED
  BY <1>6, <1>7

\* The conditions that outlines tell apart.
LEMMA TestsOne ==
  ASSUME Values, Jobs, NEW self \in Thread, Now(self).lits = <<>>
  PROVE  /\ Now(self).arg = "bw grows" /\ "bw" \notin DOMAIN job[self].local
            /\ "bw_now" \in DOMAIN job[self].local
            => (Holds(self, Now(self).arg) <=> mem.bw >= job[self].local.bw_now)
         /\ Now(self).arg = "bw shrinks" /\ "bw" \notin DOMAIN job[self].local
            /\ "bw_now" \in DOMAIN job[self].local
            => (Holds(self, Now(self).arg) <=> mem.bw < job[self].local.bw_now)
         /\ Now(self).arg = "channel moved" /\ "channel" \notin DOMAIN job[self].local
            /\ "tmp_channel" \in DOMAIN job[self].local
            => (Holds(self, Now(self).arg) <=>
                  /\ job[self].local.tmp_channel # 0
                  /\ job[self].local.tmp_channel # mem.channel)
<1> DEFINE v == Args(self)
           l == job[self].local
<1>1. DOMAIN <<>> = {}
  OBVIOUS
<1>2. "bw" \in Params /\ "channel" \in Params /\ "bw_now" \notin Params /\ "tmp_channel" \notin Params
  BY DEF Params
<1>3. /\ "bw" \notin DOMAIN l => v.bw = mem.bw
      /\ "channel" \notin DOMAIN l => v.channel = mem.channel
      /\ "bw_now" \in DOMAIN l => v.bw_now = l.bw_now
      /\ "tmp_channel" \in DOMAIN l => v.tmp_channel = l.tmp_channel
  BY <1>1, <1>2 DEF Args, Arg
<1>4. Holds(self, "bw grows") <=> v.bw >= v.bw_now
  BY DEF Holds, Traces
<1>5. Holds(self, "bw shrinks") <=> v.bw < v.bw_now
  BY DEF Holds, Traces
<1>6. Holds(self, "channel moved") <=> v.tmp_channel # 0 /\ v.tmp_channel # v.channel
  BY DEF Holds, Traces
<1> HIDE DEF v, l
<1> QED
  BY <1>3, <1>4, <1>5, <1>6 DEF l

-----------------------------------------------------------------------------
(***************************************************************************)
(* The bandwidths                                                          *)
(***************************************************************************)
\* The driver has v if v is legal; the value it would have then.
Has(v, w) == v \in Bandwidths => w = v
Gets(v, w) == IF v \in Bandwidths THEN v ELSE w

\* What the structure m and the driver d hold in a phase, for a thread with the local
\* variables l.
Level(d) == d.tfc_bw \in {0} \cup Bandwidths /\ d.bw \in {0} \cup Bandwidths /\ d.tfc_bw <= d.bw

Settles(m, d) == Has(m.bw, d.bw) /\ Has(m.tfc_bw, d.tfc_bw)

Ready(m, d) == Gets(m.tfc_bw, d.tfc_bw) <= Gets(m.bw, d.bw)

BandAt(h, m, d, l) ==
  /\ "bw" \notin DOMAIN l /\ "tfc_bw" \notin DOMAIN l
  /\ h \in {"known", "grows", "grown", "either", "shrinks"} => "bw_now" \in DOMAIN l
  /\ h \notin {"blank", "twenty"} => d.bw # 0
  /\ h = "rest"    => Settles(m, d)
  /\ h = "known"   => Ready(m, d) /\ l["bw_now"] = d.bw
  /\ h = "grows"   => Ready(m, d) /\ l["bw_now"] = d.bw /\ m.bw >= l["bw_now"]
  /\ h = "grown"   => Ready(m, d) /\ Has(m.bw, d.bw) /\ m.bw >= l["bw_now"]
  /\ h = "either"  => \/ m.bw >= l["bw_now"] /\ Settles(m, d)
                      \/ m.bw < l["bw_now"] /\ l["bw_now"] = d.bw /\ Ready(m, d)
  /\ h = "shrinks" => m.bw < l["bw_now"] /\ l["bw_now"] = d.bw /\ Ready(m, d)
  /\ h = "shrunk"  => Ready(m, d) /\ Has(m.tfc_bw, d.tfc_bw)
  /\ h = "wide"    => m.bw = 80 /\ d.bw = 80
  /\ h = "got"     => m.bw = d.bw
  /\ h = "blank"   => d.bw = 0 /\ d.tfc_bw = 0
  /\ h = "twenty"  => m.bw = 20 /\ m.tfc_bw = 20 /\ d.tfc_bw = 0
  /\ h = "broad"   => m.bw = 20 /\ m.tfc_bw = 20 /\ d.bw = 20 /\ d.tfc_bw = 0

\* A step that has nothing to do with the bandwidths.
LEMMA BandFreeKeeps ==
  ASSUME NEW h, NEW m, NEW d, NEW l, NEW m2, NEW d2, NEW l2,
         Level(d), BandAt(h, m, d, l),
         m2.bw = m.bw, m2.tfc_bw = m.tfc_bw, d2.bw = d.bw, d2.tfc_bw = d.tfc_bw,
         \A x \in {"bw", "tfc_bw", "bw_now"} :
           /\ x \in DOMAIN l2 <=> x \in DOMAIN l
           /\ x \in DOMAIN l => l2[x] = l[x]
  PROVE  Level(d2) /\ BandAt(h, m2, d2, l2)
<1>1. Level(d2)
  BY DEF Level
<1>2. l2["bw_now"] = l["bw_now"] \/ "bw_now" \notin DOMAIN l
  OBVIOUS
<1>3. Settles(m2, d2) = Settles(m, d) /\ Ready(m2, d2) = Ready(m, d)
  BY DEF Settles, Ready
<1>4. /\ "bw" \notin DOMAIN l2 /\ "tfc_bw" \notin DOMAIN l2
      /\ "bw_now" \in DOMAIN l2 <=> "bw_now" \in DOMAIN l
  BY DEF BandAt
<1> QED
  BY <1>1, <1>2, <1>3, <1>4 DEF BandAt

\* What the steps that have to do with them make of the values.
LEMMA BandValues ==
  ASSUME NEW m, NEW d, NEW l, NEW m2, NEW d2, NEW l2, Level(d),
         m.bw \in Int, m.tfc_bw \in Int,
         "bw" \notin DOMAIN l2, "tfc_bw" \notin DOMAIN l2
  PROVE  LET keepsM == m2.bw = m.bw /\ m2.tfc_bw = m.tfc_bw
             keepsD == d2.bw = d.bw /\ d2.tfc_bw = d.tfc_bw
             keepsL == "bw_now" \in DOMAIN l => "bw_now" \in DOMAIN l2 /\ l2["bw_now"] = l["bw_now"]
             setsBw  == d2.bw = Gets(m.bw, d.bw) /\ d2.tfc_bw = d.tfc_bw
             setsTfc == d2.tfc_bw = Gets(m.tfc_bw, d.tfc_bw) /\ d2.bw = d.bw
             OK(h) == Level(d2) /\ BandAt(h, m2, d2, l2)
         IN
         /\ BandAt("rest", m, d, l) /\ keepsD => OK("half")
         /\ BandAt("half", m, d, l) /\ keepsD => OK("ready")
         /\ BandAt("rest", m, d, l) \/ (BandAt("ready", m, d, l) /\ Ready(m, d)) =>
              (keepsM /\ keepsD /\ "bw_now" \in DOMAIN l2 /\ l2["bw_now"] = d.bw => OK("known"))
         /\ BandAt("grows", m, d, l) /\ keepsM /\ keepsL /\ setsBw => OK("grown")
         /\ BandAt("grown", m, d, l) /\ keepsM /\ keepsL /\ setsTfc => OK("either")
         /\ BandAt("shrinks", m, d, l) /\ keepsM /\ keepsL /\ setsTfc => OK("shrunk")
         /\ BandAt("shrunk", m, d, l) /\ keepsM /\ keepsL /\ setsBw => OK("rest")
         /\ BandAt("twenty", m, d, l) /\ keepsM /\ setsBw => OK("broad")
         /\ BandAt("broad", m, d, l) /\ keepsM /\ setsTfc => OK("rest")
<1> DEFINE keepsM == m2.bw = m.bw /\ m2.tfc_bw = m.tfc_bw
           keepsD == d2.bw = d.bw /\ d2.tfc_bw = d.tfc_bw
           keepsL == "bw_now" \in DOMAIN l => "bw_now" \in DOMAIN l2 /\ l2["bw_now"] = l["bw_now"]
           setsBw  == d2.bw = Gets(m.bw, d.bw) /\ d2.tfc_bw = d.tfc_bw
           setsTfc == d2.tfc_bw = Gets(m.tfc_bw, d.tfc_bw) /\ d2.bw = d.bw
           OK(h) == Level(d2) /\ BandAt(h, m2, d2, l2)
<1>1. ASSUME BandAt("rest", m, d, l), keepsD
      PROVE  OK("half")
  BY <1>1 DEF BandAt, Level
<1>2. ASSUME BandAt("half", m, d, l), keepsD
      PROVE  OK("ready")
  BY <1>2 DEF BandAt, Level
<1>3. ASSUME BandAt("rest", m, d, l) \/ (BandAt("ready", m, d, l) /\ Ready(m, d)),
             keepsM, keepsD, "bw_now" \in DOMAIN l2, l2["bw_now"] = d.bw
      PROVE  OK("known")
  <2>1. Ready(m, d)
    BY <1>3 DEF BandAt, Level, Ready, Gets, Has, Settles, Bandwidths
  <2>2. Ready(m2, d2)
    BY <2>1, <1>3 DEF Ready
  <2> QED
    BY <2>2, <1>3 DEF BandAt, Level
<1>4. ASSUME BandAt("grows", m, d, l), keepsM, keepsL, setsBw
      PROVE  OK("grown")
  BY <1>4 DEF BandAt, Level, Ready, Gets, Has, Bandwidths
<1>5. ASSUME BandAt("grown", m, d, l), keepsM, keepsL, setsTfc
      PROVE  OK("either")
  BY <1>5 DEF BandAt, Level, Ready, Gets, Has, Settles, Bandwidths
<1>6. ASSUME BandAt("shrinks", m, d, l), keepsM, keepsL, setsTfc
      PROVE  OK("shrunk")
  BY <1>6 DEF BandAt, Level, Ready, Gets, Has, Bandwidths
<1>7. ASSUME BandAt("shrunk", m, d, l), keepsM, keepsL, setsBw
      PROVE  OK("rest")
  BY <1>7 DEF BandAt, Level, Ready, Gets, Has, Settles, Bandwidths
<1>8. ASSUME BandAt("twenty", m, d, l), keepsM, setsBw
      PROVE  OK("broad")
  BY <1>8 DEF BandAt, Level, Gets, Bandwidths
<1>9. ASSUME BandAt("broad", m, d, l), keepsM, setsTfc
      PROVE  OK("rest")
  BY <1>9 DEF BandAt, Level, Gets, Has, Settles, Bandwidths
<1> QED
  BY <1>1, <1>2, <1>3, <1>4, <1>5, <1>6, <1>7, <1>8, <1>9

\* The first step of the boot.
LEMMA Defaults ==
  ASSUME NEW s, <<s>> = param_default
  PROVE  /\ s.op = "default" /\ {"bw", "tfc_bw"} \subseteq DOMAIN s.lits
         /\ s.lits.bw = 20 /\ s.lits.tfc_bw = 20
<1>1. \E v : /\ param_default = Default(v) /\ {"bw", "tfc_bw"} \subseteq DOMAIN v
             /\ v.bw = 20 /\ v.tfc_bw = 20
  BY DEF param_default
<1>2. PICK v : /\ param_default = Default(v) /\ {"bw", "tfc_bw"} \subseteq DOMAIN v
               /\ v.bw = 20 /\ v.tfc_bw = 20
  BY <1>1
<1>3. <<s>>[1] = s /\ Default(v)[1].op = "default" /\ Default(v)[1].lits = v
  BY DEF Default
<1> QED
  BY <1>2, <1>3

\* A step of a thread that follows the bandwidths.
LEMMA BandStep ==
  ASSUME Values, Jobs, NEW self \in Thread, Step(self), ~Return(self),
         GoesOnWith(self), Frame(self), events' = {},
         job[self].prog \in Follows["band"],
         Phase("band", self) \in {"blank", "twenty"} => \A k \in Key : file[k] = Absent,
         Level(drv), BandAt(Phase("band", self), mem, drv, job[self].local)
  PROVE  /\ Level(drv')
         /\ BandAt(Phase("band", self)', mem', drv', job'[self].local)
         /\ Phase("band", self)' \in {"blank", "twenty"} => Phase("band", self) \in {"blank", "twenty"}
<1> DEFINE s == Now(self)
           b == job[self].body
           l == job[self].local
           l2 == job'[self].local
           h == Phase("band", self)
           k == Phase("band", self)'
           m == mem
           d == drv
           m2 == mem'
           d2 == drv'
           OK(x) == Level(d2) /\ BandAt(x, m2, d2, l2)
<1>1. /\ AtStep(self) /\ StepOK(s)
      /\ "fault" \notin events'
  BY ByOperation DEF AtStep
<1>2. Moves("band", self)
  BY <1>1, PhaseMoves DEF Follows, GoesOnWith
<1>3. /\ m \in [Params -> Int] /\ d \in [Radio -> Int]
      /\ {"bw", "tfc_bw"} \subseteq Params \cap Radio
      /\ m.bw \in Int /\ m.tfc_bw \in Int
  BY DEF Values, Params, Radio
<1>4. /\ "bw" \notin MemOf(s) => m2.bw = m.bw
      /\ "tfc_bw" \notin MemOf(s) => m2.tfc_bw = m.tfc_bw
      /\ "bw" \notin DrvOf(s) => d2.bw = d.bw
      /\ "tfc_bw" \notin DrvOf(s) => d2.tfc_bw = d.tfc_bw
  BY <1>3 DEF Frame
<1>5. \A x : x \notin LocalOf(s) =>
        /\ x \in DOMAIN l2 <=> x \in DOMAIN l
        /\ x \in DOMAIN l => l2[x] = l[x]
  BY DEF GoesOnWith
<1>6. "bw" \notin DOMAIN l /\ "tfc_bw" \notin DOMAIN l
  BY DEF BandAt
<1>7. ASSUME BandFree(s), k = h
      PROVE  OK(k)
  <2>1. m2.bw = m.bw /\ m2.tfc_bw = m.tfc_bw /\ d2.bw = d.bw /\ d2.tfc_bw = d.tfc_bw
    BY <1>4, <1>7 DEF BandFree
  <2>2. \A x \in {"bw", "tfc_bw", "bw_now"} :
          /\ x \in DOMAIN l2 <=> x \in DOMAIN l
          /\ x \in DOMAIN l => l2[x] = l[x]
    BY <1>5, <1>7 DEF BandFree
  <2>3. Level(d) /\ BandAt(h, m, d, l)
    OBVIOUS
  <2> HIDE DEF m, d, l, m2, d2, l2, h, b
  <2>4. Level(d2) /\ BandAt(h, m2, d2, l2)
    BY <2>1, <2>2, <2>3, BandFreeKeeps
  <2> QED
    BY <2>4, <1>7
\* Steps that have no local variable of that name.
<1>8. LocalOf(s) \cap {"bw", "tfc_bw"} = {} => "bw" \notin DOMAIN l2 /\ "tfc_bw" \notin DOMAIN l2
  BY <1>5, <1>6
<1>9. LocalOf(s) = {} =>
        ("bw_now" \in DOMAIN l => "bw_now" \in DOMAIN l2 /\ l2["bw_now"] = l["bw_now"])
  BY <1>5
<1> DEFINE keepsM == m2.bw = m.bw /\ m2.tfc_bw = m.tfc_bw
           keepsD == d2.bw = d.bw /\ d2.tfc_bw = d.tfc_bw
           keepsL == "bw_now" \in DOMAIN l => "bw_now" \in DOMAIN l2 /\ l2["bw_now"] = l["bw_now"]
           setsBw  == d2.bw = Gets(m.bw, d.bw) /\ d2.tfc_bw = d.tfc_bw
           setsTfc == d2.tfc_bw = Gets(m.tfc_bw, d.tfc_bw) /\ d2.bw = d.bw
\* What the operations are.
<1>10. ASSUME Sets(s, "slb_set_bw")
       PROVE  keepsM /\ keepsL /\ setsBw /\ LocalOf(s) = {}
  <2>1. LocalOf(s) = {}
    BY <1>10 DEF Sets, LocalOf
  <2>2. /\ d2.bw = IF m.bw \in Legal["bw"] THEN m.bw ELSE d.bw
        /\ m2 = m /\ \A q \in Radio \ {"bw"} : d2[q] = d[q]
    BY <1>1, <1>6, <1>10, SetsOne
  <2> QED
    BY <2>1, <2>2, <1>3, <1>9 DEF Legal, Gets
<1>11. ASSUME Sets(s, "slb_set_tfc_bw")
       PROVE  keepsM /\ keepsL /\ setsTfc /\ LocalOf(s) = {}
  <2>1. LocalOf(s) = {}
    BY <1>11 DEF Sets, LocalOf
  <2>2. /\ d2.tfc_bw = IF m.tfc_bw \in Legal["tfc_bw"] THEN m.tfc_bw ELSE d.tfc_bw
        /\ m2 = m /\ \A q \in Radio \ {"tfc_bw"} : d2[q] = d[q]
    BY <1>1, <1>6, <1>11, SetsOne
  <2> QED
    BY <2>1, <2>2, <1>3, <1>9 DEF Legal, Gets
<1>12. ASSUME s.op = "take"
       PROVE  /\ LocalOf(s) = {} /\ keepsD
              /\ m2[s.arg] = IF s.arg \in DOMAIN b THEN b[s.arg] ELSE m[s.arg]
              /\ s.arg # "bw" => m2.bw = m.bw
              /\ s.arg # "tfc_bw" => m2.tfc_bw = m.tfc_bw
  BY <1>1, <1>4, <1>12, ReadsWell DEF LocalOf, MemOf, DrvOf
<1>13. ASSUME s.op = "if"
       PROVE  LocalOf(s) = {} /\ keepsD /\ keepsM /\ keepsL /\ BandFree(s)
  BY <1>4, <1>9, <1>13 DEF LocalOf, MemOf, DrvOf, BandFree
<1> HIDE DEF s, b, l, l2, h, k, m, d, m2, d2
<1>v. /\ BandAt(h, m, d, l) /\ Level(d)
  BY DEF h, m, d, l, b
<1>w. "bw" \notin DOMAIN l2 /\ "tfc_bw" \notin DOMAIN l2 =>
         /\ BandAt("rest", m, d, l) /\ keepsD => OK("half")
         /\ BandAt("half", m, d, l) /\ keepsD => OK("ready")
         /\ BandAt("rest", m, d, l) \/ (BandAt("ready", m, d, l) /\ Ready(m, d)) =>
              (keepsM /\ keepsD /\ "bw_now" \in DOMAIN l2 /\ l2["bw_now"] = d.bw => OK("known"))
         /\ BandAt("grows", m, d, l) /\ keepsM /\ keepsL /\ setsBw => OK("grown")
         /\ BandAt("grown", m, d, l) /\ keepsM /\ keepsL /\ setsTfc => OK("either")
         /\ BandAt("shrinks", m, d, l) /\ keepsM /\ keepsL /\ setsTfc => OK("shrunk")
         /\ BandAt("shrunk", m, d, l) /\ keepsM /\ keepsL /\ setsBw => OK("rest")
         /\ BandAt("twenty", m, d, l) /\ keepsM /\ setsBw => OK("broad")
         /\ BandAt("broad", m, d, l) /\ keepsM /\ setsTfc => OK("rest")
  BY <1>3, <1>v, BandValues
<1>14. ASSUME s.op = "take", \/ s.arg = "bw" /\ h = "rest" /\ k = "half"
                             \/ s.arg = "tfc_bw" /\ h = "half" /\ k = "ready"
       PROVE  OK(k)
  BY <1>8, <1>12, <1>14, <1>v, <1>w
<1>15. ASSUME Sets(s, "slb_set_bw"), \/ h = "grows" /\ k = "grown"
                                     \/ h = "shrunk" /\ k = "rest"
                                     \/ h = "twenty" /\ k = "broad"
       PROVE  OK(k)
  BY <1>8, <1>10, <1>15, <1>v, <1>w
<1>16. ASSUME Sets(s, "slb_set_tfc_bw"), \/ h = "grown" /\ k = "either"
                                         \/ h = "shrinks" /\ k = "shrunk"
                                         \/ h = "broad" /\ k = "rest"
       PROVE  OK(k)
  BY <1>8, <1>11, <1>16, <1>v, <1>w
\* The bandwidth that the driver has.
<1>17. ASSUME Queries(s, "slb_get_bw", "bw", "bw_now"), h \in {"rest", "ready"}, k = "known"
       PROVE  OK(k)
  <2>1. LocalOf(s) = {"bw_now"} /\ MemOf(s) = {} /\ DrvOf(s) = {}
    BY <1>17 DEF Queries, LocalOf, MemOf, DrvOf
  <2>2. l2["bw_now"] = d["bw"] /\ "bw_now" \in DOMAIN l2
    <3>1. s.op = "query" /\ s.name = <<"bw", "bw_now">>
      BY <1>17 DEF Queries
    <3>2. l2[s.name[2]] = d[s.name[1]]
      BY <1>1, <3>1, ReadsWell DEF s, l2, d
    <3>3. s.name[2] \in DOMAIN l2
      BY <1>1, <3>1 DEF GoesOnWith, GoesOn, Advances, s, l2
    <3> QED
      BY <3>1, <3>2, <3>3
  <2>3. keepsM /\ keepsD /\ LocalOf(s) \cap {"bw", "tfc_bw"} = {}
    BY <2>1, <1>4
  <2>4. Ready(m, d)
    <3>1. s.op = "query" /\ s.arg = "slb_get_bw"
      BY <1>17 DEF Queries
    <3>2. Noting(s.arg = "slb_get_bw" /\ Given("tfc_bw") > Given("bw"))
      BY <1>1, <3>1, ReadsWell DEF s
    <3>3. ~(Given("tfc_bw") > Given("bw"))
      BY <3>1, <3>2 DEF Noting
    <3>4. Given("tfc_bw") = Gets(m.tfc_bw, d.tfc_bw) /\ Given("bw") = Gets(m.bw, d.bw)
      BY DEF Given, Gets, m, d
    <3>5. Gets(m.tfc_bw, d.tfc_bw) \in Int /\ Gets(m.bw, d.bw) \in Int
      BY <1>3 DEF Gets
    <3> QED
      BY <3>3, <3>4, <3>5 DEF Ready
  <2> QED
    BY <2>2, <2>3, <2>4, <1>8, <1>17, <1>v, <1>w
\* Which way a condition goes.
<1>18. ASSUME s.op = "if", s.lits = <<>>, s.arg \in {"bw grows", "bw shrinks"},
              h \in {"known", "either"}
       PROVE  /\ s.arg = "bw grows" => (Holds(self, s.arg) <=> m.bw >= l["bw_now"])
              /\ s.arg = "bw shrinks" => (Holds(self, s.arg) <=> m.bw < l["bw_now"])
  <2>1. "bw_now" \in DOMAIN l /\ "bw" \notin DOMAIN l
    BY <1>6, <1>18, <1>v DEF BandAt
  <2> QED
    BY <2>1, <1>18, TestsOne DEF s, l, m
<1>19. ASSUME s.op = "if"
       PROVE  \/ Holds(self, s.arg) /\ job'[self].at = job[self].at + 1
              \/ ~Holds(self, s.arg) /\ job'[self].at = job[self].at + 1 + s.name
  BY <1>1, <1>19, TestsWell DEF s
<1>20. ASSUME keepsM, keepsD, keepsL, "bw" \notin DOMAIN l2, "tfc_bw" \notin DOMAIN l2
       PROVE  /\ h = "known" /\ m.bw >= l["bw_now"] => OK("grows")
              /\ h = "known" /\ ~(m.bw >= l["bw_now"]) => OK("either")
              /\ h = "either" /\ m.bw < l["bw_now"] => OK("shrinks")
              /\ h = "either" /\ ~(m.bw < l["bw_now"]) => OK("rest")
  <2>1. Level(d2) /\ Ready(m2, d2) = Ready(m, d) /\ Settles(m2, d2) = Settles(m, d)
    BY <1>20, <1>v DEF Level, Ready, Settles
  <2>2. ASSUME h = "known", m.bw >= l["bw_now"]
        PROVE  OK("grows")
    BY <2>1, <2>2, <1>20, <1>v DEF BandAt
  <2>3. ASSUME h = "known", ~(m.bw >= l["bw_now"])
        PROVE  OK("either")
    <3>1. m.bw < l["bw_now"]
      BY <2>3, <1>3, <1>v DEF BandAt, Level, Bandwidths
    <3> QED
      BY <2>1, <2>3, <3>1, <1>20, <1>v DEF BandAt
  <2>4. ASSUME h = "either", m.bw < l["bw_now"]
        PROVE  OK("shrinks")
    <3>1. l["bw_now"] \in Int
      BY <2>4, <1>v DEF Jobs, JobInv, Numbers, BandAt, l
    <3>2. l["bw_now"] = d.bw /\ Ready(m, d)
      BY <2>4, <3>1, <1>3, <1>v DEF BandAt
    <3> QED
      BY <2>1, <2>4, <3>2, <1>20, <1>v DEF BandAt
  <2>5. ASSUME h = "either", ~(m.bw < l["bw_now"])
        PROVE  OK("rest")
    <3>1. Settles(m, d)
      BY <2>5, <1>v DEF BandAt
    <3> QED
      BY <2>1, <2>5, <3>1, <1>20, <1>v DEF BandAt
  <2> QED
    BY <2>2, <2>3, <2>4, <2>5
<1>21. ASSUME s.op = "if", s.lits = <<>>,
              \/ s.arg = "bw grows" /\ h = "known" /\ k = "grows"
              \/ s.arg = "bw shrinks" /\ h = "either" /\ k = "shrinks",
              Holds(self, s.arg)
       PROVE  OK(k)
  BY <1>8, <1>13, <1>18, <1>20, <1>21, <1>v
<1>22. ASSUME s.op = "if", s.lits = <<>>,
              \/ s.arg = "bw grows" /\ h = "known" /\ k = "either"
              \/ s.arg = "bw shrinks" /\ h = "either" /\ k = "rest",
              ~Holds(self, s.arg)
       PROVE  OK(k)
  BY <1>8, <1>13, <1>18, <1>20, <1>22, <1>v
\* The widest channel.
<1>23. ASSUME s.op = "adopt", s.arg = "slb_set_bw", s.lits = Value("bw", 80),
              h = "rest", k = "wide"
       PROVE  OK(k)
  <2>1. Args(self).bw = 80
    BY <1>3, <1>23 DEF Args, Arg, Value, s
  <2>2. SetterNamed(s.arg, Args(self)) = Setter(TRUE, Value("bw", 80))
    BY <1>23, <2>1 DEF SetterNamed, slb_set_bw, Bandwidths
  <2>3. d2 = Over(Value("bw", 80), d) /\ m2 = Over(Value("bw", 80), m)
    BY <1>1, <1>23, <2>2, SetsWell DEF Setter, s, d, d2, m, m2
  <2>4. d2.bw = 80 /\ m2.bw = 80 /\ d2.tfc_bw = d.tfc_bw
    BY <2>3, <1>3 DEF Over, Value
  <2>5. LocalOf(s) = {}
    BY <1>23 DEF LocalOf
  <2> QED
    BY <2>4, <2>5, <1>8, <1>23, <1>v DEF BandAt, Level, Bandwidths
<1>24. ASSUME s.op = "adopt", s.arg = "slb_set_tfc_bw", s.lits = Value("tfc_bw", 80),
              h = "wide", k = "rest"
       PROVE  OK(k)
  <2>1. Args(self).tfc_bw = 80
    BY <1>3, <1>24 DEF Args, Arg, Value, s
  <2>2. SetterNamed(s.arg, Args(self)) = Setter(TRUE, Value("tfc_bw", 80))
    BY <1>24, <2>1 DEF SetterNamed, slb_set_tfc_bw, Bandwidths
  <2>3. d2 = Over(Value("tfc_bw", 80), d) /\ m2 = Over(Value("tfc_bw", 80), m)
    BY <1>1, <1>24, <2>2, SetsWell DEF Setter, s, d, d2, m, m2
  <2>4. d2.tfc_bw = 80 /\ m2.tfc_bw = 80 /\ d2.bw = d.bw /\ m2.bw = m.bw
    BY <2>3, <1>3 DEF Over, Value
  <2>5. LocalOf(s) = {}
    BY <1>24 DEF LocalOf
  <2> QED
    BY <2>4, <2>5, <1>8, <1>24, <1>v DEF BandAt, Level, Settles, Has, Bandwidths
\* The network that is joined.
<1>25. ASSUME s.op = "join", h = "rest", k = "joined"
       PROVE  OK(k)
  <2>1. Noting(~Fits(d2))
    BY <1>1, <1>25, ReadsWell DEF s, d2
  <2>2. d2.bw \in Bandwidths /\ d2.tfc_bw \in Bandwidths /\ d2.tfc_bw <= d2.bw
    BY <2>1 DEF Noting, Fits
  <2>3. LocalOf(s) = {"ret"}
    BY <1>25 DEF LocalOf
  <2> QED
    BY <2>2, <2>3, <1>8, <1>25, <1>v DEF BandAt, Level, Bandwidths
<1>26. ASSUME s.op = "get", s.arg = "slb_get_bw", h = "joined", k = "got"
       PROVE  OK(k)
  <2>1. m2.bw = GetterNamed(s.arg, d).value.bw
    BY <1>1, <1>3, <1>26, ReadsWell DEF ReadBy, s, d, m2
  <2>2. m2.bw = d.bw
    BY <1>26, <2>1 DEF GetterNamed, slb_get_bw, Getter, Value
  <2>3. LocalOf(s) = {} /\ keepsD
    BY <1>26, <1>4 DEF LocalOf, DrvOf
  <2> QED
    BY <2>2, <2>3, <1>8, <1>26, <1>v DEF BandAt, Level
<1>27. ASSUME s.op = "get", s.arg = "slb_get_tfc_bw", h = "got", k = "rest"
       PROVE  OK(k)
  <2>1. m2.tfc_bw = GetterNamed(s.arg, d).value.tfc_bw
    BY <1>1, <1>3, <1>27, ReadsWell DEF ReadBy, s, d, m2
  <2>2. m2.tfc_bw = d.tfc_bw
    BY <1>27, <2>1 DEF GetterNamed, slb_get_tfc_bw, Getter, Value
  <2>3. LocalOf(s) = {} /\ keepsD /\ m2.bw = m.bw
    BY <1>27, <1>4 DEF LocalOf, DrvOf, MemOf, ReadBy
  <2> QED
    BY <2>2, <2>3, <1>8, <1>27, <1>v DEF BandAt, Level, Settles, Has
\* The boot.
<1>28. ASSUME <<s>> = param_default, h = "blank", k = "twenty"
       PROVE  OK(k)
  <2>2. /\ s.op = "default" /\ {"bw", "tfc_bw"} \subseteq DOMAIN s.lits
        /\ s.lits.bw = 20 /\ s.lits.tfc_bw = 20
    BY <1>28, Defaults
  <2>3. m2.bw = 20 /\ m2.tfc_bw = 20
    BY <1>1, <2>2, ReadsWell DEF s, m2
  <2>4. LocalOf(s) = {} /\ keepsD
    BY <2>2, <1>4 DEF LocalOf, DrvOf
  <2> QED
    BY <2>3, <2>4, <1>8, <1>28, <1>v DEF BandAt, Level
<1>29. ASSUME s.op = "read", h = "twenty", k = "twenty"
       PROVE  OK(k)
  <2>1. s.arg \in Key /\ file[s.arg] = Absent
    BY <1>1, <1>29 DEF StepOK, h
  <2>2. m2[s.name] = m[s.name]
    BY <1>1, <1>29, <2>1, ReadsWell DEF s, m, m2
  <2>3. keepsM /\ keepsD /\ LocalOf(s) = {}
    BY <1>29, <1>4, <2>2 DEF LocalOf, DrvOf, MemOf
  <2> QED
    BY <2>3, <1>8, <1>29, <1>v DEF BandAt, Level
<1>30. ASSUME job'[self].at = job[self].at + 1, s.op = "if" => Holds(self, s.arg)
       PROVE  OK(k)
  <2>1. BandGoes(s, h, k)
    BY <1>2, <1>30 DEF Moves, Goes, s, h, k
  <2> QED
    BY <2>1, <1>7, <1>14, <1>15, <1>16, <1>17, <1>21, <1>23, <1>24, <1>25, <1>26, <1>27, <1>28,
       <1>29, <1>30 DEF BandGoes
<1>31. ASSUME s.op = "if", ~Holds(self, s.arg), job'[self].at = job[self].at + 1 + s.name
       PROVE  OK(k)
  <2>1. BandSkips(s, h, k)
    BY <1>2, <1>31 DEF Moves, Skips, s, h, k
  <2> QED
    BY <2>1, <1>7, <1>13, <1>22, <1>31 DEF BandSkips
<1>32. OK(k)
  BY <1>2, <1>19, <1>30, <1>31 DEF Moves, s
<1>33. k \in {"blank", "twenty"} => h \in {"blank", "twenty"}
  <2>1. BandGoes(s, h, k) \/ BandSkips(s, h, k)
    BY <1>2 DEF Moves, Goes, Skips, s, h, k
  <2> QED
    BY <2>1 DEF BandGoes, BandSkips
<1> QED
  BY <1>32, <1>33 DEF b, l2, h, k, m2, d2

\* What the threads are in.
LEMMA ThreadsRun ==
  ASSUME Jobs, NEW self \in Thread, job[self].prog \in DOMAIN Program
  PROVE  /\ self = "main" => job[self].prog = "boot"
         /\ self = "http" => job[self].prog \in Api
         /\ self = "watcher" => job[self].prog = "pass"
BY Names DEF Jobs, JobInv, Runs, Api

\* A pass of the watcher: the channel is all it writes, and nothing ends it.
LEMMA WatcherStep ==
  ASSUME Values, Jobs, Step("watcher"), ~Return("watcher")
  PROVE  /\ Frame("watcher") /\ GoesOnWith("watcher") /\ Moves("watch", "watcher")
         /\ job["watcher"].prog = "pass"
         /\ \A t \in Thread \ {"watcher"} : job'[t] = job[t]
         /\ \A p \in Params \ {"channel"} : mem'[p] = mem[p]
         /\ \A p \in Radio : drv'[p] = drv[p]
         /\ \A k \in Key \ {"CHANNEL"} : file'[k] = file[k]
<1> DEFINE self == "watcher"
           s == Now(self)
<1>1. self \in Thread
  BY DEF Thread
<1>2. Frame(self) /\ AtStep(self)
  BY <1>1, Framed, ByOperation
<1>3. job[self].prog = "pass"
  BY <1>1, <1>2, ThreadsRun DEF AtStep
<1>4. PICK k : WatchGoes(s, Phase("watch", self), k)
  BY <1>1, <1>2, <1>3, PhaseKnown DEF Goes, Follows
<1>5. MemOf(s) \subseteq {"channel"} /\ DrvOf(s) = {} /\ FileOf(s) \subseteq {"CHANNEL"} /\ ~Refuses(s)
  BY <1>4 DEF WatchGoes, WatchFree, MemOf, DrvOf, FileOf, Queries, Refuses
<1>6. GoesOnWith(self)
  BY <1>2, <1>5 DEF Frame, IsRefused, GivesUp
<1>7. Moves("watch", self)
  BY <1>1, <1>2, <1>3, <1>6, PhaseMoves DEF Follows, GoesOnWith
<1>8. \A t \in Thread \ {self} : job'[t] = job[t]
  BY <1>6 DEF GoesOnWith, GoesOn, Advances
<1> QED
  BY <1>2, <1>3, <1>5, <1>6, <1>7, <1>8 DEF Frame

\* The boot: it writes no file, and nothing ends it.
LEMMA BootStep ==
  ASSUME Values, Jobs, Step("main"), ~Return("main")
  PROVE  /\ Frame("main") /\ GoesOnWith("main") /\ Moves("boot", "main")
         /\ job["main"].prog = "boot"
         /\ \A t \in Thread \ {"main"} : job'[t] = job[t]
         /\ \A k \in Key : file'[k] = file[k]
         /\ lock' = lock /\ NoLocals(Now("main"))
<1> DEFINE self == "main"
           s == Now(self)
<1>1. self \in Thread
  BY DEF Thread
<1>2. Frame(self) /\ AtStep(self)
  BY <1>1, Framed, ByOperation
<1>3. job[self].prog = "boot"
  BY <1>1, <1>2, ThreadsRun DEF AtStep
<1>4. PICK k : BootGoes(s, Phase("boot", self), k)
  BY <1>1, <1>2, <1>3, PhaseKnown DEF Goes, Follows
<1>5. FileOf(s) = {} /\ ~Refuses(s) /\ s.op \notin {"lock", "unlock"} /\ NoLocals(s)
  BY <1>4 DEF BootGoes
<1>6. GoesOnWith(self)
  BY <1>2, <1>5 DEF Frame, IsRefused, GivesUp
<1>7. Moves("boot", self)
  BY <1>1, <1>2, <1>3, <1>6, PhaseMoves DEF Follows, GoesOnWith
<1>8. \A t \in Thread \ {self} : job'[t] = job[t]
  BY <1>6 DEF GoesOnWith, GoesOn, Advances
<1> QED
  BY <1>2, <1>3, <1>5, <1>6, <1>7, <1>8 DEF Frame

\* Events remain.
LEMMA EventsRemain ==
  ASSUME Values, [Next]_vars
  PROVE  events \subseteq events'
<1>1. ASSUME NEW self \in Thread, Step(self)
      PROVE  events \subseteq events'
  BY <1>1 DEF Step, Return, SetParameter, GetParameter, QueryParameter, Compute, config_get,
     config_set, RemoveFile, slb_ifconfig, slb_t_node_start_join, TestResult, RunCommand,
     Reboots, Branch, Mutex, update_wtsl_node_basicinfo, Fault, NoFault, Noting
<1> QED
  BY <1>1 DEF Next, Request, WatcherWakes, wtsl_core_splink_node_service, DriverMoves, Restart, vars

\* What a thread knows of the bandwidths.
Banded(t) ==
  job[t].prog \in Follows["band"] =>
    /\ BandAt(Phase("band", t), mem, drv, job[t].local)
    /\ Phase("band", t) \in {"blank", "twenty"} => job[t].prog = "boot"

BandInv ==
  events = {} =>
    /\ Level(drv) /\ Banded("main") /\ Banded("http")
    /\ job["main"].prog = "boot" => \A k \in Key : file[k] = Absent
    /\ Quiet => Settles(mem, drv) /\ drv.bw # 0

\* A thread whose job stays knows what it has known.
LEMMA BandedStays ==
  ASSUME NEW t \in {"main", "http"}, Banded(t), Level(drv), job'[t] = job[t],
         mem'.bw = mem.bw, mem'.tfc_bw = mem.tfc_bw, drv'.bw = drv.bw, drv'.tfc_bw = drv.tfc_bw
  PROVE  Banded(t)'
<1>1. Phase("band", t)' = Phase("band", t)
  BY PhaseStays
<1>2. ASSUME job[t].prog \in Follows["band"]
      PROVE  BandAt(Phase("band", t), mem', drv', job[t].local)
  BY <1>2, BandFreeKeeps DEF Banded
<1> QED
  BY <1>1, <1>2 DEF Banded

\* At the end of a function, and where it is refused.
LEMMA BandEnds ==
  ASSUME NEW t, BandAt("rest", mem, drv, job[t].local)
  PROVE  Settles(mem, drv) /\ drv.bw # 0
BY DEF BandAt

\* Stated of the steps of a thread that is in a function.
LEMMA BandSteps ==
  ASSUME Values, Jobs, BootsFirst, BandInv, events' = {}, events = {},
         NEW self \in Thread, Step(self), ~Return(self)
  PROVE  BandInv'
<1>1. /\ Level(drv) /\ Banded("main") /\ Banded("http")
      /\ job["main"].prog = "boot" => \A k \in Key : file[k] = Absent
      /\ Quiet => Settles(mem, drv) /\ drv.bw # 0
  BY DEF BandInv
<1>2. {"bw", "tfc_bw"} \subseteq Params \cap Radio
  BY DEF Params, Radio
<1>3. AtStep(self) /\ Frame(self)
  BY Framed, ByOperation
<1>4. /\ job["main"].prog \in {"boot", "done", "idle"}
      /\ job["http"].prog \in Api \cup {"idle"}
      /\ "idle" \notin DOMAIN Program /\ "done" \notin DOMAIN Program
      /\ Follows["band"] = Api \cup {"boot"} /\ Follows["band"] \subseteq DOMAIN Program
      /\ "boot" \notin Api
  BY Names, Programs DEF Jobs, JobInv, Runs, Thread, Api, Follows, Program, Over, GetApi, PostApi
<1>5. CASE self = "watcher"
  <2>1. /\ job'["main"] = job["main"] /\ job'["http"] = job["http"]
        /\ mem'.bw = mem.bw /\ mem'.tfc_bw = mem.tfc_bw
        /\ drv'.bw = drv.bw /\ drv'.tfc_bw = drv.tfc_bw
        /\ job["watcher"].prog = "pass"
    BY <1>2, <1>5, WatcherStep DEF Thread
  <2>2. Banded("main")' /\ Banded("http")'
    BY <1>1, <2>1, BandedStays
  <2>3. job["main"].prog = "done"
    BY <2>1 DEF BootsFirst
  <2>4. Level(drv)' /\ Settles(mem, drv)' = Settles(mem, drv)
    BY <1>1, <2>1 DEF Level, Settles
  <2> QED
    BY <1>1, <2>1, <2>2, <2>3, <2>4 DEF BandInv, Quiet, Running
<1>6. CASE self \in {"main", "http"} /\ GoesOnWith(self)
  <2> DEFINE other == IF self = "main" THEN "http" ELSE "main"
  <2>1. job[self].prog \in Follows["band"]
    BY <1>4, <1>6, <1>3, ThreadsRun DEF AtStep
  <2>2. /\ Level(drv')
        /\ BandAt(Phase("band", self)', mem', drv', job'[self].local)
        /\ Phase("band", self)' \in {"blank", "twenty"} => Phase("band", self) \in {"blank", "twenty"}
    <3>1. /\ Phase("band", self) \in {"blank", "twenty"} => \A k \in Key : file[k] = Absent
          /\ BandAt(Phase("band", self), mem, drv, job[self].local)
      BY <1>1, <1>4, <1>6, <2>1 DEF Banded, Jobs, JobInv, Runs, Thread
    <3> QED
      BY <3>1, <1>1, <1>3, <1>6, <2>1, BandStep
  <2>3. /\ job'[self].prog = job[self].prog /\ job'[self].body = job[self].body
        /\ \A t \in Thread \ {self} : job'[t] = job[t]
    BY <1>6 DEF GoesOnWith, GoesOn, Advances
  <2>4. Banded(self)'
    BY <1>1, <1>6, <2>1, <2>2, <2>3 DEF Banded
  <2>5. job'[other] = job[other] /\ job[other].prog \notin Follows["band"]
    <3>1. other \in Thread \ {self}
      BY <1>6 DEF Thread
    <3>2. CASE self = "main"
      <4>1. job["main"].prog = "boot"
        BY <3>2, <1>3, ThreadsRun DEF AtStep
      <4> QED
        BY <3>1, <3>2, <4>1, <2>3, <1>4 DEF BootsFirst
    <3>3. CASE self = "http"
      <4>1. job["http"].prog \in Api
        BY <3>3, <1>3, ThreadsRun DEF AtStep
      <4>2. job["main"].prog = "done"
        BY <4>1, <1>4 DEF BootsFirst, Api
      <4> QED
        BY <3>1, <3>3, <4>2, <2>3, <1>4
    <3> QED
      BY <1>6, <3>2, <3>3
  <2>6. Banded(other)'
    BY <2>5 DEF Banded
  <2>7. Banded("main")' /\ Banded("http")'
    BY <1>6, <2>4, <2>6
  <2>8. job'["main"].prog = "boot" => \A k \in Key : file'[k] = Absent
    <3>1. CASE self = "main"
      BY <3>1, <1>1, <2>3, BootStep
    <3>2. CASE self = "http"
      BY <3>2, <2>5, <1>4
    <3> QED
      BY <1>6, <3>1, <3>2
  <2>9. ~Quiet'
    BY <1>3, <1>4, <1>6, <2>1, <2>3, ThreadsRun DEF Quiet, Running, AtStep
  <2> QED
    BY <2>2, <2>7, <2>8, <2>9 DEF BandInv
<1>7. CASE self \in {"main", "http"} /\ IsRefused(self)
  <2>1. job[self].prog \in Follows["band"] /\ Refuses(Now(self))
    BY <1>4, <1>7, <1>3, ThreadsRun DEF AtStep, IsRefused, GivesUp
  <2>2. self = "http"
    <3>1. self # "main"
      BY <1>7, <2>1, <1>3, BootStep DEF GoesOnWith, GoesOn, Advances, IsRefused, GivesUp, Idle, Job
    <3> QED
      BY <1>7, <3>1
  <2>3. PICK k : BandGoes(Now(self), Phase("band", self), k)
    BY <1>3, <2>1, PhaseKnown DEF Goes, Follows
  <2>4. BandFree(Now(self)) /\ Phase("band", self) = "rest"
    BY <2>1, <2>3, Defaults DEF BandGoes, Refuses, Queries, Sets
  <2>5. mem'.bw = mem.bw /\ mem'.tfc_bw = mem.tfc_bw /\ drv'.bw = drv.bw /\ drv'.tfc_bw = drv.tfc_bw
    BY <1>2, <1>3, <2>4 DEF Frame, BandFree
  <2>6. Settles(mem, drv) /\ drv.bw # 0
    BY <1>1, <1>7, <2>1, <2>4, BandEnds DEF Banded
  <2>7. Level(drv)' /\ Settles(mem, drv)'
    BY <1>1, <2>5, <2>6 DEF Level, Settles
  <2>8. job["main"].prog = "done" /\ job'["main"] = job["main"] /\ job'["http"] = Idle
    BY <1>4, <1>7, <2>1, <2>2 DEF BootsFirst, IsRefused, GivesUp, Thread
  <2>9. Idle.prog = "idle"
    BY DEF Idle, Job
  <2> QED
    BY <1>4, <2>5, <2>6, <2>7, <2>8, <2>9 DEF BandInv, Banded
<1> QED
  BY <1>3, <1>5, <1>6, <1>7 DEF Thread, Frame

\* At the end of a function.
LEMMA BandReturns ==
  ASSUME Values, Jobs, BootsFirst, BandInv, events' = {}, events = {},
         NEW self \in Thread, Return(self)
  PROVE  BandInv'
<1>1. /\ Level(drv) /\ Banded("main") /\ Banded("http")
      /\ job["main"].prog = "boot" => \A k \in Key : file[k] = Absent
      /\ Quiet => Settles(mem, drv) /\ drv.bw # 0
  BY DEF BandInv
<1>2. /\ UNCHANGED <<mem, drv, file>> /\ job[self].prog \in DOMAIN Program
      /\ \A t \in Thread \ {self} : job'[t] = job[t]
      /\ job'[self].prog \in {"idle", "done"}
  BY DEF Return, storage, Idle, Job, Jobs
<1>3. /\ Follows["band"] = Api \cup {"boot"}
      /\ "idle" \notin Follows["band"] /\ "done" \notin Follows["band"]
  BY Names DEF Follows, Api
<1>4. CASE self = "watcher"
  <2>1. job'["main"] = job["main"] /\ job'["http"] = job["http"]
    BY <1>2, <1>4 DEF Thread
  <2>2. Banded("main")' /\ Banded("http")'
    BY <1>1, <1>2, <2>1, BandedStays
  <2> QED
    BY <1>1, <1>2, <2>1, <2>2 DEF BandInv, Quiet, Running
<1>5. CASE self \in {"main", "http"}
  <2>1. job[self].prog \in Follows["band"]
    BY <1>2, <1>3, <1>5, ThreadsRun
  <2>2. Phase("band", self) = "rest"
    BY <2>1, PhaseEnds DEF End, Filed, Follows
  <2>3. Settles(mem, drv) /\ drv.bw # 0
    BY <1>1, <1>5, <2>1, <2>2, BandEnds DEF Banded
  <2>4. ASSUME NEW t \in {"main", "http"}
        PROVE  Banded(t)'
    <3>1. CASE t = self
      BY <3>1, <1>2, <1>3 DEF Banded
    <3>2. CASE t # self
      <4>1. job'[t] = job[t]
        BY <3>2, <1>2, <2>4 DEF Thread
      <4> QED
        BY <4>1, <1>1, <1>2, <2>4, BandedStays
    <3> QED
      BY <3>1, <3>2
  <2>5. job'["main"].prog = "boot" => job["main"].prog = "boot"
    BY <1>2 DEF Thread
  <2> QED
    BY <1>1, <1>2, <2>3, <2>4, <2>5 DEF BandInv
<1> QED
  BY <1>4, <1>5 DEF Thread

\* A request comes when the bandwidths are settled.
LEMMA BandRequests ==
  ASSUME Values, Jobs, BandInv, events' = {}, events = {}, Request
  PROVE  BandInv'
<1>1. /\ Level(drv) /\ Banded("main") /\ Banded("http")
      /\ job["main"].prog = "boot" => \A k \in Key : file[k] = Absent
      /\ Quiet => Settles(mem, drv) /\ drv.bw # 0
  BY DEF BandInv
<1>2. UNCHANGED <<mem, drv, file>> /\ Quiet
  BY DEF Request, storage, Quiet
<1>3. PICK a \in budget.apis : \E b \in Bodies[a] :
        UNCHANGED job \/ job' = [job EXCEPT !["http"] = Job(a, b)]
  BY DEF Request
<1>4. PICK b \in Bodies[a] : UNCHANGED job \/ job' = [job EXCEPT !["http"] = Job(a, b)]
  BY <1>3
<1>5. a \in DOMAIN Bodies /\ a \in Api
  BY RequestAssumption DEF Values, Api
<1>6. CASE UNCHANGED job
  <2>1. Banded("main")' /\ Banded("http")'
    BY <1>1, <1>2, <1>6, BandedStays
  <2> QED
    BY <1>1, <1>2, <1>6, <2>1 DEF BandInv, Quiet, Running
<1>7. CASE job' = [job EXCEPT !["http"] = Job(a, b)]
  <2>1. /\ job'["http"] = Job(a, b) /\ job'["main"] = job["main"]
        /\ Job(a, b).prog = a /\ Job(a, b).at = 1 /\ Job(a, b).body = b /\ Job(a, b).local = <<>>
    BY <1>7 DEF Jobs, Thread, Job
  <2>2. Phase("band", "http")' = "rest"
    <3>1. OutlineOf("band", a)[1] = "rest"
      BY <1>5, Names, Outlines DEF Drawn, Follows, Begin, Filed, Api
    <3> QED
      BY <2>1, <3>1 DEF Phase
  <2>3. BandAt("rest", mem, drv, <<>>)
    <3>1. DOMAIN <<>> = {}
      OBVIOUS
    <3> QED
      BY <3>1, <1>1, <1>2 DEF BandAt
  <2>4. Banded("http")'
    BY <2>1, <2>2, <2>3, <1>2, <1>5 DEF Banded
  <2>5. Banded("main")'
    BY <2>1, <1>1, <1>2, BandedStays
  <2>6. ~Quiet'
    BY <2>1, <1>5, Names DEF Quiet, Api
  <2> QED
    BY <1>1, <1>2, <2>1, <2>4, <2>5, <2>6 DEF BandInv
<1> QED
  BY <1>4, <1>6, <1>7

\* The driver has no bandwidth at first.
LEMMA BandBegins == Init => BandInv
<1> SUFFICES ASSUME Init PROVE BandInv
  OBVIOUS
<1>1. /\ drv = [p \in Radio |-> 0] /\ job = Booting /\ file = [k \in Key |-> Absent]
  BY DEF Init, Volatile
<1>2. /\ job["main"] = Job("boot", <<>>) /\ job["http"] = Job("idle", <<>>)
      /\ Job("boot", <<>>).prog = "boot" /\ Job("boot", <<>>).at = 1
      /\ Job("boot", <<>>).local = <<>> /\ Job("boot", <<>>).body = <<>>
      /\ Job("idle", <<>>).prog = "idle"
  BY <1>1 DEF Booting, Idle, Job
<1>3. drv.bw = 0 /\ drv.tfc_bw = 0
  BY <1>1 DEF Radio, Params
<1>4. Level(drv)
  BY <1>3 DEF Level
<1>5. OutlineOf("band", "boot")[1] = "blank"
  BY Outlines DEF Drawn, Follows, Begin, Filed
<1>6. Phase("band", "main") = "blank"
  BY <1>2, <1>5 DEF Phase
<1>7. DOMAIN <<>> = {}
  OBVIOUS
<1>8. BandAt("blank", mem, drv, <<>>)
  BY <1>3, <1>7 DEF BandAt
<1>9. Banded("main")
  BY <1>2, <1>6, <1>8 DEF Banded
<1>10. Banded("http") /\ ~Quiet
  BY <1>2, Names DEF Banded, Follows, Api, Quiet, Running
<1> QED
  BY <1>1, <1>4, <1>9, <1>10 DEF BandInv

\* Every step of the specification.
LEMMA BandNext ==
  ASSUME IInv, BandInv, [Next]_vars
  PROVE  BandInv'
<1>1. Values /\ Jobs /\ BootsFirst
  BY DEF IInv
<1> SUFFICES ASSUME events' = {} PROVE BandInv'
  BY DEF BandInv
<1>2. events = {}
  BY <1>1, EventsRemain
<1>3. ASSUME NEW self \in Thread, Step(self)
      PROVE  BandInv'
  BY <1>1, <1>2, <1>3, BandSteps, BandReturns
<1>4. CASE Request
  BY <1>1, <1>2, <1>4, BandRequests
<1>5. CASE \/ WatcherWakes \/ wtsl_core_splink_node_service \/ UNCHANGED vars
  <2>1. /\ UNCHANGED <<drv, file>> /\ mem'.bw = mem.bw /\ mem'.tfc_bw = mem.tfc_bw
        /\ job'["main"] = job["main"] /\ job'["http"] = job["http"]
    <3>1. CASE WatcherWakes
      BY <3>1, <1>1 DEF WatcherWakes, storage, Jobs, Thread
    <3>2. CASE wtsl_core_splink_node_service
      BY <3>2, <1>1 DEF wtsl_core_splink_node_service, storage, Values, Params
    <3>3. CASE UNCHANGED vars
      BY <3>3 DEF vars
    <3> QED
      BY <1>5, <3>1, <3>2, <3>3
  <2>2. Banded("main")' /\ Banded("http")'
    BY <1>2, <2>1, BandedStays DEF BandInv
  <2> QED
    BY <1>2, <2>1, <2>2 DEF BandInv, Level, Settles, Quiet, Running
<1>6. ~DriverMoves /\ ~Restart
  BY DEF DriverMoves, Restart
<1> QED
  BY <1>3, <1>4, <1>5, <1>6 DEF Next

\* The traffic bandwidth is within the physical one at every step, whatever the requests
\* and the networks are, until the node is asked for a pair that does not fit: by what a
\* request names and what is kept of what it does not name, which no handler compares, or
\* by a network that is joined.  Also while both are being changed, for the order depends
\* on whether the bandwidth grows or shrinks.
THEOREM BandwidthStaysWithin == Spec => []BandwidthFits
<1>1. BandInv => BandwidthFits
  BY DEF BandInv, Level, BandwidthFits
<1>2. Init => IInv /\ BandInv
  BY InitIInv, BandBegins
<1>3. (IInv /\ BandInv) /\ [Next]_vars => (IInv /\ BandInv)'
  BY NextIInv, BandNext
<1> QED
  BY <1>1, <1>2, <1>3, PTL DEF Spec

-----------------------------------------------------------------------------
(***************************************************************************)
(* A request to set the parameters                                         *)
(***************************************************************************)
\* The structure m, and the driver d, have the value of p that the request b names.
Took(p, b, m) == p \in DOMAIN b => m[p] = b[p]
Did(p, b, d)  == p \in DOMAIN b /\ b[p] \in Legal[p] => d[p] = b[p]

Applied(b, d) == \A p \in Watched : Did(p, b, d)

\* What the local variables l are at stage k, and what the structure m, the driver d and
\* the channel c of the file hold.
HttpLocals(k, l) ==
  /\ k # 20 => DOMAIN l \cap Watched = {}
  /\ k \in 7 .. 10 => "bw_now" \in DOMAIN l

HttpAt(k, m, d, l, b, c) ==
  /\ k \in 2 .. 15 => Took("channel", b, m)
  /\ k \in 3 .. 13 => Took("bw", b, m)
  /\ k \in 4 .. 13 => Took("tfc_bw", b, m)
  /\ k \in 5 .. 14 => Took("cell_id", b, m)
  /\ k \in 6 .. 16 => Did("channel", b, d)
  /\ k \in 8 .. 9  => m.bw >= l["bw_now"]
  /\ k = 9         => Did("bw", b, d)
  /\ k = 10        => m.bw < l["bw_now"] \/ (Did("bw", b, d) /\ Did("tfc_bw", b, d))
  /\ k = 12        => Did("tfc_bw", b, d)
  /\ k \in 13 .. 16 => Did("bw", b, d) /\ Did("tfc_bw", b, d)
  /\ k \in 14 .. 16 => Did("cell_id", b, d)
  /\ k = 15 /\ "channel" \in DOMAIN b => c = b.channel

\* A step of a request that goes on, when no command fails.
LEMMA HttpStep ==
  ASSUME Values, Jobs, NEW self \in Thread, self = "http", Step(self), ~Return(self),
         GoesOnWith(self), Frame(self), job[self].prog \in Api, "fault" \notin events',
         HttpLocals(Phase("http", self), job[self].local),
         HttpAt(Phase("http", self), mem, drv, job[self].local, job[self].body, file["CHANNEL"])
  PROVE  HttpAt(Phase("http", self)', mem', drv', job'[self].local, job[self].body, file'["CHANNEL"])
<1> DEFINE s == Now(self)
           b == job[self].body
           l == job[self].local
           l2 == job'[self].local
           h == Phase("http", self)
           k == Phase("http", self)'
           m == mem
           d == drv
           m2 == mem'
           d2 == drv'
           c == file["CHANNEL"]
           c2 == file'["CHANNEL"]
           OK(x) == HttpAt(x, m2, d2, l2, b, c2)
<1>1. AtStep(self) /\ StepOK(s)
  BY ByOperation DEF AtStep
<1>2. Moves("http", self)
  BY <1>1, PhaseMoves DEF Follows, GoesOnWith
<1>3. /\ m \in [Params -> Int] /\ d \in [Radio -> Int] /\ Watched \subseteq Params \cap Radio
      /\ "CHANNEL" \in Key /\ DOMAIN file = Key
  BY DEF Values, Params, Radio, Watched, Key
<1>4. /\ \A p \in Watched : p \notin MemOf(s) => m2[p] = m[p]
      /\ \A p \in Watched : p \notin DrvOf(s) => d2[p] = d[p]
      /\ "CHANNEL" \notin FileOf(s) => c2 = c
  BY <1>3 DEF Frame
<1>5. "bw_now" \notin LocalOf(s) /\ "bw_now" \in DOMAIN l =>
        "bw_now" \in DOMAIN l2 /\ l2["bw_now"] = l["bw_now"]
  BY DEF GoesOnWith
<1>6. "bw_now" \in DOMAIN l => l["bw_now"] \in Int
  BY DEF Jobs, JobInv, Numbers
<1> DEFINE keepsM == \A p \in Watched : m2[p] = m[p]
           keepsD == \A p \in Watched : d2[p] = d[p]
           keepsL == "bw_now" \in DOMAIN l => "bw_now" \in DOMAIN l2 /\ l2["bw_now"] = l["bw_now"]
           takes(p) == /\ Took(p, b, m2) /\ keepsD
                       /\ \A q \in Watched \ {p} : m2[q] = m[q]
           sets(p) == /\ Took(p, b, m) => Did(p, b, d2)
                      /\ keepsM /\ keepsL
                      /\ \A q \in Watched \ {p} : d2[q] = d[q]
<1>7. ASSUME s.op = "take", NEW p \in Watched, s.arg = p
      PROVE  takes(p)
  <2>1. m2[p] = IF p \in DOMAIN b THEN b[p] ELSE m[p]
    BY <1>1, <1>7, ReadsWell
  <2>2. MemOf(s) = {p} /\ DrvOf(s) = {}
    BY <1>7 DEF MemOf, DrvOf
  <2> QED
    BY <2>1, <2>2, <1>4 DEF Took
<1>8. ASSUME NEW w, NEW p \in Watched, Sets(s, w), h # 20,
             \/ w = "slb_set_bw" /\ p = "bw"
             \/ w = "slb_set_tfc_bw" /\ p = "tfc_bw"
             \/ w = "slb_set_channel" /\ p = "channel"
             \/ w = "slb_set_cell_id" /\ p = "cell_id"
      PROVE  sets(p)
  <2>1. p \notin DOMAIN l
    BY <1>8 DEF HttpLocals
  <2>2. /\ d2[p] = IF m[p] \in Legal[p] THEN m[p] ELSE d[p]
        /\ m2 = m /\ \A q \in Radio \ {p} : d2[q] = d[q]
    BY <1>1, <1>8, <2>1, SetsOne
  <2>3. LocalOf(s) = {}
    BY <1>8 DEF Sets, LocalOf
  <2> QED
    BY <2>2, <2>3, <1>3, <1>5 DEF Took, Did
<1>9. ASSUME s.op = "if"
      PROVE  keepsD /\ keepsM /\ keepsL /\ c2 = c
  BY <1>4, <1>5, <1>9 DEF LocalOf, MemOf, DrvOf, FileOf
<1>f. \A x : x = 7 \/ x = 10 => x \in 7 .. 10 /\ x # 20
  OBVIOUS
<1>10. ASSUME s.op = "if", s.lits = <<>>, s.arg \in {"bw grows", "bw shrinks"}, h = 7 \/ h = 10
       PROVE  /\ s.arg = "bw grows" => (Holds(self, s.arg) <=> m.bw >= l["bw_now"])
              /\ s.arg = "bw shrinks" => (Holds(self, s.arg) <=> m.bw < l["bw_now"])
  <2>0. h # 20 /\ h \in 7 .. 10
    BY <1>f, <1>10, Zenon
  <2>1. "bw_now" \in DOMAIN l /\ "bw" \notin DOMAIN l
    BY <2>0 DEF HttpLocals, Watched
  <2> QED
    BY <2>1, <1>10, TestsOne
<1>11. ASSUME s.op = "if"
       PROVE  \/ Holds(self, s.arg) /\ job'[self].at = job[self].at + 1
              \/ ~Holds(self, s.arg) /\ job'[self].at = job[self].at + 1 + s.name
  BY <1>1, <1>11, TestsWell
<1>12. ASSUME s.op = "save", s.arg = "CHANNEL", s.name = "channel", s.lits = <<>>, h = 14
       PROVE  keepsM /\ keepsD /\ c2 = m.channel
  <2>1. c2 = Arg(self, "channel")
    BY <1>1, <1>12, ReadsWell
  <2>2. "channel" \notin DOMAIN l /\ DOMAIN <<>> = {}
    BY <1>12 DEF HttpLocals, Watched
  <2>3. Arg(self, "channel") = m.channel
    BY <1>12, <2>2 DEF Arg
  <2> QED
    BY <2>1, <2>3, <1>4, <1>12 DEF MemOf, DrvOf
<1>13. ASSUME s.op \in {"lock", "unlock"} \/ Queries(s, "slb_get_bw", "bw", "bw_now")
       PROVE  keepsM /\ keepsD /\ c2 = c
  BY <1>4, <1>13 DEF MemOf, DrvOf, FileOf, Queries
<1>14. "channel" \in Watched /\ "bw" \in Watched /\ "tfc_bw" \in Watched /\ "cell_id" \in Watched
  BY DEF Watched
<1>15. HttpAt(h, m, d, l, b, c) /\ HttpLocals(h, l)
  OBVIOUS
<1> HIDE DEF s, b, l, l2, h, k, m, d, m2, d2, c, c2
\* What is kept.
<1>16. /\ \A p : m2[p] = m[p] => (Took(p, b, m2) <=> Took(p, b, m))
       /\ \A p : d2[p] = d[p] => (Did(p, b, d2) <=> Did(p, b, d))
  BY DEF Took, Did
<1>17. ASSUME HttpFree(s), k = h
       PROVE  OK(k)
  <2>1. keepsM /\ keepsD /\ keepsL /\ c2 = c
    BY <1>4, <1>5, <1>17 DEF HttpFree
  <2>2. h \in 7 .. 10 => l2["bw_now"] = l["bw_now"]
    BY <2>1, <1>15 DEF HttpLocals
  <2>3. m2.bw = m.bw
    BY <2>1, <1>14
  <2> QED
    BY <2>1, <2>2, <2>3, <1>14, <1>15, <1>16, <1>17 DEF HttpAt
<1>18. k \in {0, 1, 20} => OK(k)
  BY DEF HttpAt
<1>19. ASSUME s.op = "take", \/ s.arg = "channel" /\ h = 1 /\ k = 2
                             \/ s.arg = "bw" /\ h = 2 /\ k = 3
                             \/ s.arg = "tfc_bw" /\ h = 3 /\ k = 4
                             \/ s.arg = "cell_id" /\ h = 4 /\ k = 5
       PROVE  OK(k)
  BY <1>7, <1>14, <1>15, <1>16, <1>19 DEF HttpAt, Watched
<1>20. ASSUME \/ Sets(s, "slb_set_channel") /\ h = 5 /\ k = 6
              \/ Sets(s, "slb_set_bw") /\ h = 8 /\ k = 9
              \/ Sets(s, "slb_set_tfc_bw") /\ h = 9 /\ k = 10
              \/ Sets(s, "slb_set_tfc_bw") /\ h = 11 /\ k = 12
              \/ Sets(s, "slb_set_bw") /\ h = 12 /\ k = 13
              \/ Sets(s, "slb_set_cell_id") /\ h = 13 /\ k = 14
       PROVE  OK(k)
  <2>1. h \in 7 .. 10 => "bw_now" \in DOMAIN l
    BY <1>15 DEF HttpLocals
  <2>2. CASE Sets(s, "slb_set_channel") /\ h = 5 /\ k = 6
    <3>1. sets("channel")
      BY <2>2, <1>8, <1>14
    <3> QED
      BY <2>2, <3>1, <1>14, <1>15, <1>16 DEF HttpAt, Watched
  <2>3. CASE Sets(s, "slb_set_bw") /\ h = 8 /\ k = 9
    <3>1. sets("bw")
      BY <2>3, <1>8, <1>14
    <3> QED
      BY <2>1, <2>3, <3>1, <1>14, <1>15, <1>16 DEF HttpAt, Watched
  <2>4. CASE Sets(s, "slb_set_tfc_bw") /\ h = 9 /\ k = 10
    <3>1. sets("tfc_bw")
      BY <2>4, <1>8, <1>14
    <3> QED
      BY <2>1, <2>4, <3>1, <1>14, <1>15, <1>16 DEF HttpAt, Watched
  <2>5. CASE Sets(s, "slb_set_tfc_bw") /\ h = 11 /\ k = 12
    <3>1. sets("tfc_bw")
      BY <2>5, <1>8, <1>14
    <3> QED
      BY <2>5, <3>1, <1>14, <1>15, <1>16 DEF HttpAt, Watched
  <2>6. CASE Sets(s, "slb_set_bw") /\ h = 12 /\ k = 13
    <3>1. sets("bw")
      BY <2>6, <1>8, <1>14
    <3> QED
      BY <2>6, <3>1, <1>14, <1>15, <1>16 DEF HttpAt, Watched
  <2>7. CASE Sets(s, "slb_set_cell_id") /\ h = 13 /\ k = 14
    <3>1. sets("cell_id")
      BY <2>7, <1>8, <1>14
    <3> QED
      BY <2>7, <3>1, <1>14, <1>15, <1>16 DEF HttpAt, Watched
  <2> QED
    BY <1>20, <2>2, <2>3, <2>4, <2>5, <2>6, <2>7
<1>21. ASSUME s.op = "save", s.arg = "CHANNEL", s.name = "channel", s.lits = <<>>, h = 14, k = 15
       PROVE  OK(k)
  BY <1>12, <1>14, <1>15, <1>16, <1>21 DEF HttpAt, Took
<1>22. ASSUME \/ s.op = "unlock" /\ h = 15 /\ k = 16
              \/ Queries(s, "slb_get_bw", "bw", "bw_now") /\ h = 6 /\ k = 7
       PROVE  OK(k)
  BY <1>13, <1>14, <1>15, <1>16, <1>22 DEF HttpAt
<1>g. ASSUME s.op = "if", h = 7 \/ h = 10
      PROVE  /\ keepsD /\ keepsM /\ keepsL /\ c2 = c
             /\ m2.bw = m.bw /\ l2["bw_now"] = l["bw_now"]
             /\ m.bw \in Int /\ l["bw_now"] \in Int
  <2>1. h \in 7 .. 10
    BY <1>f, <1>g, Zenon
  <2>2. "bw_now" \in DOMAIN l
    BY <2>1, <1>15 DEF HttpLocals
  <2> QED
    BY <2>2, <1>3, <1>6, <1>9, <1>14, <1>g
<1>h. ASSUME m2.bw = m.bw, l2["bw_now"] = l["bw_now"], m.bw \in Int, l["bw_now"] \in Int,
             keepsD, keepsM, keepsL, c2 = c
      PROVE  /\ h = 7 /\ m.bw >= l["bw_now"] => OK(8)
             /\ h = 7 /\ ~(m.bw >= l["bw_now"]) => OK(10)
             /\ h = 10 /\ m.bw < l["bw_now"] => OK(11)
             /\ h = 10 /\ ~(m.bw < l["bw_now"]) => OK(13)
  BY <1>h, <1>14, <1>15, <1>16 DEF HttpAt
<1>23. ASSUME s.op = "if", s.lits = <<>>,
              \/ s.arg = "bw grows" /\ h = 7 /\ k = 8
              \/ s.arg = "bw shrinks" /\ h = 10 /\ k = 11,
              Holds(self, s.arg)
       PROVE  OK(k)
  <2>1. /\ s.arg = "bw grows" => m.bw >= l["bw_now"]
        /\ s.arg = "bw shrinks" => m.bw < l["bw_now"]
    BY <1>10, <1>23, Zenon
  <2> HIDE DEF keepsD, keepsM, keepsL, OK
  <2> QED
    BY <2>1, <1>g, <1>h, <1>23, Zenon
<1>24. ASSUME s.op = "if", s.lits = <<>>,
              \/ s.arg = "bw grows" /\ h = 7 /\ k = 10
              \/ s.arg = "bw shrinks" /\ h = 10 /\ k = 13,
              ~Holds(self, s.arg)
       PROVE  OK(k)
  <2>1. /\ s.arg = "bw grows" => ~(m.bw >= l["bw_now"])
        /\ s.arg = "bw shrinks" => ~(m.bw < l["bw_now"])
    BY <1>10, <1>24, Zenon
  <2> HIDE DEF keepsD, keepsM, keepsL, OK
  <2> QED
    BY <2>1, <1>g, <1>h, <1>24, Zenon
<1>25. ASSUME job'[self].at = job[self].at + 1, s.op = "if" => Holds(self, s.arg)
       PROVE  OK(k)
  <2>1. HttpGoes(s, h, k)
    BY <1>2, <1>25 DEF Moves, Goes, s, h, k
  <2> QED
    BY <2>1, <1>17, <1>18, <1>19, <1>20, <1>21, <1>22, <1>23, <1>25 DEF HttpGoes
<1>26. ASSUME s.op = "if", ~Holds(self, s.arg), job'[self].at = job[self].at + 1 + s.name
       PROVE  OK(k)
  <2>1. HttpSkips(s, h, k)
    BY <1>2, <1>26 DEF Moves, Skips, s, h, k
  <2>2. HttpFree(s)
    BY <1>26 DEF HttpFree, MemOf, DrvOf, FileOf, LocalOf, NoLocals
  <2> QED
    BY <2>1, <2>2, <1>17, <1>24, <1>26 DEF HttpSkips
<1>27. OK(k)
  BY <1>2, <1>11, <1>25, <1>26 DEF Moves, s
<1> QED
  BY <1>27 DEF b, l2, k, m2, d2, c2

\* The mutex is with the thread whose stage says so; and what local variables there are.
HttpPlaced ==
  job["http"].prog \in Api =>
    /\ HttpLocals(Phase("http", "http"), job["http"].local)
    /\ Phase("http", "http") \in 1 .. 15 => lock = "http"

WatchPlaced ==
  job["watcher"].prog = "pass" => (Phase("watch", "watcher") \in 1 .. 4 => lock = "watcher")

Placed == HttpPlaced /\ WatchPlaced

\* A step of the HTTP server's thread.
LEMMA HttpPlaces ==
  ASSUME Values, Jobs, Placed, Step("http"), ~Return("http")
  PROVE  /\ HttpPlaced'
         /\ lock' # lock => lock \in {"none", "http"}
<1> DEFINE self == "http"
           s == Now(self)
           l == job[self].local
           l2 == job'[self].local
           h == Phase("http", self)
           k == Phase("http", self)'
<1>0. self \in Thread
  BY DEF Thread
<1>1. /\ AtStep(self) /\ StepOK(s) /\ Frame(self)
  BY <1>0, ByOperation, Framed DEF AtStep
<1>2. job[self].prog \in Api
  BY <1>0, <1>1, ThreadsRun DEF AtStep
<1>3. HttpLocals(h, l) /\ (h \in 1 .. 15 => lock = "http")
  BY <1>2 DEF Placed, HttpPlaced
<1>4. /\ s.op = "lock" => lock = "none" /\ lock' = "http"
      /\ s.op \notin {"lock", "unlock"} => lock' = lock
  BY <1>0, <1>1, TestsWell DEF Frame
<1>5. PICK kk : HttpGoes(s, h, kk)
  BY <1>0, <1>1, <1>2, PhaseKnown DEF Goes, Follows
<1>6. s.op = "unlock" => h = 1 \/ h = 15
  <2> HIDE DEF s, h
  <2> QED
    BY <1>5 DEF HttpGoes, HttpFree, Sets, Queries
<1>7. lock' # lock => lock \in {"none", "http"}
  BY <1>3, <1>4, <1>6
<1>8. CASE IsRefused(self)
  <2>1. job'["http"].prog = "idle"
    BY <1>8 DEF IsRefused, GivesUp, Idle, Job
  <2> QED
    BY <2>1, <1>7, Names DEF HttpPlaced, Api
<1>9. CASE GoesOnWith(self)
  <2>1. Moves("http", self)
    BY <1>0, <1>1, <1>2, <1>9, PhaseMoves DEF Follows, GoesOnWith
  <2>2. /\ DOMAIN l \subseteq DOMAIN l2
        /\ s.op = "query" => s.name[2] \in DOMAIN l2
        /\ \A x : x \notin LocalOf(s) /\ x \notin DOMAIN l => x \notin DOMAIN l2
    BY <1>9 DEF GoesOnWith, GoesOn, Advances
  <2>3. HttpGoes(s, h, k) \/ (s.op = "if" /\ HttpSkips(s, h, k))
    BY <2>1 DEF Moves, Goes, Skips
  <2>a. DOMAIN <<>> = {}
    OBVIOUS
  <2> HIDE DEF s, l, l2, h, k
  <2>4. s.op = "if" => LocalOf(s) = {}
    BY DEF LocalOf
  <2>5. /\ \A w : Sets(s, w) => LocalOf(s) = {}
        /\ s.op \in {"take", "save", "lock", "unlock"} => LocalOf(s) = {}
        /\ Queries(s, "slb_get_bw", "bw", "bw_now") =>
              LocalOf(s) = {"bw_now"} /\ "bw_now" \in DOMAIN l2 /\ s.op \notin {"lock", "unlock"}
    BY <2>2 DEF LocalOf, Sets, Queries
  <2>6. /\ \A w : Sets(s, w) => lock' = lock
        /\ s.op \in {"take", "save", "if"} => lock' = lock
        /\ Queries(s, "slb_get_bw", "bw", "bw_now") => lock' = lock
        /\ HttpFree(s) => lock' = lock
    BY <1>4 DEF HttpFree, Sets, Queries
  <2>7. /\ HttpFree(s) => LocalOf(s) \cap Watched = {}
        /\ NoLocals(s) => LocalOf(s) \cap Watched = {}
        /\ LocalOf(s) = {"bw_now"} => LocalOf(s) \cap Watched = {}
    BY DEF HttpFree, NoLocals, Watched, Params
  <2>8. /\ LocalOf(s) \cap Watched = {} /\ DOMAIN l \cap Watched = {} => DOMAIN l2 \cap Watched = {}
        /\ "bw_now" \in DOMAIN l => "bw_now" \in DOMAIN l2
    BY <2>2
  <2>9. HttpLocals(k, l2) /\ (k \in 1 .. 15 => lock' = "http")
    <3>1. /\ h # 20 => DOMAIN l \cap Watched = {}
          /\ h \in 7 .. 10 => "bw_now" \in DOMAIN l
      BY <1>3 DEF HttpLocals
    <3>2. CASE HttpFree(s) /\ k = h
      BY <3>1, <3>2, <1>3, <2>6, <2>7, <2>8 DEF HttpLocals
    <3>3. CASE h = 0 /\ k = 0 /\ NoLocals(s)
      BY <3>1, <3>3, <2>7, <2>8 DEF HttpLocals
    <3>4. CASE k = 20
      BY <3>4 DEF HttpLocals
    <3>5. CASE s.op = "lock" /\ h = 0 /\ k = 1
      BY <3>1, <3>5, <1>4, <2>5, <2>8 DEF HttpLocals
    <3>6. CASE s.op = "unlock" /\ ((h = 1 /\ k = 0) \/ (h = 15 /\ k = 16))
      BY <3>1, <3>6, <2>5, <2>8 DEF HttpLocals
    <3>7. ASSUME s.op \in {"take", "save", "if"} \/ (\E w : Sets(s, w)),
                 h \in 1 .. 14, k \in 1 .. 15, k \in 7 .. 10 => h \in 7 .. 10
          PROVE  HttpLocals(k, l2) /\ (k \in 1 .. 15 => lock' = "http")
      BY <3>1, <3>7, <1>3, <2>4, <2>5, <2>6, <2>8 DEF HttpLocals
    <3>8. CASE Queries(s, "slb_get_bw", "bw", "bw_now") /\ h = 6 /\ k = 7
      BY <3>1, <3>8, <1>3, <2>5, <2>6, <2>7, <2>8 DEF HttpLocals
    <3>9. s.op = "if" => HttpFree(s)
      BY <2>4 DEF HttpFree, MemOf, DrvOf, FileOf, NoLocals
    <3> DEFINE OK == HttpLocals(k, l2) /\ (k \in 1 .. 15 => lock' = "http")
    <3>10. \A i, j : /\ i \in 1 .. 14 /\ j \in 1 .. 15 /\ (j \in 7 .. 10 => i \in 7 .. 10)
                     /\ h = i /\ k = j
                     /\ s.op \in {"take", "save", "if"} \/ (\E w : Sets(s, w))
                     => OK
      BY <3>7
    <3> DEFINE Far(i, j) == i \in 1 .. 14 /\ j \in 1 .. 15 /\ (j \in 7 .. 10 => i \in 7 .. 10)
    <3>11. /\ Far(1, 2) /\ Far(2, 3) /\ Far(3, 4) /\ Far(4, 5) /\ Far(5, 6) /\ Far(7, 8)
           /\ Far(8, 9) /\ Far(9, 10) /\ Far(10, 11) /\ Far(11, 12) /\ Far(12, 13)
           /\ Far(13, 14) /\ Far(14, 15) /\ Far(7, 10) /\ Far(10, 13)
      OBVIOUS
    <3>12. \A i, j : /\ Far(i, j) /\ h = i /\ k = j
                     /\ \/ s.op = "take" \/ s.op = "save" \/ s.op = "if"
                        \/ Sets(s, "slb_set_channel") \/ Sets(s, "slb_set_bw")
                        \/ Sets(s, "slb_set_tfc_bw") \/ Sets(s, "slb_set_cell_id")
                     => OK
      BY <3>10
    <3>13. /\ HttpFree(s) /\ h = k => OK
           /\ h = 0 /\ k = 0 /\ NoLocals(s) => OK
           /\ k = 20 => OK
           /\ s.op = "lock" /\ h = 0 /\ k = 1 => OK
           /\ s.op = "unlock" /\ h = 1 /\ k = 0 => OK
           /\ s.op = "unlock" /\ h = 15 /\ k = 16 => OK
           /\ Queries(s, "slb_get_bw", "bw", "bw_now") /\ h = 6 /\ k = 7 => OK
           /\ s.op = "if" /\ h = k => OK
      <4>1. HttpFree(s) /\ h = k => OK
        BY <3>2
      <4>2. h = 0 /\ k = 0 /\ NoLocals(s) => OK
        BY <3>3
      <4>3. k = 20 => OK
        BY <3>4
      <4>4. s.op = "lock" /\ h = 0 /\ k = 1 => OK
        BY <3>5
      <4>5. /\ s.op = "unlock" /\ h = 1 /\ k = 0 => OK
            /\ s.op = "unlock" /\ h = 15 /\ k = 16 => OK
        BY <3>6
      <4>6. Queries(s, "slb_get_bw", "bw", "bw_now") /\ h = 6 /\ k = 7 => OK
        BY <3>8
      <4> HIDE DEF OK
      <4> QED
        BY <4>1, <4>2, <4>3, <4>4, <4>5, <4>6, <3>9, Zenon
    <3> HIDE DEF OK, Far
    <3>14. HttpGoes(s, h, k) => OK
      BY <3>11, <3>12, <3>13, Zenon DEF HttpGoes
    <3>15. s.op = "if" /\ HttpSkips(s, h, k) => OK
      BY <3>11, <3>12, <3>13, Zenon DEF HttpSkips
    <3>16. OK
      BY <2>3, <3>14, <3>15, Zenon
    <3> QED
      BY <3>16 DEF OK
  <2>10. job'[self].prog = job[self].prog
    BY <1>9 DEF GoesOnWith, GoesOn, Advances
  <2> QED
    BY <1>7, <2>9, <2>10 DEF HttpPlaced, l2, k
<1> QED
  BY <1>1, <1>8, <1>9 DEF Frame

\* A step of the watcher.
LEMMA WatchPlaces ==
  ASSUME Values, Jobs, Placed, Step("watcher"), ~Return("watcher")
  PROVE  /\ WatchPlaced'
         /\ lock' # lock => lock \in {"none", "watcher"}
<1> DEFINE self == "watcher"
           s == Now(self)
           h == Phase("watch", self)
           k == Phase("watch", self)'
<1>0. self \in Thread
  BY DEF Thread
<1>1. /\ AtStep(self) /\ Frame(self) /\ GoesOnWith(self) /\ Moves("watch", self)
      /\ job[self].prog = "pass"
  BY <1>0, ByOperation, WatcherStep
<1>2. /\ s.op = "lock" => lock = "none" /\ lock' = self
      /\ s.op \notin {"lock", "unlock"} => lock' = lock
  BY <1>0, <1>1, TestsWell DEF Frame
<1>3. h \in 1 .. 4 => lock = self
  BY <1>1 DEF Placed, WatchPlaced
<1>4. WatchGoes(s, h, k) \/ (s.op = "if" /\ WatchSkips(s, h, k))
  BY <1>1 DEF Moves, Goes, Skips
<1>5. job'[self].prog = job[self].prog
  BY <1>1 DEF GoesOnWith, GoesOn, Advances
<1> DEFINE In(x) == x \in 1 .. 4
<1>6. In(1) /\ In(2) /\ In(3) /\ In(4) /\ ~In(0) /\ ~In(5)
  OBVIOUS
<1> HIDE DEF s, h, k, In
<1>7. /\ \A x : WatchGoes(s, h, x) /\ s.op = "unlock" => In(h)
      /\ WatchGoes(s, h, k) /\ s.op = "unlock" => ~In(k)
      /\ WatchGoes(s, h, k) /\ In(k) /\ s.op # "lock" => In(h)
      /\ WatchSkips(s, h, k) /\ In(k) => In(h)
  BY <1>6, Zenon DEF WatchGoes, WatchSkips, WatchFree, Queries
<1>8. In(k) => lock' = self
  BY <1>2, <1>3, <1>4, <1>7 DEF In
<1>10. lock' # lock => lock \in {"none", self}
  BY <1>2, <1>3, <1>4, <1>7 DEF In
<1> QED
  BY <1>8, <1>10, <1>5 DEF WatchPlaced, In, k

\* The mutex is with one of them, if with any.
LEMMA PlacedNext ==
  ASSUME Values, Jobs, BootsFirst, Placed, [Next]_vars
  PROVE  Placed'
<1>1. ASSUME job'["http"] = job["http"], lock = "http" => lock' = "http"
      PROVE  HttpPlaced'
  <2>1. Phase("http", "http")' = Phase("http", "http")
    BY <1>1, PhaseStays
  <2> QED
    BY <1>1, <2>1 DEF Placed, HttpPlaced
<1>2. ASSUME job'["watcher"] = job["watcher"], lock = "watcher" => lock' = "watcher"
      PROVE  WatchPlaced'
  <2>1. Phase("watch", "watcher")' = Phase("watch", "watcher")
    BY <1>2, PhaseStays
  <2> QED
    BY <1>2, <2>1 DEF Placed, WatchPlaced
<1>3. ASSUME NEW self \in Thread, Step(self), ~Return(self)
      PROVE  Placed'
  <2>1. \A t \in Thread \ {self} : job'[t] = job[t]
    BY <1>3, Framed DEF Keeps, GoesOn, GivesUp, Advances
  <2>2. CASE self = "main"
    <3>1. lock' = lock
      BY <2>2, <1>3, BootStep
    <3> QED
      BY <3>1, <2>1, <2>2, <1>1, <1>2 DEF Placed, Thread
  <2>3. CASE self = "http"
    <3>1. HttpPlaced' /\ (lock' # lock => lock \in {"none", "http"})
      BY <2>3, <1>3, HttpPlaces
    <3> QED
      BY <3>1, <2>1, <2>3, <1>2 DEF Placed, Thread
  <2>4. CASE self = "watcher"
    <3>1. WatchPlaced' /\ (lock' # lock => lock \in {"none", "watcher"})
      BY <2>4, <1>3, WatchPlaces
    <3> QED
      BY <3>1, <2>1, <2>4, <1>1 DEF Placed, Thread
  <2> QED
    BY <2>2, <2>3, <2>4 DEF Thread
<1>4. ASSUME NEW self \in Thread, Return(self)
      PROVE  Placed'
  <2>1. /\ lock' = lock /\ \A t \in Thread \ {self} : job'[t] = job[t]
        /\ job'[self].prog \in {"idle", "done"}
    BY <1>4 DEF Return, Idle, Job, Jobs
  <2>2. CASE self = "http"
    BY <2>1, <2>2, <1>2, Names DEF Placed, HttpPlaced, Thread, Api
  <2>3. CASE self = "watcher"
    BY <2>1, <2>3, <1>1 DEF Placed, WatchPlaced, Thread
  <2>4. CASE self = "main"
    BY <2>1, <2>4, <1>1, <1>2 DEF Placed, Thread
  <2> QED
    BY <2>2, <2>3, <2>4 DEF Thread
<1>5. CASE Request
  <2>1. lock' = lock /\ job'["watcher"] = job["watcher"]
    BY <1>5 DEF Request, Jobs, Thread
  <2>2. PICK a \in budget.apis : \E b \in Bodies[a] :
          UNCHANGED job \/ job' = [job EXCEPT !["http"] = Job(a, b)]
    BY <1>5 DEF Request
  <2>3. PICK b \in Bodies[a] : UNCHANGED job \/ job' = [job EXCEPT !["http"] = Job(a, b)]
    BY <2>2
  <2>4. CASE UNCHANGED job
    BY <2>1, <2>4, <1>1, <1>2 DEF Placed
  <2>5. CASE job' = [job EXCEPT !["http"] = Job(a, b)]
    <3>1. job'["http"].prog = a /\ job'["http"].at = 1 /\ job'["http"].local = <<>>
      BY <2>5 DEF Jobs, Thread, Job
    <3>2. DOMAIN <<>> = {}
      OBVIOUS
    <3>3. ASSUME a \in Api
          PROVE  Phase("http", "http")' = 0
      <4>1. OutlineOf("http", a)[1] = 0
        BY <3>3, Outlines DEF Drawn, Follows, Begin, Filed
      <4> QED
        BY <3>1, <4>1 DEF Phase
    <3>4. HttpPlaced'
      BY <3>1, <3>2, <3>3 DEF HttpPlaced, HttpLocals
    <3> QED
      BY <2>1, <3>4, <1>2 DEF Placed
  <2> QED
    BY <2>3, <2>4, <2>5
<1>6. CASE WatcherWakes
  <2>1. lock' = lock /\ job'["http"] = job["http"] /\ job'["watcher"] = Job("pass", <<>>)
    BY <1>6 DEF WatcherWakes, Jobs, Thread
  <2>2. OutlineOf("watch", "pass")[1] = 0
    BY Outlines DEF Drawn, Follows, Begin, Filed
  <2>3. Phase("watch", "watcher")' = 0
    BY <2>1, <2>2 DEF Phase, Job
  <2> QED
    BY <2>1, <2>3, <1>1 DEF Placed, WatchPlaced
<1>7. CASE Restart
  <2>1. job' = Booting
    BY <1>7 DEF Restart, Volatile
  <2>2. job'["http"].prog = "idle" /\ job'["watcher"].prog = "idle"
    BY <2>1 DEF Booting, Idle, Job
  <2> QED
    BY <2>2, Names DEF Placed, HttpPlaced, WatchPlaced, Api
<1>8. CASE wtsl_core_splink_node_service \/ DriverMoves \/ UNCHANGED vars
  BY <1>8, <1>1, <1>2 DEF wtsl_core_splink_node_service, DriverMoves, vars, Placed
<1> QED
  BY <1>3, <1>4, <1>5, <1>6, <1>7, <1>8 DEF Next

\* Before the first request nobody holds the mutex.
LEMMA PlacedBegins == Init => Placed
BY Names DEF Init, Volatile, Booting, Idle, Job, Placed, HttpPlaced, WatchPlaced, Api

\* What the thread of the HTTP server knows, as long as no command fails and the driver
\* keeps its channel; and what an answer has promised.
Applying ==
  /\ job["main"].prog # "done" => answer.api = "none"
  /\ events \cap {"fault", "move"} = {} =>
       /\ job["http"].prog \in Api =>
            HttpAt(Phase("http", "http"), mem, drv, job["http"].local, job["http"].body,
                   file["CHANNEL"])
       /\ Quiet /\ answer.api = "set_basicinfo" /\ answer.ok => Applied(answer.body, drv)

\* What others leave alone: all of it under the mutex, the driver otherwise.
LEMMA HttpStays ==
  ASSUME NEW k, NEW m, NEW d, NEW l, NEW b, NEW c, NEW m2, NEW d2, NEW c2,
         HttpAt(k, m, d, l, b, c), \A p \in Watched : d2[p] = d[p],
         k \in 1 .. 15 => c2 = c /\ \A p \in Watched : m2[p] = m[p]
  PROVE  HttpAt(k, m2, d2, l, b, c2)
<1>1. \A p \in Watched : Did(p, b, d2) = Did(p, b, d)
  BY DEF Did
<1>2. k \in 1 .. 15 => \A p \in Watched : Took(p, b, m2) = Took(p, b, m)
  BY DEF Took
<1>3. k \in 1 .. 15 => m2.bw = m.bw /\ c2 = c
  BY DEF Watched
<1>4. "channel" \in Watched /\ "bw" \in Watched /\ "tfc_bw" \in Watched /\ "cell_id" \in Watched
  BY DEF Watched
<1> QED
  BY <1>1, <1>2, <1>3, <1>4 DEF HttpAt

\* A watcher without the mutex writes nothing.
LEMMA WatcherLooks ==
  ASSUME Values, Jobs, Placed, Step("watcher"), ~Return("watcher"), lock = "http"
  PROVE  /\ \A p \in Params : mem'[p] = mem[p]
         /\ \A k \in Key : file'[k] = file[k]
<1> DEFINE self == "watcher"
           s == Now(self)
           h == Phase("watch", self)
<1>0. self \in Thread
  BY DEF Thread
<1>1. /\ AtStep(self) /\ Frame(self) /\ job[self].prog = "pass"
  BY <1>0, ByOperation, WatcherStep
<1>2. h \notin 1 .. 4
  BY <1>1 DEF Placed, WatchPlaced
<1>3. PICK k : WatchGoes(s, h, k)
  BY <1>0, <1>1, PhaseKnown DEF Goes, Follows
<1> DEFINE In(x) == x \in 1 .. 4
<1>4. In(1) /\ In(2) /\ In(3) /\ In(4) /\ ~In(h)
  BY <1>2
<1> HIDE DEF s, h, In
<1>5. WatchFree(s) \/ s.op = "lock"
  BY <1>3, <1>4, Zenon DEF WatchGoes
<1>6. MemOf(s) = {} /\ FileOf(s) = {}
  BY <1>5 DEF WatchFree, MemOf, FileOf
<1> QED
  BY <1>1, <1>6 DEF Frame, s

\* A step of any thread: its own, or one that the mutex keeps out.
LEMMA ApplyingSteps ==
  ASSUME Values, Jobs, BootsFirst, Placed, Applying, NEW self \in Thread, Step(self), ~Return(self)
  PROVE  Applying'
<1>1. AtStep(self) /\ Frame(self)
  BY Framed, ByOperation
<1>2. /\ \A t \in Thread \ {self} : job'[t] = job[t]
      /\ GoesOnWith(self) \/ IsRefused(self)
      /\ GoesOnWith(self) => /\ job'[self].prog = job[self].prog /\ job'[self].body = job[self].body
                             /\ answer' = answer
      /\ IsRefused(self) => job'[self] = Idle /\ answer'.ok = FALSE
  BY <1>1 DEF Frame, GoesOnWith, IsRefused, GoesOn, GivesUp, Advances
<1>3. Watched \subseteq Params \cap Radio /\ "CHANNEL" \in Key
  BY DEF Watched, Params, Radio, Key
<1>4. events \subseteq events'
  BY EventsRemain DEF Next
<1>5. CASE self = "main"
  <2>1. GoesOnWith(self) /\ job[self].prog = "boot"
    BY <1>5, BootStep
  <2>2. job'["http"].prog = "idle" /\ job'["main"].prog # "done" /\ answer'.api = "none"
    BY <2>1, <1>2, <1>5 DEF BootsFirst, Applying, Thread
  <2> QED
    BY <2>2, Names DEF Applying, Quiet, Running, Api
<1>6. job["main"].prog = "done" \/ self = "main"
  BY <1>1, Names DEF BootsFirst, AtStep, Thread
<1>7. CASE self = "watcher"
  <2>1. /\ GoesOnWith(self) /\ job'["http"] = job["http"] /\ job'["main"] = job["main"]
        /\ answer' = answer /\ \A p \in Watched : drv'[p] = drv[p]
    BY <1>2, <1>3, <1>7, WatcherStep DEF Thread
  <2>2. Phase("http", "http")' = Phase("http", "http")
    BY <2>1, PhaseStays
  <2>3. ASSUME events \cap {"fault", "move"} = {}, job["http"].prog \in Api
        PROVE  HttpAt(Phase("http", "http"), mem', drv', job["http"].local, job["http"].body,
                      file'["CHANNEL"])
    <3>1. HttpAt(Phase("http", "http"), mem, drv, job["http"].local, job["http"].body, file["CHANNEL"])
      BY <2>3 DEF Applying
    <3>2. Phase("http", "http") \in 1 .. 15 =>
            file'["CHANNEL"] = file["CHANNEL"] /\ \A p \in Watched : mem'[p] = mem[p]
      <4> SUFFICES ASSUME Phase("http", "http") \in 1 .. 15
                   PROVE  file'["CHANNEL"] = file["CHANNEL"] /\ \A p \in Watched : mem'[p] = mem[p]
        OBVIOUS
      <4>1. lock = "http"
        BY <2>3 DEF Placed, HttpPlaced
      <4> QED
        BY <4>1, <1>3, <1>7, WatcherLooks
    <3> QED
      BY <2>1, <3>1, <3>2, HttpStays
  <2>4. Quiet' = Quiet /\ (\A b : Applied(b, drv') = Applied(b, drv))
    BY <2>1 DEF Quiet, Running, Applied, Did
  <2> QED
    BY <2>1, <2>2, <2>3, <2>4, <1>4 DEF Applying
<1>8. CASE self = "http" /\ GoesOnWith(self)
  <2>1. job[self].prog \in Api
    BY <1>1, <1>8, ThreadsRun DEF AtStep
  <2>2. ASSUME events' \cap {"fault", "move"} = {}
        PROVE  HttpAt(Phase("http", self)', mem', drv', job'[self].local, job[self].body, file'["CHANNEL"])
    <3>1. events \cap {"fault", "move"} = {} /\ "fault" \notin events'
      BY <2>2, <1>4
    <3>2. HttpAt(Phase("http", self), mem, drv, job[self].local, job[self].body, file["CHANNEL"])
      BY <2>1, <3>1, <1>8 DEF Applying
    <3>3. HttpLocals(Phase("http", self), job[self].local)
      BY <2>1, <1>8 DEF Placed, HttpPlaced
    <3> QED
      BY <2>1, <3>1, <3>2, <3>3, <1>1, <1>8, HttpStep
  <2>3. ~Quiet' /\ job'["main"].prog = "done"
    BY <2>1, <1>2, <1>6, <1>8, Names DEF Quiet, Api, Thread
  <2> QED
    BY <2>2, <2>3, <1>2, <1>8 DEF Applying
<1>9. CASE self = "http" /\ IsRefused(self)
  <2>1. job'["http"].prog = "idle" /\ job'["main"].prog = "done" /\ answer'.ok = FALSE
    BY <1>2, <1>6, <1>9 DEF Thread, Idle, Job
  <2> QED
    BY <2>1, Names DEF Applying, Api
<1> QED
  BY <1>2, <1>5, <1>7, <1>8, <1>9 DEF Thread

\* The end of a function, which is the answer to a request.
LEMMA ApplyingReturns ==
  ASSUME Values, Jobs, BootsFirst, Applying, NEW self \in Thread, Return(self)
  PROVE  Applying'
<1>1. /\ UNCHANGED <<mem, drv, file, events>> /\ job[self].prog \in DOMAIN Program
      /\ \A t \in Thread \ {self} : job'[t] = job[t]
      /\ self # "main" => job'[self] = Idle
      /\ self = "main" => job'[self] = Job("done", <<>>)
      /\ self # "http" => answer' = answer
      /\ self = "http" => /\ answer'.api = job[self].prog /\ answer'.body = job[self].body
  BY DEF Return, storage, Jobs
<1>2. Idle.prog = "idle" /\ Job("done", <<>>).prog = "done"
  BY DEF Idle, Job
<1>3. job["main"].prog = "done" \/ self = "main"
  BY <1>1, Names DEF BootsFirst, Thread
<1>4. CASE self = "main"
  <2>1. answer'.api = "none" /\ job'["http"].prog = "idle"
    BY <1>1, <1>4, ThreadsRun DEF Applying, BootsFirst, Thread
  <2>2. job'["main"].prog = "done"
    BY <1>1, <1>2, <1>4
  <2> QED
    BY <2>1, <2>2, Names DEF Applying, Api
<1>5. CASE self = "watcher"
  <2>1. job'["http"] = job["http"] /\ job'["main"] = job["main"] /\ answer' = answer
    BY <1>1, <1>5 DEF Thread
  <2>2. Phase("http", "http")' = Phase("http", "http")
    BY <2>1, PhaseStays
  <2> QED
    BY <2>1, <2>2, <1>1 DEF Applying, Quiet, Running
<1>6. CASE self = "http"
  <2>1. job[self].prog \in Api
    BY <1>1, <1>6, ThreadsRun
  <2>2. job'["http"].prog = "idle" /\ job'["main"].prog = "done"
    BY <1>1, <1>2, <1>3, <1>6 DEF Thread
  <2>3. ASSUME events \cap {"fault", "move"} = {}, job[self].prog = "set_basicinfo"
        PROVE  Applied(job[self].body, drv)
    <3>1. Phase("http", self) = 16
      BY <2>1, <2>3, PhaseEnds DEF End, Filed, Follows
    <3>2. HttpAt(16, mem, drv, job[self].local, job[self].body, file["CHANNEL"])
      BY <2>1, <2>3, <3>1, <1>6 DEF Applying
    <3> QED
      BY <3>2 DEF HttpAt, Applied, Watched
  <2> QED
    BY <2>2, <2>3, <1>1, <1>6, Names DEF Applying, Api
<1> QED
  BY <1>4, <1>5, <1>6 DEF Thread

\* Every step of the specification.
LEMMA ApplyingNext ==
  ASSUME Values, Jobs, BootsFirst, Placed, Applying, [Next]_vars
  PROVE  Applying'
<1>1. ASSUME NEW self \in Thread, Step(self)
      PROVE  Applying'
  BY <1>1, ApplyingSteps, ApplyingReturns
<1>2. CASE Request
  <2>1. PICK a \in budget.apis : \E b \in Bodies[a] :
          \/ answer'.ok = FALSE /\ UNCHANGED job
          \/ job' = [job EXCEPT !["http"] = Job(a, b)] /\ UNCHANGED answer
    BY <1>2 DEF Request
  <2>2. PICK b \in Bodies[a] :
          \/ answer'.ok = FALSE /\ UNCHANGED job
          \/ job' = [job EXCEPT !["http"] = Job(a, b)] /\ UNCHANGED answer
    BY <2>1
  <2>3. /\ UNCHANGED <<mem, drv, file, events>> /\ Running /\ job["http"].prog = "idle"
        /\ a \in Api
    BY <1>2, RequestAssumption DEF Request, storage, Values, Api
  <2>4. CASE answer'.ok = FALSE /\ UNCHANGED job
    BY <2>3, <2>4, Names DEF Applying, Running, Api
  <2>5. CASE job' = [job EXCEPT !["http"] = Job(a, b)] /\ UNCHANGED answer
    <3>1. /\ job'["http"].prog = a /\ job'["http"].at = 1 /\ job'["main"] = job["main"]
      BY <2>5 DEF Jobs, Thread, Job
    <3>2. OutlineOf("http", a)[1] = 0
      BY <2>3, Outlines DEF Drawn, Follows, Begin, Filed
    <3>3. Phase("http", "http")' = 0
      BY <3>1, <3>2 DEF Phase
    <3>4. \A m, d, l, bb, c : HttpAt(0, m, d, l, bb, c)
      BY DEF HttpAt
    <3> QED
      BY <2>3, <2>5, <3>1, <3>3, <3>4, Names DEF Applying, Quiet, Running, Api
  <2> QED
    BY <2>2, <2>4, <2>5
<1>3. CASE Restart
  <2>1. job' = Booting /\ answer'.api = "none"
    BY <1>3 DEF Restart, Volatile
  <2>2. job'["http"].prog = "idle" /\ job'["main"].prog = "boot"
    BY <2>1 DEF Booting, Idle, Job
  <2> QED
    BY <2>1, <2>2, Names DEF Applying, Quiet, Running, Api
<1>4. CASE DriverMoves
  <2>1. "move" \in events' /\ UNCHANGED <<job, answer>>
    BY <1>4 DEF DriverMoves
  <2> QED
    BY <2>1 DEF Applying
<1>5. CASE WatcherWakes \/ wtsl_core_splink_node_service \/ UNCHANGED vars
  <2>1. /\ UNCHANGED <<drv, file, events, answer>>
        /\ job'["http"] = job["http"] /\ job'["main"] = job["main"]
        /\ \A p \in Watched : mem'[p] = mem[p]
    <3>1. CASE WatcherWakes
      BY <3>1 DEF WatcherWakes, storage, Jobs, Thread
    <3>2. CASE wtsl_core_splink_node_service
      BY <3>2 DEF wtsl_core_splink_node_service, storage, Values, Params, Watched
    <3>3. CASE UNCHANGED vars
      BY <3>3 DEF vars
    <3> QED
      BY <1>5, <3>1, <3>2, <3>3
  <2>2. Phase("http", "http")' = Phase("http", "http")
    BY <2>1, PhaseStays
  <2>3. ASSUME events \cap {"fault", "move"} = {}, job["http"].prog \in Api
        PROVE  HttpAt(Phase("http", "http"), mem', drv', job["http"].local, job["http"].body,
                      file'["CHANNEL"])
    BY <2>1, <2>3, HttpStays DEF Applying
  <2> QED
    BY <2>1, <2>2, <2>3 DEF Applying, Quiet, Running
<1> QED
  BY <1>1, <1>2, <1>3, <1>4, <1>5 DEF Next

\* Nothing has been answered at first.
LEMMA ApplyingBegins == Init => Applying
BY Names DEF Init, Volatile, Booting, Idle, Job, Applying, Quiet, Running, Api

\* When the parameters of a node have been set with success, the driver has those among
\* them that are legal: all of it is done under the mutex, and the watcher, which writes the
\* driver's channel back to the structure, cannot come in between.
THEOREM SetNodeIsApplied == Spec => []SetNodeApplied
<1>1. Applying => SetNodeApplied
  <2>1. DOMAIN Legal = Watched
    BY DEF Legal, Watched
  <2> QED
    BY <2>1 DEF Applying, SetNodeApplied, Applied, Did
<1>2. Init => IInv /\ Placed /\ Applying
  BY InitIInv, PlacedBegins, ApplyingBegins
<1>3. (IInv /\ Placed /\ Applying) /\ [Next]_vars => (IInv /\ Placed /\ Applying)'
  BY NextIInv, PlacedNext, ApplyingNext DEF IInv
<1> QED
  BY <1>1, <1>2, <1>3, PTL DEF Spec

-----------------------------------------------------------------------------
(***************************************************************************)
(* What is saved, and read back                                            *)
(***************************************************************************)
\* What lasts of what a function takes and saves is what its outline follows.
LEMMA SavedWithin ==
  ASSUME NEW a \in Api
  PROVE  /\ a \in Filed => SavedBy(a) \cap Durable \subseteq Saves[a]
         /\ a \notin Filed => SavedBy(a) \cap Durable = {}
<1> DEFINE P == Program[a]
<1>1. /\ SavedBy(a) \subseteq {P[i].arg : i \in {k \in DOMAIN P : P[k].op = "take"}}
      /\ {k \in DOMAIN P : P[k].op = "lock"} = {} => "channel" \notin SavedBy(a)
      /\ a = "aifh" => "aifh_enable" \notin SavedBy(a)
  BY DEF SavedBy
<1>2. ASSUME NEW g \in DOMAIN Follows, a \in Follows[g]
      PROVE  \A i \in DOMAIN P : \E x, y : Goes(g, P[i], x, y)
  <2>1. Outline(g, P, OutlineOf(g, a))
    BY <1>2, Outlines DEF Drawn
  <2>2. DOMAIN P = 1 .. Len(P)
    BY <2>1 DEF Outline, IsSeq
  <2> QED
    BY <2>1, <2>2 DEF Outline
<1>3. CASE a \in Filed
  <2>1. a \in DOMAIN Follows /\ a \in Follows[a]
    BY <1>3 DEF Follows, Filed
  <2>2. \A s, x, y : Goes(a, s, x, y) => FileGoes(Saves[a], s, x, y)
    BY <1>3 DEF Goes, Filed
  <2>3. \A s, x, y : FileGoes(Saves[a], s, x, y) /\ s.op = "take" /\ s.arg \in Durable
                       => s.arg \in Saves[a]
    BY DEF FileGoes, MemOf
  <2>4. \A i \in DOMAIN P : P[i].op = "take" /\ P[i].arg \in Durable => P[i].arg \in Saves[a]
    BY <2>1, <2>2, <2>3, <1>2
  <2> QED
    BY <1>1, <1>3, <2>4
<1>4. CASE a \in Api \ (Filed \cup {"chswitch", "aifh"})
  <2>1. "plain" \in DOMAIN Follows /\ a \in Follows["plain"]
    BY <1>4 DEF Follows
  <2>2. \A s, x, y : Goes("plain", s, x, y) => s.op # "take"
    BY DEF Goes, PlainGoes
  <2>3. \A i \in DOMAIN P : P[i].op # "take"
    BY <2>1, <2>2, <1>2
  <2> QED
    BY <1>1, <1>4, <2>3
<1>5. CASE a = "chswitch"
  <2>1. "switch" \in DOMAIN Follows /\ a \in Follows["switch"] /\ a \notin Filed
    BY <1>5 DEF Follows, Filed
  <2>2. \A s, x, y : Goes("switch", s, x, y) =>
          s.op # "lock" /\ (s.op = "take" => s.arg = "channel")
    BY DEF Goes, OneGoes
  <2>3. \A i \in DOMAIN P : P[i].op # "lock" /\ (P[i].op = "take" => P[i].arg = "channel")
    BY <2>1, <2>2, <1>2
  <2> QED
    BY <1>1, <2>1, <2>3
<1>6. CASE a = "aifh"
  <2>1. "aifh" \in DOMAIN Follows /\ a \in Follows["aifh"] /\ a \notin Filed
    BY <1>6 DEF Follows, Filed
  <2>2. \A s, x, y : Goes("aifh", s, x, y) => (s.op = "take" => s.arg = "aifh_enable")
    BY DEF Goes, OneGoes
  <2>3. \A i \in DOMAIN P : P[i].op = "take" => P[i].arg = "aifh_enable"
    BY <2>1, <2>2, <1>2
  <2> QED
    BY <1>1, <1>6, <2>1, <2>3
<1> QED
  BY <1>3, <1>4, <1>5, <1>6

\* The structure m has what the request b asks for, of what has been taken, and the file
\* f of what has been saved: all but the channel, which the watcher writes too.
FileAt(a, m, b, f) ==
  \A p \in (a[1] \cap DOMAIN b \cap Durable) \ {"channel"} :
    /\ m[p] = b[p]
    /\ p \in a[2] => f[KeyOf[p]] = b[p]

\* The structure has what the file has, of what has been read.
LoadAt(a, m, f) == \A p \in a \cap Loaded : f[ReadFrom(p)] # Absent => m[p] = f[ReadFrom(p)]

\* Every parameter that lasts has a key of its own.
LEMMA Keys ==
  /\ Durable \subseteq DOMAIN KeyOf /\ DOMAIN KeyOf \subseteq Params /\ Loaded \subseteq Params
  /\ \A p \in DOMAIN KeyOf : KeyOf[p] \in Key
  /\ \A p \in Loaded : ReadFrom(p) \in Key
  /\ \A p \in Durable : ReadFrom(p) = KeyOf[p]
  /\ \A p, q \in DOMAIN KeyOf : KeyOf[p] = KeyOf[q] => p = q
  /\ \A p \in DOMAIN KeyOf : KeyOf[p] = "CHANNEL" => p = "channel"
<1>1. \A p, q \in DOMAIN KeyOf : KeyOf[p] = KeyOf[q] => p = q
  BY DEF KeyOf
<1>2. Durable \subseteq DOMAIN KeyOf /\ DOMAIN KeyOf \subseteq Params /\ Loaded \subseteq Params
  BY DEF KeyOf, Durable, Params, Loaded
<1>3. \A p \in DOMAIN KeyOf : KeyOf[p] \in Key
  BY DEF KeyOf, Key
<1>4. \A p \in Durable : ReadFrom(p) = KeyOf[p]
  BY DEF ReadFrom, Durable
<1>5. ReadFrom("node_type") \in Key
  BY DEF ReadFrom, Key
<1>6. KeyOf["channel"] = "CHANNEL" /\ "channel" \in DOMAIN KeyOf
  BY DEF KeyOf
<1> QED
  BY <1>1, <1>2, <1>3, <1>4, <1>5, <1>6 DEF Loaded

\* A step of a request that saves, when no command fails.
LEMMA FileStep ==
  ASSUME Values, Jobs, NEW self \in Thread, self = "http", Step(self), ~Return(self),
         GoesOnWith(self), Frame(self), NEW g \in Filed, job[self].prog = g,
         "fault" \notin events', DOMAIN job[self].local \cap Params = {},
         FileAt(Phase(g, self), mem, job[self].body, file)
  PROVE  /\ FileAt(Phase(g, self)', mem', job[self].body, file')
         /\ DOMAIN job'[self].local \cap Params = {}
<1> DEFINE s == Now(self)
           b == job[self].body
           l == job[self].local
           l2 == job'[self].local
           h == Phase(g, self)
           k == Phase(g, self)'
           m == mem
           m2 == mem'
           f == file
           f2 == file'
<1>1. AtStep(self) /\ StepOK(s)
  BY ByOperation DEF AtStep
<1>2. g \in DOMAIN Follows /\ g \in Follows[g]
  BY DEF Follows, Filed
<1>3. Moves(g, self) /\ \E kk : Goes(g, s, h, kk)
  BY <1>1, <1>2, PhaseMoves, PhaseKnown DEF GoesOnWith
<1>4. \A x, y : Goes(g, s, x, y) => FileGoes(Saves[g], s, x, y)
  BY DEF Goes, Filed
<1>5. \A x, y : Skips(g, s, x, y) => x = y
  BY DEF Skips, Filed
<1>6. NoLocals(s)
  BY <1>3, <1>4 DEF FileGoes
<1>7. DOMAIN l2 \cap Params = {}
  BY <1>6 DEF GoesOnWith, NoLocals
<1>8. /\ \A p \in Durable : p \notin MemOf(s) => m2[p] = m[p]
      /\ \A p \in Durable : KeyOf[p] \notin FileOf(s) => f2[KeyOf[p]] = f[KeyOf[p]]
  BY Keys DEF Frame
<1>9. ASSUME MemOf(s) = {}, FileOf(s) = {}, h = k
      PROVE  FileAt(k, m2, b, f2)
  BY <1>8, <1>9 DEF FileAt
<1>10. ASSUME s.op = "take", s.arg \notin h[2], k = <<h[1] \cup {s.arg}, h[2]>>
       PROVE  FileAt(k, m2, b, f2)
  <2>1. m2[s.arg] = IF s.arg \in DOMAIN b THEN b[s.arg] ELSE m[s.arg]
    BY <1>1, <1>10, ReadsWell
  <2>2. MemOf(s) = {s.arg} /\ FileOf(s) = {}
    BY <1>10 DEF MemOf, FileOf
  <2>3. k[1] = h[1] \cup {s.arg} /\ k[2] = h[2]
    BY <1>10
  <2> HIDE DEF m, m2, f, f2, b, h, k, s
  <2> QED
    BY <2>1, <2>2, <2>3, <1>8, <1>10 DEF FileAt, m, m2, f, f2, b, h
<1>11. ASSUME s.op = "save", s.lits = <<>>, s.name \in DOMAIN KeyOf, s.arg = KeyOf[s.name],
              k = <<h[1], h[2] \cup {s.name}>>
       PROVE  FileAt(k, m2, b, f2)
  <2>1. f2[s.arg] = Arg(self, s.name)
    BY <1>1, <1>11, ReadsWell
  <2>2. s.name \notin DOMAIN l /\ DOMAIN <<>> = {}
    BY <1>11, Keys
  <2>3. Arg(self, s.name) = m[s.name]
    BY <1>11, <2>2 DEF Arg
  <2>4. MemOf(s) = {} /\ FileOf(s) = {s.arg}
    BY <1>11 DEF MemOf, FileOf
  <2>5. \A p \in Durable : p # s.name => KeyOf[p] # s.arg
    BY <1>11, Keys
  <2>6. k[1] = h[1] /\ k[2] = h[2] \cup {s.name}
    BY <1>11
  <2>7. \A p \in Durable : /\ m2[p] = m[p]
                           /\ p # s.name => f2[KeyOf[p]] = f[KeyOf[p]]
                           /\ p = s.name => f2[KeyOf[p]] = m[p]
    BY <2>1, <2>3, <2>4, <2>5, <1>8, <1>11
  <2>8. FileAt(h, m, b, f)
    OBVIOUS
  <2> HIDE DEF m, m2, f, f2, b, h, k, s
  <2> QED
    BY <2>6, <2>7, <2>8 DEF FileAt
<1>12. CASE job'[self].at = job[self].at + 1
  <2>1. FileGoes(Saves[g], s, h, k)
    BY <1>3, <1>4, <1>12 DEF Moves
  <2> HIDE DEF m, m2, f, f2, b, h, k, s
  <2> QED
    BY <2>1, <1>7, <1>9, <1>10, <1>11 DEF FileGoes, k, m2, b, f2
<1>13. CASE s.op = "if" /\ job'[self].at = job[self].at + 1 + s.name
  <2>1. h = k
    BY <1>3, <1>5, <1>13 DEF Moves
  <2>2. MemOf(s) = {} /\ FileOf(s) = {}
    BY <1>13 DEF MemOf, FileOf
  <2> QED
    BY <2>1, <2>2, <1>7, <1>9
<1> QED
  BY <1>3, <1>12, <1>13 DEF Moves

\* A step of the boot.
LEMMA LoadStep ==
  ASSUME Values, Jobs, Step("main"), ~Return("main"), "fault" \notin events',
         LoadAt(Phase("load", "main"), mem, file)
  PROVE  LoadAt(Phase("load", "main")', mem', file')
<1> DEFINE self == "main"
           s == Now(self)
           h == Phase("load", self)
           k == Phase("load", self)'
           m == mem
           m2 == mem'
           f == file
           f2 == file'
<1>0. self \in Thread
  BY DEF Thread
<1>1. /\ AtStep(self) /\ StepOK(s) /\ Frame(self) /\ GoesOnWith(self) /\ job[self].prog = "boot"
      /\ \A key \in Key : f2[key] = f[key]
  BY <1>0, ByOperation, BootStep DEF AtStep
<1>2. Moves("load", self)
  BY <1>0, <1>1, PhaseMoves DEF GoesOnWith, Follows
<1>3. \A p \in Loaded : /\ p \notin MemOf(s) => m2[p] = m[p]
                        /\ f2[ReadFrom(p)] = f[ReadFrom(p)]
  BY <1>1, Keys DEF Frame
<1>4. ASSUME MemOf(s) = {}, k = h
      PROVE  LoadAt(k, m2, f2)
  BY <1>3, <1>4 DEF LoadAt
<1>5. ASSUME s.op = "read", s.name \in Loaded => s.arg = ReadFrom(s.name), k = h \cup {s.name}
      PROVE  LoadAt(k, m2, f2)
  <2>1. m2[s.name] = IF f[s.arg] = Absent THEN m[s.name] ELSE f[s.arg]
    BY <1>0, <1>5, ReadsWell
  <2>2. MemOf(s) = {s.name}
    BY <1>5 DEF MemOf
  <2>3. LoadAt(h, m, f)
    OBVIOUS
  <2> HIDE DEF m, m2, f, f2, h, k, s
  <2> QED
    BY <2>1, <2>2, <2>3, <1>3, <1>5 DEF LoadAt
<1>6. CASE job'[self].at = job[self].at + 1
  <2>1. LoadGoes(s, h, k)
    BY <1>2, <1>6 DEF Moves, Goes
  <2>2. k = {"default"} => LoadAt(k, m2, f2)
    BY Keys DEF LoadAt, Params
  <2> HIDE DEF m2, f2, h, k, s
  <2> QED
    BY <2>1, <2>2, <1>4, <1>5 DEF LoadGoes, k, m2, f2
<1>7. CASE s.op = "if" /\ job'[self].at = job[self].at + 1 + s.name
  <2>1. h = k
    BY <1>2, <1>7 DEF Moves, Skips
  <2>2. MemOf(s) = {}
    BY <1>7 DEF MemOf
  <2> QED
    BY <2>1, <2>2, <1>4
<1> QED
  BY <1>2, <1>6, <1>7 DEF Moves

\* What a request has changed with success, but the channel, which the watcher saves too.
Own(v) == (DOMAIN v \cap Durable) \ {"channel"}

\* It is in the file f; and the node runs with it, unless it is a role that does not exist.
InFile(v, f)   == \A p \in Own(v) : f[KeyOf[p]] = v[p]
InUse(v, m, r) == \A p \in Own(v) : (p = "type" => v.type \in {TypeG, TypeT}) =>
                    m[p] = v[p] /\ (p = "type" /\ r = NoRow => m.node_type = v.type)

\* What the threads have saved and read back.
Storing ==
  /\ job["http"].prog \in Filed =>
       /\ DOMAIN job["http"].local \cap Params = {}
       /\ FileAt(Phase(job["http"].prog, "http"), mem, job["http"].body, file)
  /\ job["main"].prog = "boot" => LoadAt(Phase("load", "main"), mem, file)
  /\ InFile(kept, file)
  /\ Quiet => InUse(kept, mem, row)

Stored ==
  /\ job["http"].prog \in Api => row # NoRow /\ kept = <<>>
  /\ Valued(kept)
  /\ "fault" \notin events => Storing

\* Nothing has been asked for.
LEMMA NothingKept ==
  /\ Valued(<<>>) /\ \A f : InFile(<<>>, f)
  /\ \A m, r : InUse(<<>>, m, r)
  /\ Filed \subseteq Api /\ "idle" \notin Api
<1>1. Own(<<>>) = {}
  BY DEF Own
<1>2. Filed \subseteq Api
  BY DEF Filed, Api, GetApi, PostApi
<1> QED
  BY <1>1, <1>2, Names, NoLits DEF InFile, InUse, Api

\* What writes none of it but the channel.
LEMMA StoredStays ==
  ASSUME Stored, events \subseteq events', kept' = kept, row' = NoRow <=> row = NoRow,
         job'["http"] = job["http"], job'["main"] = job["main"],
         \A p \in Params \ {"channel"} : mem'[p] = mem[p],
         \A k \in Key \ {"CHANNEL"} : file'[k] = file[k],
         job["main"].prog # "boot" \/ (mem' = mem /\ file' = file)
  PROVE  Stored'
<1>1. \A p \in Durable \ {"channel"} : mem'[p] = mem[p] /\ file'[KeyOf[p]] = file[KeyOf[p]]
  BY Keys
<1>2. "node_type" \in Params \ {"channel"}
  BY DEF Params
<1>3. \A g : Phase(g, "http")' = Phase(g, "http") /\ Phase(g, "main")' = Phase(g, "main")
  BY DEF Phase
<1>4. \A a, b : FileAt(a, mem, b, file) => FileAt(a, mem', b, file')
  BY <1>1 DEF FileAt
<1>5. \A v : InFile(v, file) => InFile(v, file')
  BY <1>1 DEF InFile, Own
<1>6. \A v : InUse(v, mem, row) => InUse(v, mem', row')
  BY <1>1, <1>2 DEF InUse, Own
<1>7. \A a : job["main"].prog = "boot" /\ LoadAt(a, mem, file) => LoadAt(a, mem', file')
  OBVIOUS
<1>8. Quiet' = Quiet
  BY DEF Quiet, Running
<1>9. Storing => Storing'
  <2> SUFFICES ASSUME Storing
               PROVE  Storing'
    OBVIOUS
  <2>1. job'["http"].prog \in Filed =>
          /\ DOMAIN job'["http"].local \cap Params = {}
          /\ FileAt(Phase(job["http"].prog, "http"), mem', job["http"].body, file')
    BY <1>4 DEF Storing
  <2>2. Phase(job["http"].prog, "http")' = Phase(job["http"].prog, "http")
    BY DEF Phase
  <2>3. job'["main"].prog = "boot" => LoadAt(Phase("load", "main")', mem', file')
    BY <1>3, <1>7 DEF Storing
  <2>4. InFile(kept', file') /\ (Quiet' => InUse(kept', mem', row'))
    BY <1>5, <1>6, <1>8 DEF Storing
  <2> QED
    BY <2>1, <2>2, <2>3, <2>4 DEF Storing
<1> QED
  BY <1>9 DEF Stored

\* A step of a thread.
LEMMA StoredSteps ==
  ASSUME Values, Jobs, BootsFirst, Stored, NEW self \in Thread, Step(self), ~Return(self)
  PROVE  Stored'
<1>1. AtStep(self) /\ Frame(self)
  BY Framed, ByOperation
<1>2. /\ \A t \in Thread \ {self} : job'[t] = job[t]
      /\ GoesOnWith(self) \/ IsRefused(self)
      /\ GoesOnWith(self) => /\ job'[self].prog = job[self].prog /\ job'[self].body = job[self].body
      /\ IsRefused(self) => job'[self] = Idle
      /\ row' = NoRow <=> row = NoRow
      /\ kept' = kept
  BY <1>1 DEF Frame, GoesOnWith, IsRefused, GoesOn, GivesUp, Advances
<1>3. events \subseteq events'
  BY EventsRemain DEF Next
<1>4. job["main"].prog = "done" \/ self = "main"
  BY <1>1, Names DEF BootsFirst, AtStep, Thread
<1>5. CASE self = "main"
  <2>1. /\ GoesOnWith(self) /\ job[self].prog = "boot" /\ \A k \in Key : file'[k] = file[k]
    BY <1>5, BootStep
  <2>2. job'["http"].prog = "idle" /\ job'["main"].prog = "boot"
    BY <2>1, <1>2, <1>5 DEF BootsFirst, Thread
  <2>3. "fault" \notin events' => LoadAt(Phase("load", "main")', mem', file')
    BY <2>1, <1>3, <1>5, LoadStep DEF Stored, Storing
  <2>4. InFile(kept, file) => InFile(kept', file')
    BY <2>1, <1>2, Keys DEF InFile, Own
  <2> QED
    BY <2>2, <2>3, <2>4, <1>2, <1>3, NothingKept DEF Stored, Storing, Quiet, Running
<1>6. CASE self = "watcher"
  <2>1. /\ job'["http"] = job["http"] /\ job'["main"] = job["main"]
        /\ \A p \in Params \ {"channel"} : mem'[p] = mem[p]
        /\ \A k \in Key \ {"CHANNEL"} : file'[k] = file[k]
    BY <1>2, <1>6, WatcherStep DEF Thread
  <2> QED
    BY <2>1, <1>2, <1>3, <1>4, <1>6, StoredStays
<1>7. CASE self = "http" /\ GoesOnWith(self)
  <2>1. job[self].prog \in Api
    BY <1>1, <1>7, ThreadsRun DEF AtStep
  <2>2. kept' = <<>> /\ row' # NoRow
    BY <2>1, <1>2, <1>7 DEF Stored
  <2>3. job'["main"].prog = "done" /\ ~Quiet'
    BY <2>1, <1>2, <1>4, <1>7, Names DEF Thread, Quiet, Api
  <2>4. ASSUME "fault" \notin events', job'["http"].prog \in Filed
        PROVE  /\ DOMAIN job'["http"].local \cap Params = {}
               /\ FileAt(Phase(job["http"].prog, "http")', mem', job'["http"].body, file')
    <3> DEFINE g == job["http"].prog
    <3>1. g \in Filed /\ Storing
      BY <2>4, <1>2, <1>3, <1>7 DEF Stored
    <3>2. DOMAIN job["http"].local \cap Params = {} /\ FileAt(Phase(g, "http"), mem, job["http"].body, file)
      BY <3>1 DEF Storing
    <3>3. Phase(g, "http")' = OutlineOf(job'["http"].prog, job'["http"].prog)[job'["http"].at]
      BY <1>2, <1>7 DEF Phase
    <3>4. \A x : x = g /\ x \in Filed =>
            /\ FileAt(OutlineOf(x, job'["http"].prog)[job'["http"].at], mem', job["http"].body, file')
            /\ DOMAIN job'["http"].local \cap Params = {}
      <4> SUFFICES ASSUME NEW x \in Filed, x = g
                   PROVE  /\ FileAt(OutlineOf(x, job'["http"].prog)[job'["http"].at],
                                    mem', job["http"].body, file')
                          /\ DOMAIN job'["http"].local \cap Params = {}
        OBVIOUS
      <4>1. FileAt(Phase(x, "http"), mem, job["http"].body, file) /\ job[self].prog = x
        BY <3>2, <1>7
      <4>2. /\ FileAt(Phase(x, "http")', mem', job["http"].body, file')
            /\ DOMAIN job'["http"].local \cap Params = {}
        BY <4>1, <3>2, <2>4, <1>1, <1>7, FileStep
      <4> QED
        BY <4>2 DEF Phase
    <3> QED
      BY <3>1, <3>3, <3>4, <1>2, <1>7
  <2>5. ASSUME "fault" \notin events', job'["http"].prog \in Filed
        PROVE  FileAt(Phase(job["http"].prog, "http")', mem', job'["http"].body, file')
    BY <2>4, <2>5
  <2> QED
    BY <2>2, <2>3, <2>4, <2>5, NothingKept, Names DEF Stored, Storing
<1>8. CASE self = "http" /\ IsRefused(self)
  <2>1. job'["http"].prog = "idle" /\ job'["main"].prog = "done" /\ "done" # "boot"
    BY <1>2, <1>4, <1>8 DEF Thread, Idle, Job
  <2>2. job[self].prog \in Api
    BY <1>1, <1>8, ThreadsRun DEF AtStep
  <2>3. kept' = <<>>
    BY <2>2, <1>2, <1>8 DEF Stored
  <2> QED
    BY <2>1, <2>3, NothingKept DEF Stored, Storing
<1> QED
  BY <1>2, <1>5, <1>6, <1>7, <1>8 DEF Thread

\* The end of a function: what the file has is what the node runs with after the boot,
\* and what a request has asked for is in both.
LEMMA StoredReturns ==
  ASSUME Values, Jobs, BootsFirst, Stored, NEW self \in Thread, Return(self)
  PROVE  Stored'
<1>1. /\ UNCHANGED <<mem, drv, file, events, row>> /\ job[self].prog \in DOMAIN Program
      /\ \A t \in Thread \ {self} : job'[t] = job[t]
      /\ self # "main" => job'[self] = Idle
      /\ self = "main" => job'[self] = Job("done", <<>>)
      /\ self # "http" => kept' = kept
      /\ self = "http" => kept' = [p \in SavedBy(job[self].prog) \cap DOMAIN job[self].body |-> job[self].body[p]]
  BY DEF Return, storage, Jobs
<1>2. Idle.prog = "idle" /\ Job("done", <<>>).prog = "done" /\ "done" # "boot" /\ "idle" # "boot"
  BY DEF Idle, Job
<1>3. job["main"].prog = "done" \/ self = "main"
  BY <1>1, Names DEF BootsFirst, Thread
<1>4. CASE self = "main"
  <2>1. job[self].prog = "boot" /\ job'["http"].prog = "idle" /\ job'["main"].prog = "done"
    BY <1>1, <1>2, <1>4, ThreadsRun DEF BootsFirst, Thread
  <2>2. ASSUME "fault" \notin events
        PROVE  InUse(kept, mem, row)
    <3>1. Loaded \subseteq Phase("load", "main")
      BY <2>1, <1>4, PhaseEnds DEF End, Filed, Follows
    <3>2. \A p \in Loaded : file[ReadFrom(p)] # Absent => mem[p] = file[ReadFrom(p)]
      BY <2>1, <2>2, <1>4, <3>1 DEF Stored, Storing, LoadAt
    <3>3. \A p \in Own(kept) : p \in Loaded /\ kept[p] \in Int /\ file[ReadFrom(p)] = kept[p]
      BY <2>2, Keys DEF Stored, Storing, InFile, Own, Valued, Loaded
    <3>4. \A p \in Own(kept) : mem[p] = kept[p]
      BY <3>2, <3>3, AbsentAssumption
    <3>5. "node_type" \in Loaded /\ ReadFrom("node_type") = ReadFrom("type") /\ "type" \in Durable
      BY DEF Loaded, ReadFrom, KeyOf, Durable
    <3>6. "type" \in Own(kept) => mem.node_type = kept.type
      BY <3>2, <3>3, <3>5, AbsentAssumption
    <3> QED
      BY <3>4, <3>6 DEF InUse
  <2> QED
    BY <2>1, <2>2, <1>1, <1>2, <1>4, NothingKept DEF Stored, Storing
<1>5. CASE self = "watcher"
  <2>1. job'["http"] = job["http"] /\ job'["main"] = job["main"]
    BY <1>1, <1>5 DEF Thread
  <2> QED
    BY <2>1, <1>1, <1>5, StoredStays
<1>6. CASE self = "http"
  <2> DEFINE a == job[self].prog
             b == job[self].body
  <2>1. a \in Api /\ Valued(b)
    BY <1>1, <1>6, ThreadsRun DEF Jobs, JobInv
  <2>2. job'["http"].prog = "idle" /\ job'["main"].prog = "done"
    BY <1>1, <1>2, <1>3, <1>6 DEF Thread
  <2>3. row # NoRow
    BY <2>1, <1>6 DEF Stored
  <2>4. \A p \in DOMAIN kept' : p \in SavedBy(a) /\ p \in DOMAIN b /\ kept'[p] = b[p]
    BY <1>1, <1>6
  <2>5. Valued(kept')
    BY <2>1, <2>4 DEF Valued
  <2>6. ASSUME "fault" \notin events, NEW p \in DOMAIN kept', p \in Durable, p # "channel"
        PROVE  mem[p] = kept'[p] /\ file[KeyOf[p]] = kept'[p]
    <3>1. a \in Filed /\ p \in Saves[a]
      BY <2>1, <2>4, <2>6, SavedWithin
    <3>2. FileAt(Phase(a, self), mem, b, file)
      BY <3>1, <2>6, <1>6 DEF Stored, Storing
    <3>3. Phase(a, self) \in {<<x, y>> : x, y \in {e \in SUBSET Params : Saves[a] \subseteq e}}
      <4>1. a \in DOMAIN Follows /\ a \in Follows[a]
        BY <3>1 DEF Follows, Filed
      <4>2. Phase(a, self) \in End(a, a)
        BY <4>1, PhaseEnds
      <4> QED
        BY <3>1, <4>2 DEF End, Filed
    <3>4. p \in Phase(a, self)[1] /\ p \in Phase(a, self)[2]
      BY <3>1, <3>3
    <3> QED
      BY <2>4, <2>6, <3>2, <3>4 DEF FileAt
  <2>7. "fault" \notin events => InFile(kept', file) /\ InUse(kept', mem, row)
    BY <2>3, <2>6 DEF InFile, InUse, Own
  <2> QED
    BY <2>2, <2>5, <2>7, <1>1, <1>2, NothingKept DEF Stored, Storing
<1> QED
  BY <1>4, <1>5, <1>6 DEF Thread

\* Every step of the specification.
LEMMA StoredNext ==
  ASSUME Values, Jobs, BootsFirst, Stored, [Next]_vars
  PROVE  Stored'
<1>1. ASSUME NEW self \in Thread, Step(self)
      PROVE  Stored'
  BY <1>1, StoredSteps, StoredReturns
<1>2. events \subseteq events'
  BY EventsRemain
<1>3. CASE Request
  <2>1. PICK a \in budget.apis : \E b \in Bodies[a] :
          \/ UNCHANGED <<job, kept>>
          \/ row # NoRow /\ job' = [job EXCEPT !["http"] = Job(a, b)] /\ kept' = <<>>
    BY <1>3 DEF Request
  <2>2. PICK b \in Bodies[a] :
          \/ UNCHANGED <<job, kept>>
          \/ row # NoRow /\ job' = [job EXCEPT !["http"] = Job(a, b)] /\ kept' = <<>>
    BY <2>1
  <2>3. UNCHANGED <<mem, file, row, events>> /\ Running /\ "done" # "boot"
    BY <1>3 DEF Request, storage
  <2>4. CASE UNCHANGED <<job, kept>>
    BY <2>3, <2>4, <1>2, StoredStays
  <2>5. CASE row # NoRow /\ job' = [job EXCEPT !["http"] = Job(a, b)] /\ kept' = <<>>
    <3>1. /\ job'["http"] = Job(a, b) /\ job'["main"].prog = "done"
          /\ Job(a, b).prog = a /\ Job(a, b).at = 1 /\ Job(a, b).local = <<>>
      BY <2>3, <2>5 DEF Jobs, Thread, Job, Running
    <3>2. a \in Api
      BY <1>3, RequestAssumption DEF Request, Values, Api
    <3>3. ASSUME a \in Filed
          PROVE  FileAt(Phase(a, "http")', mem, b, file)
      <4>1. a \in DOMAIN Follows /\ a \in Follows[a]
        BY <3>3 DEF Follows, Filed
      <4>2. OutlineOf(a, a)[1] = Begin(a, a)
        BY <4>1, Outlines DEF Drawn
      <4>3. Begin(a, a) = <<{}, {}>>
        BY <3>3 DEF Begin, Filed
      <4>4. Phase(a, "http")' = <<{}, {}>>
        BY <3>1, <4>2, <4>3 DEF Phase
      <4>5. <<{}, {}>>[1] = {}
        OBVIOUS
      <4> QED
        BY <4>4, <4>5 DEF FileAt
    <3>4. Phase(job["http"].prog, "http")' = Phase(a, "http")' /\ Job(a, b).body = b
      BY <3>1 DEF Phase, Job
    <3>5. DOMAIN <<>> \cap Params = {}
      OBVIOUS
    <3>6. ~Quiet'
      BY <3>1, <3>2, Names DEF Quiet, Api
    <3> QED
      BY <2>3, <2>5, <3>1, <3>3, <3>4, <3>5, <3>6, NothingKept DEF Stored, Storing
  <2> QED
    BY <2>2, <2>4, <2>5
<1>4. CASE Restart
  <2>1. job' = Booting /\ file' = file /\ kept' = kept
    BY <1>4 DEF Restart, Volatile
  <2>2. job'["http"].prog = "idle" /\ job'["main"].prog = "boot" /\ job'["main"].at = 1
    BY <2>1 DEF Booting, Idle, Job
  <2>3. Phase("load", "main")' = {}
    <3>1. OutlineOf("load", "boot")[1] = {}
      BY Outlines DEF Drawn, Follows, Begin, Filed
    <3> QED
      BY <2>2, <3>1 DEF Phase
  <2>4. \A m, f : LoadAt({}, m, f)
    BY DEF LoadAt
  <2>5. ~Quiet'
    BY <2>2 DEF Quiet, Running
  <2> QED
    BY <2>1, <2>2, <2>3, <2>4, <2>5, <1>2, NothingKept DEF Stored, Storing
<1>5. CASE wtsl_core_splink_node_service
  <2>1. /\ Running /\ row = NoRow
        /\ mem' = [mem EXCEPT !.type = IF mem.node_type = TypeG THEN TypeG ELSE TypeT]
        /\ UNCHANGED <<file, job, kept, events>>
    BY <1>5 DEF wtsl_core_splink_node_service, storage, rest
  <2>2. job["http"].prog \notin Api /\ job["main"].prog # "boot"
    BY <2>1 DEF Stored, Running
  <2>3. /\ \A p \in Params \ {"type"} : mem'[p] = mem[p]
        /\ mem'["type"] = IF mem.node_type = TypeG THEN TypeG ELSE TypeT
        /\ "node_type" \in Params
    BY <2>1 DEF Values, Params
  <2>4. Own(kept) \subseteq Params
    BY Keys DEF Own
  <2>5. InUse(kept, mem, row) => InUse(kept, mem', row')
    BY <2>1, <2>3, <2>4 DEF InUse
  <2>6. Quiet' = Quiet
    BY <2>1 DEF Quiet, Running
  <2> QED
    BY <2>1, <2>2, <2>5, <2>6, NothingKept DEF Stored, Storing
<1>6. CASE WatcherWakes \/ DriverMoves \/ UNCHANGED vars
  <2>1. /\ UNCHANGED <<mem, file, row, kept>>
        /\ job'["http"] = job["http"] /\ job'["main"] = job["main"]
    BY <1>6 DEF WatcherWakes, DriverMoves, vars, storage, rest, Jobs, Thread
  <2> QED
    BY <2>1, <1>2, StoredStays
<1> QED
  BY <1>1, <1>3, <1>4, <1>5, <1>6 DEF Next

\* Nothing has been asked for at first.
LEMMA StoredBegins == Init => Stored
<1> SUFFICES ASSUME Init
             PROVE  Stored
  OBVIOUS
<1>1. job = Booting /\ kept = <<>>
  BY DEF Init, Volatile
<1>2. job["http"].prog = "idle" /\ job["main"].prog = "boot" /\ job["main"].at = 1
  BY <1>1 DEF Booting, Idle, Job
<1>3. Phase("load", "main") = {}
  <2>1. OutlineOf("load", "boot")[1] = {}
    BY Outlines DEF Drawn, Follows, Begin, Filed
  <2> QED
    BY <1>2, <2>1 DEF Phase
<1>4. ~Quiet
  BY <1>2 DEF Quiet, Running
<1>5. \A m, f : LoadAt({}, m, f)
  BY DEF LoadAt
<1> QED
  BY <1>1, <1>2, <1>3, <1>4, <1>5, NothingKept DEF Stored, Storing

\* The channel v is the one in the structure, in the driver and in the file; and the
\* watcher will find nothing else.
SettledOn(v) ==
  /\ mem["channel"] = v /\ drv["channel"] = v /\ file["CHANNEL"] = v
  /\ job["watcher"].prog = "pass" =>
       /\ Phase("watch", "watcher") # 3
       /\ Phase("watch", "watcher") = 2 => job["watcher"].local["tmp_channel"] = v

\* What the watcher has asked for, and what it has not copied yet.
Looking ==
  job["watcher"].prog = "pass" =>
    /\ Phase("watch", "watcher") \in {0, 1, 2} => "channel" \notin DOMAIN job["watcher"].local
    /\ Phase("watch", "watcher") = 2 => "tmp_channel" \in DOMAIN job["watcher"].local

\* v names a channel that exists.
NamesChannel(v) == "channel" \in DOMAIN v /\ v["channel"] \in Channels

\* The boot gives the channel to the driver; and as long as the driver keeps it, a request
\* with success, and the boot after it, settle on the channel of the request.
Tuning ==
  /\ job["main"].prog = "boot" /\ Phase("boot", "main") = 1 /\ mem["channel"] \in Channels
       => drv["channel"] = mem["channel"]
  /\ "move" \notin events =>
       /\ /\ job["http"].prog = "set_basicinfo" /\ Phase("http", "http") = 16
          /\ NamesChannel(job["http"].body)
          => SettledOn(job["http"].body["channel"])
       /\ NamesChannel(kept) =>
            file["CHANNEL"] = kept["channel"] /\ (Running => SettledOn(kept["channel"]))

Tuned ==
  /\ Looking
  /\ job["main"].prog = "boot" => DOMAIN job["main"].local \cap Params = {}
  /\ "fault" \notin events => Tuning

\* A step of the watcher that finds the channel it expects.
LEMMA WatcherSettles ==
  ASSUME Values, Jobs, Looking, Step("watcher"), ~Return("watcher")
  PROVE  /\ Looking'
         /\ \A v : "fault" \notin events' /\ SettledOn(v) => SettledOn(v)'
<1> DEFINE self == "watcher"
           s == Now(self)
           l == job[self].local
           l2 == job'[self].local
           h == Phase("watch", self)
           k == Phase("watch", self)'
           m == mem["channel"]
           m2 == mem'["channel"]
           f == file["CHANNEL"]
           f2 == file'["CHANNEL"]
           Looks(x, y) == /\ x \in {0, 1, 2} => "channel" \notin DOMAIN y
                          /\ x = 2 => "tmp_channel" \in DOMAIN y
           Finds(v, x, y) == x # 3 /\ (x = 2 => y["tmp_channel"] = v)
<1>0. self \in Thread
  BY DEF Thread
<1>1. /\ AtStep(self) /\ StepOK(s) /\ Frame(self) /\ GoesOnWith(self) /\ Moves("watch", self)
      /\ job[self].prog = "pass" /\ drv'["channel"] = drv["channel"]
  BY <1>0, ByOperation, WatcherStep DEF AtStep, Radio, Params
<1>2. /\ "channel" \notin MemOf(s) => m2 = m
      /\ "CHANNEL" \notin FileOf(s) => f2 = f
      /\ \A x : x \notin LocalOf(s) => /\ x \in DOMAIN l2 <=> x \in DOMAIN l
                                       /\ x \in DOMAIN l => l2[x] = l[x]
      /\ s.op = "query" => s.name[2] \in DOMAIN l2
      /\ job'[self].prog = "pass"
  BY <1>1 DEF Frame, GoesOnWith, GoesOn, Advances, Params, Key
<1>3. Looks(h, l)
  BY <1>1 DEF Looking
<1>4. ASSUME "fault" \notin events', s.op = "query",
             s.name[1] = "channel", s.name[2] = "tmp_channel"
      PROVE  l2["tmp_channel"] = drv["channel"]
  BY <1>0, <1>4, ReadsWell
<1>5. ASSUME s.lits = <<>>, s.arg = "channel moved", h = 2, m = l["tmp_channel"]
      PROVE  ~Holds(self, s.arg)
  <2>1. "channel" \notin DOMAIN l /\ "tmp_channel" \in DOMAIN l
    BY <1>3, <1>5
  <2> QED
    BY <2>1, <1>0, <1>5, TestsOne
<1>6. ASSUME "fault" \notin events', s.op = "if"
      PROVE  \/ Holds(self, s.arg) /\ job'[self].at = job[self].at + 1
             \/ ~Holds(self, s.arg) /\ job'[self].at = job[self].at + 1 + s.name
  BY <1>0, <1>6, TestsWell
<1>7. WatchGoes(s, h, k) \/ (s.op = "if" /\ WatchSkips(s, h, k))
  BY <1>1 DEF Moves, Goes, Skips
<1>8. ASSUME s.op = "if"
      PROVE  LocalOf(s) = {} /\ MemOf(s) = {} /\ FileOf(s) = {}
  BY <1>8 DEF LocalOf, MemOf, FileOf
<1>9. ASSUME Queries(s, "slb_get_channel", "channel", "tmp_channel")
      PROVE  /\ s.op = "query" /\ s.name[1] = "channel" /\ s.name[2] = "tmp_channel"
             /\ LocalOf(s) = {"tmp_channel"} /\ MemOf(s) = {} /\ FileOf(s) = {}
  BY <1>9 DEF LocalOf, MemOf, FileOf, Queries
<1>10. ASSUME s.op \in {"lock", "unlock"}
       PROVE  LocalOf(s) = {} /\ MemOf(s) = {} /\ FileOf(s) = {}
  BY <1>10 DEF LocalOf, MemOf, FileOf
<1> HIDE DEF s, l, l2, h, k, m, m2, f, f2
<1>11. Looks(k, l2)
  <2>1. CASE LocalOf(s) = {} /\ (k = h \/ (k = 1 /\ h = 0))
    BY <2>1, <1>2, <1>3
  <2>2. CASE Queries(s, "slb_get_channel", "channel", "tmp_channel") /\ h = 1 /\ k = 2
    BY <2>2, <1>2, <1>3, <1>9
  <2>3. CASE k \in {3, 4, 5}
    BY <2>3
  <2>4. \/ WatchFree(s) /\ k = h
        \/ s.op = "lock" /\ h = 0 /\ k = 1
        \/ Queries(s, "slb_get_channel", "channel", "tmp_channel") /\ h = 1 /\ k = 2
        \/ k = 3 \/ k = 4 \/ k = 5
        \/ s.op = "if" /\ k = h
    BY <1>7, Zenon DEF WatchGoes, WatchSkips
  <2> QED
    BY <2>1, <2>2, <2>3, <2>4, <1>8, <1>10 DEF WatchFree
<1>12. ASSUME NEW v, "fault" \notin events', m = v, drv["channel"] = v, f = v, Finds(v, h, l)
       PROVE  m2 = v /\ f2 = v /\ Finds(v, k, l2)
  <2>1. CASE WatchFree(s) /\ k = h
    BY <2>1, <1>2, <1>3, <1>12 DEF WatchFree
  <2>2. CASE s.op \in {"lock", "unlock"} /\ k \in {1, 5}
    BY <2>2, <1>2, <1>10, <1>12
  <2>3. CASE Queries(s, "slb_get_channel", "channel", "tmp_channel") /\ k = 2
    BY <2>3, <1>2, <1>4, <1>9, <1>12
  <2>4. ASSUME s.op # "if" \/ Holds(self, s.arg), WatchGoes(s, h, k)
        PROVE  m2 = v /\ f2 = v /\ Finds(v, k, l2)
    BY <2>1, <2>2, <2>3, <2>4, <1>5, <1>12 DEF WatchGoes
  <2>5. ASSUME s.op = "if", WatchSkips(s, h, k)
        PROVE  m2 = v /\ f2 = v /\ Finds(v, k, l2)
    <3>1. k = h \/ k = 4
      BY <2>5, Zenon DEF WatchSkips
    <3> QED
      BY <2>5, <3>1, <1>2, <1>3, <1>8, <1>12
  <2>6. CASE s.op = "if" /\ Holds(self, s.arg) /\ job'[self].at = job[self].at + 1
    <3>1. WatchGoes(s, h, k)
      BY <2>6, <1>1 DEF Moves, Goes, s, h, k
    <3> QED
      BY <3>1, <2>4, <2>6
  <2>7. CASE s.op = "if" /\ ~Holds(self, s.arg) /\ job'[self].at = job[self].at + 1 + s.name
    <3>1. WatchSkips(s, h, k)
      BY <2>7, <1>1 DEF Moves, Skips, s, h, k
    <3> QED
      BY <3>1, <2>5, <2>7
  <2> QED
    BY <2>4, <2>6, <2>7, <1>6, <1>7, <1>12
<1>13. Looking'
  BY <1>11 DEF Looking, k, l2
<1>14. ASSUME NEW v, "fault" \notin events', SettledOn(v)
       PROVE  SettledOn(v)'
  <2>1. m = v /\ drv["channel"] = v /\ f = v /\ Finds(v, h, l)
    BY <1>1, <1>14 DEF SettledOn, m, f, h, l
  <2>2. m2 = v /\ f2 = v /\ Finds(v, k, l2)
    BY <2>1, <1>12, <1>14
  <2> QED
    BY <2>1, <2>2, <1>1 DEF SettledOn, m2, f2, k, l2
<1> QED
  BY <1>13, <1>14

\* What touches neither the channel nor the watcher.
LEMMA SettledStays ==
  ASSUME NEW v, SettledOn(v), job'["watcher"] = job["watcher"],
         mem'["channel"] = mem["channel"], drv'["channel"] = drv["channel"],
         file'["CHANNEL"] = file["CHANNEL"]
  PROVE  SettledOn(v)'
BY DEF SettledOn, Phase

\* What moves no thread and no channel but the driver's.
LEMMA TunedStays ==
  ASSUME Tuned, events \subseteq events', kept' = kept, job' = job,
         mem'["channel"] = mem["channel"],
         drv'["channel"] = drv["channel"] \/ ("move" \in events' /\ job["main"].prog # "boot"),
         file'["CHANNEL"] = file["CHANNEL"]
  PROVE  Tuned'
<1>1. Looking'
  BY DEF Tuned, Looking, Phase
<1>2. \A g, t : Phase(g, t)' = Phase(g, t)
  BY DEF Phase
<1>3. "move" \notin events' => \A v : SettledOn(v) => SettledOn(v)'
  BY SettledStays
<1>4. Running' = Running
  BY DEF Running
<1> QED
  BY <1>1, <1>2, <1>3, <1>4 DEF Tuned, Tuning

\* A step of the boot.
LEMMA BootTunes ==
  ASSUME Values, Jobs, Tuned, Step("main"), ~Return("main")
  PROVE  /\ DOMAIN job'["main"].local \cap Params = {}
         /\ "fault" \notin events' /\ Phase("boot", "main")' = 1 /\ mem'["channel"] \in Channels
              => drv'["channel"] = mem'["channel"]
<1> DEFINE self == "main"
           s == Now(self)
           h == Phase("boot", self)
           k == Phase("boot", self)'
<1>0. self \in Thread
  BY DEF Thread
<1>1. /\ Frame(self) /\ GoesOnWith(self) /\ Moves("boot", self) /\ job[self].prog = "boot"
      /\ NoLocals(s)
  BY <1>0, BootStep
<1>2. DOMAIN job[self].local \cap Params = {} /\ "channel" \in Params /\ "channel" \in Radio
  BY <1>1 DEF Tuned, Params, Radio
<1>3. DOMAIN job'[self].local \cap Params = {}
  BY <1>1, <1>2 DEF GoesOnWith, NoLocals
<1>4. ASSUME "fault" \notin events', Sets(s, "slb_set_channel"), mem'["channel"] \in Channels
      PROVE  drv'["channel"] = mem'["channel"]
  <2>1. /\ drv'["channel"] = IF mem["channel"] \in Legal["channel"] THEN mem["channel"] ELSE drv["channel"]
        /\ mem' = mem
    BY <1>0, <1>2, <1>4, SetsOne
  <2> QED
    BY <2>1, <1>4 DEF Legal
<1>5. ASSUME "fault" \notin events', "channel" \notin MemOf(s) \cup DrvOf(s), h = 1,
             mem'["channel"] \in Channels
      PROVE  drv'["channel"] = mem'["channel"]
  <2>1. mem'["channel"] = mem["channel"] /\ drv'["channel"] = drv["channel"]
    BY <1>1, <1>2, <1>5 DEF Frame
  <2>2. "fault" \notin events
    BY <1>0, <1>5, EventsRemain DEF Next
  <2> QED
    BY <2>1, <2>2, <1>1, <1>5 DEF Tuned, Tuning
<1>6. /\ BootGoes(s, h, k) \/ (s.op = "if" /\ h = k)
  BY <1>1 DEF Moves, Goes, Skips
<1>7. s.op = "if" => MemOf(s) = {} /\ DrvOf(s) = {}
  BY DEF MemOf, DrvOf
<1> HIDE DEF s, h, k
<1>8. ASSUME "fault" \notin events', k = 1, mem'["channel"] \in Channels
      PROVE  drv'["channel"] = mem'["channel"]
  BY <1>4, <1>5, <1>6, <1>7, <1>8 DEF BootGoes
<1> QED
  BY <1>3, <1>8 DEF k

\* The last steps of a request to set the parameters: the mutex is released, and the
\* watcher, which has not asked the driver in the meantime, will find the new channel.
LEMMA HttpSettles ==
  ASSUME Values, Jobs, Placed, Applying, Tuned, NEW self \in Thread, self = "http", Step(self), ~Return(self),
         GoesOnWith(self), job[self].prog = "set_basicinfo",
         events' \cap {"fault", "move"} = {}, Phase("http", self)' = 16,
         NamesChannel(job[self].body)
  PROVE  SettledOn(job[self].body["channel"])'
<1> DEFINE s == Now(self)
           b == job[self].body
           h == Phase("http", self)
           k == Phase("http", self)'
           v == b["channel"]
<1>1. AtStep(self) /\ Frame(self) /\ events \cap {"fault", "move"} = {}
  BY Framed, ByOperation, EventsRemain DEF Next
<1>2. job[self].prog \in Api /\ "http" \in DOMAIN Follows /\ job[self].prog \in Follows["http"]
  BY <1>1, ThreadsRun DEF AtStep, Follows
<1>3. Moves("http", self)
  BY <1>1, <1>2, PhaseMoves DEF GoesOnWith
<1>4. job'["watcher"] = job["watcher"]
  BY DEF GoesOnWith, GoesOn, Advances, Thread
<1>5. "channel" \in Params \cap Radio /\ "CHANNEL" \in Key /\ "channel" \in Watched
  BY DEF Params, Radio, Key, Watched
<1>6. ASSUME h = 16
      PROVE  SettledOn(v)
  BY <1>1, <1>6 DEF Tuned, Tuning
<1>7. ASSUME h = 15
      PROVE  SettledOn(v)
  <2>1. HttpAt(15, mem, drv, job[self].local, b, file["CHANNEL"])
    BY <1>1, <1>2, <1>7 DEF Applying
  <2>2. Took("channel", b, mem) /\ Did("channel", b, drv) /\ file["CHANNEL"] = v
    BY <2>1 DEF HttpAt, NamesChannel
  <2>3. mem["channel"] = v /\ drv["channel"] = v
    BY <2>2 DEF Took, Did, NamesChannel, Legal
  <2>4. lock = "http"
    BY <1>2, <1>7 DEF Placed, HttpPlaced
  <2>5. job["watcher"].prog = "pass" => Phase("watch", "watcher") \notin 1 .. 4
    BY <2>4 DEF Placed, WatchPlaced
  <2>6. job["watcher"].prog = "pass" => Phase("watch", "watcher") # 2 /\ Phase("watch", "watcher") # 3
    BY <2>5
  <2> QED
    BY <2>2, <2>3, <2>6 DEF SettledOn
<1>8. ASSUME HttpFree(s) \/ s.op \in {"if", "unlock"}
      PROVE  /\ "channel" \notin MemOf(s) /\ "channel" \notin DrvOf(s) /\ "CHANNEL" \notin FileOf(s)
  BY <1>5, <1>8 DEF HttpFree, MemOf, DrvOf, FileOf
<1>9. HttpGoes(s, h, k) \/ (s.op = "if" /\ HttpSkips(s, h, k))
  BY <1>3 DEF Moves, Goes, Skips
<1>10. k = 16
  OBVIOUS
<1> HIDE DEF s, h, k, v, b
<1>11. \/ h = 16 /\ (HttpFree(s) \/ s.op = "if")
       \/ h = 15 /\ s.op = "unlock"
  BY <1>9, <1>10 DEF HttpGoes, HttpSkips
<1>12. SettledOn(v)
  BY <1>6, <1>7, <1>11
<1>13. /\ mem'["channel"] = mem["channel"] /\ drv'["channel"] = drv["channel"]
       /\ file'["CHANNEL"] = file["CHANNEL"]
  BY <1>1, <1>5, <1>8, <1>11 DEF Frame, s
<1>14. ASSUME NEW c, c = v
       PROVE  SettledOn(c)'
  <2>1. SettledOn(c)
    BY <1>12, <1>14
  <2> QED
    BY <2>1, <1>4, <1>13, SettledStays
<1>15. job'[self].body = job[self].body
  BY DEF GoesOnWith, GoesOn, Advances
<1>16. PICK c : c = v
  OBVIOUS
<1>17. SettledOn(c)' /\ job'[self].body["channel"] = c
  BY <1>14, <1>15, <1>16 DEF v, b
<1> QED
  BY <1>17 DEF SettledOn

\* A step of a thread.
LEMMA TunedSteps ==
  ASSUME Values, Jobs, BootsFirst, Placed, Applying, Stored, Tuned,
         NEW self \in Thread, Step(self), ~Return(self)
  PROVE  Tuned'
<1>1. AtStep(self) /\ Frame(self)
  BY Framed, ByOperation
<1>2. /\ \A t \in Thread \ {self} : job'[t] = job[t]
      /\ GoesOnWith(self) \/ IsRefused(self)
      /\ GoesOnWith(self) => /\ job'[self].prog = job[self].prog /\ job'[self].body = job[self].body
      /\ IsRefused(self) => job'[self] = Idle
      /\ kept' = kept
  BY <1>1 DEF Frame, GoesOnWith, IsRefused, GoesOn, GivesUp, Advances
<1>3. events \subseteq events'
  BY EventsRemain DEF Next
<1>4. job["main"].prog = "done" \/ self = "main"
  BY <1>1, Names DEF BootsFirst, AtStep, Thread
<1>5. "idle" # "pass" /\ "idle" # "set_basicinfo" /\ "done" # "boot" /\ Idle.prog = "idle"
      /\ "channel" \notin DOMAIN <<>> /\ "set_basicinfo" \in Api
  BY DEF Idle, Job, Api, PostApi
<1>6. CASE self = "main"
  <2>1. /\ GoesOnWith(self) /\ job[self].prog = "boot" /\ file'["CHANNEL"] = file["CHANNEL"]
    BY <1>6, BootStep DEF Key
  <2>2. /\ job'["http"].prog = "idle" /\ job'["watcher"].prog = "idle" /\ job'["main"].prog = "boot"
    BY <2>1, <1>2, <1>6 DEF BootsFirst, Thread
  <2>3. Tuning /\ "fault" \notin events' => Tuning'
    BY <2>1, <2>2, <1>2, <1>3, <1>5, <1>6, BootTunes DEF Tuning, Running
  <2> QED
    BY <2>2, <2>3, <1>3, <1>5, <1>6, BootTunes DEF Tuned, Looking
<1>7. CASE self = "watcher"
  <2>1. /\ job'["http"] = job["http"] /\ job'["main"] = job["main"]
    BY <1>2, <1>7 DEF Thread
  <2>2. Looking' /\ \A v : "fault" \notin events' /\ SettledOn(v) => SettledOn(v)'
    BY <1>7, WatcherSettles DEF Tuned
  <2>3. Phase("http", "http")' = Phase("http", "http") /\ Running' = Running
    BY <2>1 DEF Phase, Running
  <2>4. ASSUME "fault" \notin events', "move" \notin events'
        PROVE  /\ job["http"].prog = "set_basicinfo" /\ Phase("http", "http") = 16
                  /\ NamesChannel(job["http"].body)
                  => SettledOn(job["http"].body["channel"])'
               /\ NamesChannel(kept) /\ Running => SettledOn(kept["channel"])'
    <3>1. Tuning
      BY <2>4, <1>3 DEF Tuned
    <3>2. \A v, w : /\ v = job["http"].body["channel"] => job'["http"].body["channel"] = v
                    /\ w = kept["channel"] => kept'["channel"] = w
      BY <2>1, <1>2
    <3>3. ASSUME job["http"].prog = "set_basicinfo", Phase("http", "http") = 16,
                 NamesChannel(job["http"].body)
          PROVE  SettledOn(job["http"].body["channel"])'
      <4>1. PICK v : v = job["http"].body["channel"]
        OBVIOUS
      <4>2. SettledOn(v)
        BY <4>1, <3>1, <3>3, <2>4, <1>3 DEF Tuning
      <4> QED
        BY <4>1, <4>2, <3>2, <2>2, <2>4 DEF SettledOn
    <3>4. ASSUME NamesChannel(kept), Running
          PROVE  SettledOn(kept["channel"])'
      <4>1. PICK v : v = kept["channel"]
        OBVIOUS
      <4>2. SettledOn(v)
        BY <4>1, <3>1, <3>4, <2>4, <1>3 DEF Tuning
      <4> QED
        BY <4>1, <4>2, <3>2, <2>2, <2>4 DEF SettledOn
    <3> QED
      BY <3>3, <3>4
  <2>5. NamesChannel(kept) => job["main"].prog = "done"
    BY <1>4, <1>7
  <2>6. ASSUME "fault" \notin events'
        PROVE  Tuning'
    <3>1. job'["main"].prog # "boot"
      BY <2>1, <1>4, <1>5, <1>7
    <3>2. NamesChannel(kept') /\ "move" \notin events' =>
            file'["CHANNEL"] = kept'["channel"] /\ SettledOn(kept["channel"])'
      <4> SUFFICES ASSUME NamesChannel(kept'), "move" \notin events'
                   PROVE  file'["CHANNEL"] = kept'["channel"] /\ SettledOn(kept["channel"])'
        OBVIOUS
      <4>1. SettledOn(kept["channel"])'
        BY <2>4, <2>5, <2>6, <1>2 DEF NamesChannel, Running
      <4> QED
        BY <4>1 DEF SettledOn
    <3>3. ASSUME "move" \notin events', job'["http"].prog = "set_basicinfo",
                 Phase("http", "http")' = 16, NamesChannel(job'["http"].body)
          PROVE  SettledOn(job["http"].body["channel"])'
      BY <2>1, <2>3, <2>4, <2>6, <3>3
    <3> QED
      BY <3>1, <3>2, <3>3 DEF Tuning, NamesChannel
  <2> QED
    BY <2>1, <2>2, <2>6 DEF Tuned
<1>8. CASE self = "http" /\ GoesOnWith(self)
  <2>1. job[self].prog \in Api
    BY <1>1, <1>8, ThreadsRun DEF AtStep
  <2>2. kept' = <<>>
    BY <2>1, <1>2, <1>8 DEF Stored
  <2>3. job'["main"].prog = "done" /\ job'["watcher"] = job["watcher"]
    BY <1>2, <1>4, <1>8 DEF Thread
  <2>4. Looking'
    BY <2>3 DEF Tuned, Looking, Phase
  <2>5. ASSUME events' \cap {"fault", "move"} = {}, job'["http"].prog = "set_basicinfo",
               Phase("http", "http")' = 16, NamesChannel(job'["http"].body)
        PROVE  SettledOn(job["http"].body["channel"])'
    BY <2>5, <1>2, <1>8, HttpSettles
  <2>6. "fault" \notin events' => Tuning'
    BY <2>2, <2>3, <2>5, <1>5 DEF Tuning, NamesChannel
  <2> QED
    BY <2>3, <2>4, <2>6, <1>5 DEF Tuned
<1>9. CASE self = "http" /\ IsRefused(self)
  <2>1. /\ job'["http"].prog = "idle" /\ job'["main"].prog = "done"
        /\ job'["watcher"] = job["watcher"]
    BY <1>2, <1>4, <1>5, <1>9 DEF Thread
  <2>2. job[self].prog \in Api
    BY <1>1, <1>9, ThreadsRun DEF AtStep
  <2>3. kept' = <<>>
    BY <2>2, <1>2, <1>9 DEF Stored
  <2>4. Looking'
    BY <2>1 DEF Tuned, Looking, Phase
  <2> QED
    BY <2>1, <2>3, <2>4, <1>5 DEF Tuned, Tuning, NamesChannel
<1> QED
  BY <1>2, <1>6, <1>7, <1>8, <1>9 DEF Thread

\* The end of a function.
LEMMA TunedReturns ==
  ASSUME Values, Jobs, BootsFirst, Stored, Tuned, NEW self \in Thread, Return(self)
  PROVE  Tuned'
<1>1. /\ UNCHANGED <<mem, drv, file, events, row>> /\ job[self].prog \in DOMAIN Program
      /\ \A t \in Thread \ {self} : job'[t] = job[t]
      /\ self # "main" => job'[self] = Idle
      /\ self = "main" => job'[self] = Job("done", <<>>)
      /\ self # "http" => kept' = kept
      /\ self = "http" => kept' = [p \in SavedBy(job[self].prog) \cap DOMAIN job[self].body |-> job[self].body[p]]
  BY DEF Return, storage, Jobs
<1>2. /\ Idle.prog = "idle" /\ Job("done", <<>>).prog = "done" /\ "done" # "boot" /\ "idle" # "boot"
      /\ "idle" # "pass" /\ "idle" # "set_basicinfo"
  BY DEF Idle, Job
<1>3. job["main"].prog = "done" \/ self = "main"
  BY <1>1, Names DEF BootsFirst, Thread
<1>4. CASE self = "main"
  <2>1. /\ job[self].prog = "boot" /\ job'["http"].prog = "idle" /\ job'["main"].prog = "done"
        /\ job'["watcher"].prog = "idle" /\ job["main"].prog # "done"
    BY <1>1, <1>2, <1>4, ThreadsRun DEF BootsFirst, Thread
  <2>2. ASSUME "fault" \notin events, "move" \notin events, NamesChannel(kept)
        PROVE  /\ mem["channel"] = kept["channel"] /\ drv["channel"] = kept["channel"]
               /\ file["CHANNEL"] = kept["channel"]
    <3>1. Loaded \subseteq Phase("load", "main")
      BY <2>1, <1>4, PhaseEnds DEF End, Filed, Follows
    <3>2. Phase("boot", "main") = 1
      BY <2>1, <1>4, PhaseEnds DEF End, Filed, Follows
    <3>3. "channel" \in Loaded /\ ReadFrom("channel") = "CHANNEL" /\ "channel" \in Params
      BY DEF Loaded, ReadFrom, KeyOf, Durable, Params
    <3>4. file["CHANNEL"] # Absent => mem["channel"] = file["CHANNEL"]
      BY <2>1, <2>2, <1>4, <3>1, <3>3 DEF Stored, Storing, LoadAt
    <3>5. file["CHANNEL"] = kept["channel"] /\ kept["channel"] \in Int
      BY <2>2, <3>3 DEF Tuned, Tuning, Stored, Valued, NamesChannel
    <3>6. mem["channel"] = kept["channel"]
      BY <3>4, <3>5, AbsentAssumption
    <3> QED
      BY <2>1, <2>2, <1>4, <3>2, <3>5, <3>6 DEF Tuned, Tuning, NamesChannel
  <2>3. "fault" \notin events' => Tuning'
    BY <2>1, <2>2, <1>1, <1>2, <1>4 DEF Tuning, SettledOn
  <2> QED
    BY <2>1, <2>3, <1>2 DEF Tuned, Looking
<1>5. CASE self = "watcher"
  <2>1. /\ job'["http"] = job["http"] /\ job'["main"] = job["main"] /\ job'["watcher"].prog = "idle"
    BY <1>1, <1>2, <1>5 DEF Thread
  <2>2. \A g : Phase(g, "http")' = Phase(g, "http") /\ Phase(g, "main")' = Phase(g, "main")
    BY <2>1 DEF Phase
  <2>3. Tuning => Tuning'
    BY <2>1, <2>2, <1>1, <1>2, <1>5 DEF Tuning, SettledOn, Running
  <2> QED
    BY <2>1, <2>3, <1>1, <1>2 DEF Tuned, Looking
<1>6. CASE self = "http"
  <2> DEFINE a == job[self].prog
             b == job[self].body
  <2>1. a \in Api
    BY <1>1, <1>6, ThreadsRun
  <2>2. /\ job'["http"].prog = "idle" /\ job'["main"].prog = "done"
        /\ job'["watcher"] = job["watcher"]
    BY <1>1, <1>2, <1>3, <1>6 DEF Thread
  <2>3. Looking'
    BY <2>2 DEF Tuned, Looking, Phase
  <2>4. ASSUME events \cap {"fault", "move"} = {}, NamesChannel(kept')
        PROVE  file["CHANNEL"] = kept'["channel"] /\ SettledOn(kept'["channel"])
    <3>1. "channel" \in SavedBy(a) /\ "channel" \in DOMAIN b /\ kept'["channel"] = b["channel"]
      BY <2>4, <1>1, <1>6 DEF NamesChannel
    <3>2. a = "set_basicinfo"
      BY <2>1, <3>1, SavedWithin DEF Durable, Filed, Saves
    <3>3. Phase("http", "http") = 16
      BY <2>1, <3>2, <1>6, PhaseEnds DEF End, Filed, Follows
    <3>4. SettledOn(b["channel"])
      BY <2>4, <3>1, <3>2, <3>3, <1>6 DEF Tuned, Tuning, NamesChannel
    <3> QED
      BY <3>1, <3>4 DEF SettledOn
  <2>5. ASSUME NEW v, SettledOn(v)
        PROVE  SettledOn(v)'
    BY <2>2, <2>5, <1>1, SettledStays
  <2>6. ASSUME events \cap {"fault", "move"} = {}, NamesChannel(kept')
        PROVE  SettledOn(kept["channel"])'
    <3>1. PICK v : v = kept'["channel"]
      OBVIOUS
    <3>2. SettledOn(v)'
      BY <2>4, <2>5, <2>6, <3>1
    <3> QED
      BY <3>1, <3>2 DEF SettledOn
  <2>7. "fault" \notin events' => Tuning'
    BY <2>2, <2>4, <2>6, <1>1, <1>2 DEF Tuning, NamesChannel
  <2> QED
    BY <2>2, <2>3, <2>7, <1>2 DEF Tuned
<1> QED
  BY <1>4, <1>5, <1>6 DEF Thread

\* Every step of the specification.
LEMMA TunedNext ==
  ASSUME Values, Jobs, BootsFirst, Placed, Applying, Stored, Tuned, [Next]_vars
  PROVE  Tuned'
<1>1. ASSUME NEW self \in Thread, Step(self)
      PROVE  Tuned'
  BY <1>1, TunedSteps, TunedReturns
<1>2. events \subseteq events'
  BY EventsRemain
<1>3. CASE Request
  <2>1. PICK a \in budget.apis : \E b \in Bodies[a] :
          \/ UNCHANGED <<job, kept>>
          \/ job' = [job EXCEPT !["http"] = Job(a, b)] /\ kept' = <<>>
    BY <1>3 DEF Request
  <2>2. PICK b \in Bodies[a] :
          \/ UNCHANGED <<job, kept>>
          \/ job' = [job EXCEPT !["http"] = Job(a, b)] /\ kept' = <<>>
    BY <2>1
  <2>3. UNCHANGED <<mem, drv, file, events>> /\ Running /\ "done" # "boot"
    BY <1>3 DEF Request, storage
  <2>4. CASE UNCHANGED <<job, kept>>
    BY <2>3, <2>4, <1>2, TunedStays
  <2>5. CASE job' = [job EXCEPT !["http"] = Job(a, b)] /\ kept' = <<>>
    <3>1. /\ job'["http"] = Job(a, b) /\ job'["main"].prog = "done"
          /\ job'["watcher"] = job["watcher"]
          /\ Job(a, b).prog = a /\ Job(a, b).at = 1
      BY <2>3, <2>5 DEF Jobs, Thread, Job, Running
    <3>2. a \in Api
      BY <1>3, RequestAssumption DEF Request, Values, Api
    <3>3. Phase("http", "http")' = 0
      <4>1. OutlineOf("http", a)[1] = 0
        BY <3>2, Outlines DEF Drawn, Follows, Begin, Filed
      <4> QED
        BY <3>1, <4>1 DEF Phase
    <3>4. Looking'
      BY <3>1 DEF Tuned, Looking, Phase
    <3>5. "channel" \notin DOMAIN <<>>
      OBVIOUS
    <3> QED
      BY <2>3, <2>5, <3>1, <3>3, <3>4, <3>5 DEF Tuned, Tuning, NamesChannel
  <2> QED
    BY <2>2, <2>4, <2>5
<1>4. CASE Restart
  <2>1. job' = Booting /\ file' = file /\ kept' = kept
    BY <1>4 DEF Restart, Volatile
  <2>2. /\ job'["http"].prog = "idle" /\ job'["watcher"].prog = "idle"
        /\ job'["main"].prog = "boot" /\ job'["main"].at = 1 /\ job'["main"].local = <<>>
    BY <2>1 DEF Booting, Idle, Job
  <2>3. Phase("boot", "main")' = 0
    <3>1. OutlineOf("boot", "boot")[1] = 0
      BY Outlines DEF Drawn, Follows, Begin, Filed
    <3> QED
      BY <2>2, <3>1 DEF Phase
  <2>4. ~Running' /\ DOMAIN <<>> \cap Params = {}
    BY <2>2 DEF Running
  <2> QED
    BY <2>1, <2>2, <2>3, <2>4, <1>2 DEF Tuned, Tuning, Looking
<1>5. CASE WatcherWakes
  <2>1. /\ UNCHANGED <<mem, drv, file, kept, events>>
        /\ job'["http"] = job["http"] /\ job'["main"] = job["main"]
        /\ job'["watcher"] = Job("pass", <<>>)
    BY <1>5 DEF WatcherWakes, storage, rest, Jobs, Thread
  <2>2. Phase("watch", "watcher")' = 0
    <3>1. OutlineOf("watch", "pass")[1] = 0
      BY Outlines DEF Drawn, Follows, Begin, Filed
    <3> QED
      BY <2>1, <3>1 DEF Phase, Job
  <2>3. job'["watcher"].local = <<>> /\ DOMAIN <<>> = {}
    BY <2>1 DEF Job
  <2>4. Looking'
    BY <2>2, <2>3 DEF Looking
  <2>5. \A g : Phase(g, "http")' = Phase(g, "http") /\ Phase(g, "main")' = Phase(g, "main")
    BY <2>1 DEF Phase
  <2>6. Tuning => Tuning'
    BY <2>1, <2>2, <2>5 DEF Tuning, SettledOn, Running
  <2> QED
    BY <2>1, <2>4, <2>6 DEF Tuned
<1>6. CASE wtsl_core_splink_node_service
  <2>1. /\ mem' = [mem EXCEPT !.type = IF mem.node_type = TypeG THEN TypeG ELSE TypeT]
        /\ UNCHANGED <<drv, file, job, kept>>
    BY <1>6 DEF wtsl_core_splink_node_service, storage, rest
  <2>2. mem'["channel"] = mem["channel"]
    BY <2>1 DEF Values, Params
  <2> QED
    BY <2>1, <2>2, <1>2, TunedStays
<1>7. CASE DriverMoves
  <2>1. /\ UNCHANGED <<mem, file, job, kept>>
        /\ "move" \in events' /\ job["main"].prog # "boot"
    BY <1>7 DEF DriverMoves, rest, Running
  <2> QED
    BY <2>1, <1>2, TunedStays
<1>8. CASE UNCHANGED vars
  BY <1>2, <1>8, TunedStays DEF vars
<1> QED
  BY <1>1, <1>3, <1>4, <1>5, <1>6, <1>7, <1>8 DEF Next

\* Before the boot no channel has been asked for.
LEMMA TunedBegins == Init => Tuned
<1> SUFFICES ASSUME Init
             PROVE  Tuned
  OBVIOUS
<1>1. job = Booting /\ kept = <<>>
  BY DEF Init, Volatile
<1>2. /\ job["http"].prog = "idle" /\ job["watcher"].prog = "idle"
      /\ job["main"].prog = "boot" /\ job["main"].at = 1 /\ job["main"].local = <<>>
  BY <1>1 DEF Booting, Idle, Job
<1>3. Phase("boot", "main") = 0
  <2>1. OutlineOf("boot", "boot")[1] = 0
    BY Outlines DEF Drawn, Follows, Begin, Filed
  <2> QED
    BY <1>2, <2>1 DEF Phase
<1>4. DOMAIN <<>> = {}
  OBVIOUS
<1> QED
  BY <1>1, <1>2, <1>3, <1>4 DEF Tuned, Tuning, Looking, NamesChannel

-----------------------------------------------------------------------------
(***************************************************************************)
(* What is saved, and not read back                                        *)
(***************************************************************************)
ForgottenIn(f) == Lost \cup (IF f["ACS_ENABLE"] = Absent THEN {"aifh_enable"} ELSE {})

\* The structure has the defaults of it.
FreshAt(m, f) == \A p \in ForgottenIn(f) : m[p] = Factory[p]

Fresh ==
  /\ file["SYMBOL_TYPE"] = Absent
  /\ "fault" \notin events =>
       /\ job["main"].prog = "boot" /\ "default" \in Phase("load", "main") => FreshAt(mem, file)
       /\ Quiet /\ answer.api = "none" => FreshAt(mem, file)

LEMMA Omitted ==
  /\ \A f : ForgottenIn(f) \subseteq Params \ {"channel", "type"}
  /\ \A f : ForgottenIn(f) \subseteq Lost \cup {"aifh_enable"}
  /\ \A m, m2, f, f2 :
       /\ FreshAt(m, f) /\ f2["ACS_ENABLE"] = f["ACS_ENABLE"]
       /\ \A p \in Params \ {"channel", "type"} : m2[p] = m[p]
       => FreshAt(m2, f2)
  /\ {"ACS_ENABLE", "SYMBOL_TYPE"} \subseteq Key \ {"CHANNEL"}
  /\ "none" \notin Api /\ "idle" \notin Api /\ "default" \notin Params
<1>1. \A f : ForgottenIn(f) \subseteq Params \ {"channel", "type"}
  BY DEF ForgottenIn, Lost, Params
<1>2. \A f : ForgottenIn(f) \subseteq Lost \cup {"aifh_enable"}
  BY DEF ForgottenIn
<1>3. ASSUME NEW m, NEW m2, NEW f, NEW f2, FreshAt(m, f), f2["ACS_ENABLE"] = f["ACS_ENABLE"],
             \A p \in Params \ {"channel", "type"} : m2[p] = m[p]
      PROVE  FreshAt(m2, f2)
  <2>1. ForgottenIn(f2) = ForgottenIn(f)
    BY <1>3 DEF ForgottenIn
  <2> QED
    BY <1>1, <1>3, <2>1 DEF FreshAt
<1>4. {"ACS_ENABLE", "SYMBOL_TYPE"} \subseteq Key \ {"CHANNEL"}
  BY DEF Key
<1>5. "none" \notin Api /\ "idle" \notin Api /\ "default" \notin Params
  BY DEF Api, GetApi, PostApi, Params
<1> QED
  BY <1>1, <1>2, <1>3, <1>4, <1>5

\* Nobody saves the key that the boot reads.
LEMMA NeverSaved ==
  ASSUME Values, Jobs, file["SYMBOL_TYPE"] = Absent, NEW self \in Thread, Step(self),
         ~Return(self)
  PROVE  file'["SYMBOL_TYPE"] = Absent
<1> DEFINE s == Now(self)
<1>1. AtStep(self) /\ StepOK(s) /\ Frame(self)
  BY Framed, ByOperation DEF AtStep
<1>2. CASE s.op = "remove"
  <2>1. RemoveFile(self)
    BY <1>2, ByOperation
  <2> QED
    BY <2>1, Omitted DEF RemoveFile
<1>3. CASE s.op # "remove"
  <2>1. "SYMBOL_TYPE" \notin FileOf(s)
    BY <1>1, <1>3 DEF FileOf, StepOK, Saved
  <2> QED
    BY <2>1, <1>1, Omitted DEF Frame
<1> QED
  BY <1>2, <1>3

\* A step of the boot: the defaults, and what is read over them.
LEMMA FreshStep ==
  ASSUME Values, Jobs, Step("main"), ~Return("main"), "fault" \notin events',
         file["SYMBOL_TYPE"] = Absent,
         "default" \in Phase("load", "main") => FreshAt(mem, file),
         "default" \in Phase("load", "main")'
  PROVE  FreshAt(mem', file')
<1> DEFINE self == "main"
           s == Now(self)
           h == Phase("load", self)
           k == Phase("load", self)'
           m == mem
           m2 == mem'
           f == file
           f2 == file'
<1>0. self \in Thread
  BY DEF Thread
<1>1. /\ AtStep(self) /\ StepOK(s) /\ Frame(self) /\ GoesOnWith(self) /\ job[self].prog = "boot"
      /\ \A key \in Key : f2[key] = f[key]
  BY <1>0, ByOperation, BootStep DEF AtStep
<1>2. Moves("load", self)
  BY <1>0, <1>1, PhaseMoves DEF GoesOnWith, Follows
<1>3. /\ f2["ACS_ENABLE"] = f["ACS_ENABLE"]
      /\ \A p \in Params : p \notin MemOf(s) => m2[p] = m[p]
  BY <1>1, Omitted DEF Frame
<1>4. ASSUME MemOf(s) = {}, k = h
      PROVE  FreshAt(m2, f2)
  <2>1. FreshAt(m, f)
    BY <1>4
  <2> QED
    BY <2>1, <1>3, <1>4, Omitted
<1>5. ASSUME s.op = "read", s.name \in Loaded => s.arg = ReadFrom(s.name),
             s.name \in Lost => s.arg = "SYMBOL_TYPE", k = h \cup {s.name}
      PROVE  FreshAt(m2, f2)
  <2>1. m2[s.name] = IF f[s.arg] = Absent THEN m[s.name] ELSE f[s.arg]
    BY <1>0, <1>5, ReadsWell
  <2>2. MemOf(s) = {s.name} /\ s.name \in Params
    BY <1>1, <1>5 DEF MemOf, StepOK
  <2>3. FreshAt(m, f)
    BY <2>2, <1>5, Omitted
  <2>4. f["SYMBOL_TYPE"] = Absent
    OBVIOUS
  <2>5. "aifh_enable" \in Loaded /\ ReadFrom("aifh_enable") = "ACS_ENABLE"
    BY DEF Loaded, Durable, ReadFrom, KeyOf
  <2>6. ForgottenIn(f2) = ForgottenIn(f)
    BY <1>3 DEF ForgottenIn
  <2> HIDE DEF m, m2, f, f2, h, k, s
  <2>7. ASSUME NEW p \in ForgottenIn(f)
        PROVE  m2[p] = m[p]
    <3>1. p \in Params /\ (p \in Lost \/ (p = "aifh_enable" /\ f["ACS_ENABLE"] = Absent))
      BY Omitted DEF ForgottenIn
    <3>2. CASE p # s.name
      BY <3>1, <3>2, <2>2, <1>3
    <3>3. CASE p = s.name
      <4>1. f[s.arg] = Absent
        BY <3>1, <3>3, <2>4, <2>5, <1>5
      <4> QED
        BY <4>1, <3>3, <2>1
    <3> QED
      BY <3>2, <3>3
  <2> QED
    BY <2>3, <2>6, <2>7 DEF FreshAt
<1>6. ASSUME <<s>> = param_default
      PROVE  FreshAt(m2, f2)
  <2>1. s.op = "default" /\ Factory = s.lits /\ Lost \cup {"aifh_enable"} \subseteq DOMAIN s.lits
    <3>1. \E v : param_default = Default(v) /\ Lost \cup {"aifh_enable"} \subseteq DOMAIN v
      BY DEF param_default, Lost
    <3>2. PICK v : param_default = Default(v) /\ Lost \cup {"aifh_enable"} \subseteq DOMAIN v
      BY <3>1
    <3>3. <<s>>[1] = s /\ Default(v)[1].op = "default" /\ Default(v)[1].lits = v
      BY DEF Default
    <3> HIDE DEF s
    <3>4. param_default[1] = s /\ s.op = "default" /\ s.lits = v
      BY <3>2, <3>3, <1>6
    <3> QED
      BY <3>2, <3>4 DEF Factory
  <2>2. \A p \in DOMAIN s.lits : m2[p] = s.lits[p]
    BY <1>0, <2>1, ReadsWell
  <2> HIDE DEF s, m2, f2
  <2> QED
    BY <2>1, <2>2, Omitted DEF FreshAt
<1>7. CASE job'[self].at = job[self].at + 1
  <2>1. LoadGoes(s, h, k)
    BY <1>2, <1>7 DEF Moves, Goes
  <2> HIDE DEF m2, f2, h, k, s
  <2> QED
    BY <2>1, <1>4, <1>5, <1>6 DEF LoadGoes, m2, f2
<1>8. CASE s.op = "if" /\ job'[self].at = job[self].at + 1 + s.name
  <2>1. h = k
    BY <1>2, <1>8 DEF Moves, Skips
  <2>2. MemOf(s) = {}
    BY <1>8 DEF MemOf
  <2> QED
    BY <2>1, <2>2, <1>4
<1> QED
  BY <1>2, <1>7, <1>8 DEF Moves

\* What leaves the boot, the requests and the parameters alone.
LEMMA FreshStays ==
  ASSUME Fresh, events \subseteq events', answer' = answer, Quiet' = Quiet,
         job["main"].prog = "done", job'["main"] = job["main"],
         \A p \in Params \ {"channel", "type"} : mem'[p] = mem[p],
         \A k \in Key \ {"CHANNEL"} : file'[k] = file[k]
  PROVE  Fresh'
<1>1. file'["SYMBOL_TYPE"] = file["SYMBOL_TYPE"] /\ file'["ACS_ENABLE"] = file["ACS_ENABLE"]
  BY Omitted
<1>2. FreshAt(mem, file) => FreshAt(mem', file')
  BY <1>1, Omitted
<1>3. job'["main"].prog # "boot"
  OBVIOUS
<1> QED
  BY <1>1, <1>2, <1>3 DEF Fresh

\* A step of a thread.
LEMMA FreshSteps ==
  ASSUME Values, Jobs, BootsFirst, Fresh, NEW self \in Thread, Step(self)
  PROVE  Fresh'
<1>1. events \subseteq events'
  BY EventsRemain DEF Next
<1>2. CASE ~Return(self)
  <2>1. AtStep(self) /\ Frame(self) /\ file'["SYMBOL_TYPE"] = Absent
    BY <1>2, Framed, ByOperation, NeverSaved DEF Fresh
  <2>2. /\ \A t \in Thread \ {self} : job'[t] = job[t]
        /\ \/ answer' = answer /\ job'[self].prog = job[self].prog
           \/ answer'.api = job[self].prog /\ job'[self].prog = "idle"
    BY <2>1 DEF Frame, GoesOnWith, IsRefused, GoesOn, GivesUp, Advances, Idle, Job
  <2>3. job["main"].prog = "done" \/ self = "main"
    BY <2>1, Names DEF BootsFirst, AtStep, Thread
  <2>4. CASE self = "main"
    <3>1. GoesOnWith(self) /\ job[self].prog = "boot"
      BY <1>2, <2>4, BootStep
    <3>2. job'["main"].prog = "boot" /\ ~Quiet'
      BY <3>1, <2>4 DEF GoesOnWith, GoesOn, Advances, Quiet, Running
    <3>3. "fault" \notin events' /\ "default" \in Phase("load", "main")' => FreshAt(mem', file')
      BY <3>1, <1>1, <1>2, <2>4, FreshStep DEF Fresh
    <3> QED
      BY <3>2, <3>3, <2>1 DEF Fresh
  <2>5. CASE self = "watcher"
    <3>1. /\ job'["http"] = job["http"] /\ job'["main"] = job["main"] /\ answer' = answer
          /\ \A p \in Params \ {"channel"} : mem'[p] = mem[p]
          /\ \A k \in Key \ {"CHANNEL"} : file'[k] = file[k]
      BY <1>2, <2>2, <2>5, WatcherStep DEF Thread, GoesOnWith
    <3>2. Quiet' = Quiet
      BY <3>1 DEF Quiet, Running
    <3> QED
      BY <3>1, <3>2, <1>1, <2>3, <2>5, FreshStays
  <2>6. CASE self = "http"
    <3>1. job[self].prog \in Api
      BY <2>1, <2>6, ThreadsRun DEF AtStep
    <3>2. job'["main"].prog = "done"
      BY <2>2, <2>3, <2>6 DEF Thread
    <3>3. ~(Quiet' /\ answer'.api = "none")
      BY <3>1, <2>2, <2>6, Omitted DEF Quiet
    <3> QED
      BY <3>2, <3>3, <2>1 DEF Fresh
  <2> QED
    BY <2>4, <2>5, <2>6 DEF Thread
<1>3. CASE Return(self)
  <2>1. /\ UNCHANGED <<mem, file, events>> /\ job[self].prog \in DOMAIN Program
        /\ \A t \in Thread \ {self} : job'[t] = job[t]
        /\ self = "main" => job'[self].prog = "done"
        /\ self # "http" => answer' = answer
        /\ self = "http" => answer'.api = job[self].prog
    BY <1>3 DEF Return, storage, Jobs, Job
  <2>2. job["main"].prog = "done" \/ self = "main"
    BY <2>1, Names DEF BootsFirst, Thread
  <2>3. CASE self = "main"
    <3>1. job[self].prog = "boot" /\ job'["main"].prog = "done"
      BY <2>1, <2>3, ThreadsRun
    <3>2. "default" \in Phase("load", "main")
      BY <3>1, <1>3, <2>3, PhaseEnds DEF End, Filed, Follows
    <3> QED
      BY <3>1, <3>2, <2>1, <2>3 DEF Fresh
  <2>4. CASE self = "watcher"
    <3>1. job'["http"] = job["http"] /\ job'["main"] = job["main"]
      BY <2>1, <2>4 DEF Thread
    <3>2. Quiet' = Quiet
      BY <3>1 DEF Quiet, Running
    <3> QED
      BY <3>1, <3>2, <1>1, <2>1, <2>2, <2>4, FreshStays
  <2>5. CASE self = "http"
    <3>1. job[self].prog \in Api /\ job'["main"].prog = "done"
      BY <2>1, <2>2, <2>5, ThreadsRun DEF Thread
    <3> QED
      BY <3>1, <2>1, <2>5, Omitted DEF Fresh
  <2> QED
    BY <2>3, <2>4, <2>5 DEF Thread
<1> QED
  BY <1>2, <1>3

\* Every step of the specification.
LEMMA FreshNext ==
  ASSUME Values, Jobs, BootsFirst, Fresh, [Next]_vars
  PROVE  Fresh'
<1>1. events \subseteq events'
  BY EventsRemain
<1>2. ASSUME NEW self \in Thread, Step(self)
      PROVE  Fresh'
  BY <1>2, FreshSteps
<1>3. CASE Request
  <2>1. PICK a \in budget.apis : \E b \in Bodies[a] :
          \/ answer'.api = a /\ UNCHANGED job
          \/ job' = [job EXCEPT !["http"] = Job(a, b)]
    BY <1>3 DEF Request
  <2>2. a \in Api
    BY <1>3, RequestAssumption DEF Request, Values, Api
  <2>3. UNCHANGED <<mem, file, events>> /\ Running /\ "done" # "boot"
    BY <1>3 DEF Request, storage
  <2>4. job'["main"] = job["main"]
    BY <2>1 DEF Jobs, Thread
  <2>5. ~(Quiet' /\ answer'.api = "none")
    <3>1. CASE answer'.api = a
      BY <3>1, <2>2, Omitted
    <3>2. CASE \E b \in Bodies[a] : job' = [job EXCEPT !["http"] = Job(a, b)]
      <4>1. job'["http"].prog = a
        BY <3>2 DEF Jobs, Thread, Job
      <4> QED
        BY <4>1, <2>2, Omitted DEF Quiet
    <3> QED
      BY <2>1, <3>1, <3>2
  <2> QED
    BY <2>3, <2>4, <2>5 DEF Fresh, Running
<1>4. CASE Restart
  <2>1. job' = Booting /\ file' = file
    BY <1>4 DEF Restart, Volatile
  <2>2. job'["main"].prog = "boot" /\ job'["main"].at = 1
    BY <2>1 DEF Booting, Job
  <2>3. Phase("load", "main")' = {}
    <3>1. OutlineOf("load", "boot")[1] = {}
      BY Outlines DEF Drawn, Follows, Begin, Filed
    <3> QED
      BY <2>2, <3>1 DEF Phase
  <2>4. ~Quiet'
    BY <2>2 DEF Quiet, Running
  <2> QED
    BY <2>1, <2>3, <2>4 DEF Fresh
<1>5. CASE wtsl_core_splink_node_service \/ WatcherWakes
  <2>1. /\ Running /\ UNCHANGED <<file, answer>>
        /\ job'["http"] = job["http"] /\ job'["main"] = job["main"]
        /\ \A p \in Params \ {"channel", "type"} : mem'[p] = mem[p]
    BY <1>5 DEF wtsl_core_splink_node_service, WatcherWakes, storage, Jobs, Thread, Values
  <2>2. Quiet' = Quiet
    BY <2>1 DEF Quiet, Running
  <2> QED
    BY <2>1, <2>2, <1>1, FreshStays DEF Running
<1>6. CASE DriverMoves \/ UNCHANGED vars
  <2>1. UNCHANGED <<mem, file, answer, job>>
    BY <1>6 DEF DriverMoves, vars
  <2> QED
    BY <2>1, <1>1 DEF Fresh, Phase, Quiet, Running
<1> QED
  BY <1>2, <1>3, <1>4, <1>5, <1>6 DEF Next

\* The file is empty at first.
LEMMA FreshBegins == Init => Fresh
<1> SUFFICES ASSUME Init
             PROVE  Fresh
  OBVIOUS
<1>1. job = Booting /\ file["SYMBOL_TYPE"] = Absent
  BY Omitted DEF Init, Volatile
<1>2. job["main"].prog = "boot" /\ job["main"].at = 1
  BY <1>1 DEF Booting, Job
<1>3. Phase("load", "main") = {}
  <2>1. OutlineOf("load", "boot")[1] = {}
    BY Outlines DEF Drawn, Follows, Begin, Filed
  <2> QED
    BY <1>2, <2>1 DEF Phase
<1>4. ~Quiet
  BY <1>2 DEF Quiet, Running
<1> QED
  BY <1>1, <1>3, <1>4 DEF Fresh

-----------------------------------------------------------------------------
\* After the next restart, whether it is a reboot or a loss of power, and at whatever step
\* the threads are, the node runs with what a request has changed with success, where the
\* handlers save it under the key that config_read reads (the watcher, which saves the
\* driver's channel, finds the one asked for); and with the defaults where they save it
\* under another key, although the request has succeeded.
THEOREM AcknowledgedLasts == Spec => []AcknowledgedSurvives
<1> DEFINE Inv == IInv /\ Placed /\ Applying /\ Stored /\ Tuned /\ Fresh
<1>1. Inv => AcknowledgedSurvives
  <2> SUFFICES ASSUME Inv, "fault" \notin events, Quiet, row # NoRow, answer.api = "none"
               PROVE  /\ \A p \in DOMAIN kept \cap Durable : Lasts(p) => mem[p] = kept[p]
                      /\ \A p \in Forgotten : mem[p] = Factory[p]
    BY DEF AcknowledgedSurvives
  <2>1. Storing /\ Tuning
    BY DEF Stored, Tuned
  <2>2. ASSUME NEW p \in DOMAIN kept \cap Durable, Lasts(p)
        PROVE  mem[p] = kept[p]
    <3>1. CASE p = "channel"
      <4>1. NamesChannel(kept) /\ "move" \notin events
        BY <2>2, <3>1 DEF Lasts, NamesChannel
      <4> QED
        BY <2>1, <3>1, <4>1 DEF Tuning, SettledOn, Quiet
    <3>2. CASE p # "channel"
      <4>1. p \in Own(kept) /\ (p = "type" => kept.type \in {TypeG, TypeT})
        BY <2>2, <3>2 DEF Own, Lasts
      <4> QED
        BY <2>1, <4>1 DEF Storing, InUse
    <3> QED
      BY <3>1, <3>2
  <2>3. Forgotten = ForgottenIn(file)
    BY DEF Forgotten, ForgottenIn, Lost
  <2> QED
    BY <2>2, <2>3 DEF Fresh, FreshAt
<1>2. Init => Inv
  BY InitIInv, PlacedBegins, ApplyingBegins, StoredBegins, TunedBegins, FreshBegins
<1>3. Inv /\ [Next]_vars => Inv'
  BY NextIInv, PlacedNext, ApplyingNext, StoredNext, TunedNext, FreshNext DEF IInv
<1> QED
  BY <1>1, <1>2, <1>3, PTL DEF Spec
==============================================================================
