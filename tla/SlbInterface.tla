---------------------------- MODULE SlbInterface ----------------------------
(***************************************************************************)
(* The wrappers of wtsl_core_slb_interface.c around the SLB driver.        *)
(*                                                                         *)
(* A setter checks its arguments, takes the interface down when the driver *)
(* wants it down, issues one iwpriv command and returns 0 or -1.  It is a  *)
(* record of what it does with the values m of the parameters:             *)
(*   valid   the arguments pass the checks (otherwise: -1, nothing done)   *)
(*   down    it takes the interface down before the command                *)
(*   writes  the driver parameters the command sets                        *)
(*   up      it brings the interface up after a command that succeeded     *)
(* A getter runs one iwpriv command and parses what it prints.  It is a    *)
(* record of the value it reads in the driver state d and of the values it *)
(* returns when the command or the parsing fails.                          *)
(*                                                                         *)
(* Numbers are the code's.  A text (a name, an address, a password) is a   *)
(* number too: 0 stands for every text the wrappers refuse (empty, too     *)
(* long, too short, not printable), other numbers for texts they accept.   *)
(***************************************************************************)
EXTENDS Integers

\* The one value v of the parameter p; and the values f, with those of g for
\* what f says nothing of.
Value(p, v) == [x \in {p} |-> v]

Over(f, g) ==
    [x \in DOMAIN f \cup DOMAIN g |-> IF x \in DOMAIN f THEN f[x] ELSE g[x]]

\* Roles of a node (NODE_TYPE_SLB_G, NODE_TYPE_SLB_T).
TypeG == 0
TypeT == 1

\* What the node keeps about its radio, in global_node_info.node_info
\* (basic_info and adv_info) and, for most of them, in the driver as well.
Params == {"type", "channel", "bw", "tfc_bw", "cell_id", "cc_offset", "name",
           "ip", "password", "cp_type", "symbol_type", "sysmsg_period",
           "s_cfg_idx", "sec_exch_cap", "range_opt", "power", "fisa_enable",
           "aifh_enable", "log_port", "net_manage_ip", "auto_join", "mac",
           "node_type"}

\* Those of them that are in the driver as well.
Radio == Params \ {"log_port", "net_manage_ip", "auto_join", "node_type"}

(***************************************************************************)
(* Setters                                                                 *)
(***************************************************************************)
Setter(valid, writes) ==
    [valid |-> valid, down |-> TRUE, writes |-> writes, up |-> FALSE]

\* The setters that leave the interface as it is.
HotSetter(valid, writes) ==
    [valid |-> valid, down |-> FALSE, writes |-> writes, up |-> FALSE]

Channels == {41, 125, 209, 291, 375, 459, 541, 625, 709, 791, 1375, 1459,
             1541, 1625, 1709, 1791, 1875, 1959, 2041, 2125, 2209, 2291,
             2479, 2563, 2645, 2729, 2813}

Bandwidths == {20, 40, 80}

TextOk(text) == text # 0

set_mac_address(m) == Setter(TextOk(m.mac), Value("mac", m.mac))

slb_set_channel(m) == Setter(m.channel \in Channels, Value("channel", m.channel))

slb_set_bw(m) == Setter(m.bw \in Bandwidths, Value("bw", m.bw))

slb_set_tfc_bw(m) == Setter(m.tfc_bw \in Bandwidths, Value("tfc_bw", m.tfc_bw))

slb_set_cc_start_pos(m) ==
    Setter(m.cc_offset \in 0..3, Value("cc_offset", m.cc_offset))

slb_set_cell_id(m) == Setter(m.cell_id \in 0..19, Value("cell_id", m.cell_id))

slb_set_essid(m) == Setter(TextOk(m.name), Value("name", m.name))

slb_set_range_opt(m) ==
    Setter(m.range_opt \in 0..1, Value("range_opt", m.range_opt))

\* The symbol types a cyclic prefix and a frame configuration allow: the
\* smallest depends on the configuration, the largest on the prefix.  A
\* configuration out of range is left to the last check of the wrapper.
SymbolTypes(cp_type, s_cfg_idx) ==
    (IF s_cfg_idx = 2 THEN 1 ELSE 2) ..
    (CASE cp_type \in 0..1 -> 5 [] cp_type = 2 -> 4 [] OTHER -> 3)

\* The four MIB parameters are checked together and set by one command; it
\* is the only setter that brings the interface up again.
slb_set_mib_params(m) ==
    [valid  |-> /\ m.cp_type \in 0..3
                /\ m.s_cfg_idx \in 0..2
                /\ m.symbol_type \in SymbolTypes(m.cp_type, m.s_cfg_idx)
                /\ m.sysmsg_period \in 0..3,
     down   |-> TRUE,
     writes |-> [p \in {"cp_type", "symbol_type", "sysmsg_period",
                        "s_cfg_idx"} |-> m[p]],
     up     |-> TRUE]

slb_set_sec_auth_pwd(m) ==
    HotSetter(TextOk(m.password), Value("password", m.password))

slb_set_sec_exch_cap(m) ==
    HotSetter(m.sec_exch_cap \in 1..33, Value("sec_exch_cap", m.sec_exch_cap))

slb_set_tx_power(m) == HotSetter(m.power \in -310..250, Value("power", m.power))

\* Any value but 0 enables FISA; the comparison of the bandwidths before it
\* only writes a warning to the log.
slb_set_fisa_enable(m) ==
    HotSetter(TRUE, Value("fisa_enable", IF m.fisa_enable = 0 THEN 0 ELSE 1))

slb_set_acs_enable(m) ==
    HotSetter(m.aifh_enable \in 0..1, Value("aifh_enable", m.aifh_enable))

\* The bridge br0 gets the address of the node; the results of its commands
\* are or-ed together and then overwritten, so it never reports a failure.
init_net_bridge(m) == HotSetter(TRUE, Value("ip", m.ip))

\* The device is created with the role of the node: anything but G makes it T.
slb_create_device(m) ==
    HotSetter(TRUE, Value("type", IF m.type = TypeG THEN TypeG ELSE TypeT))

\* The commands two handlers issue themselves, without the wrappers.
set_acs_enable(m) == HotSetter(TRUE, Value("aifh_enable", m.aifh_enable))

bss_chan_switch(m) == HotSetter(TRUE, Value("channel", m.channel))

\* The setter of that name.
SetterNamed(w, m) ==
    CASE w = "set_mac_address"      -> set_mac_address(m)
      [] w = "slb_set_channel"      -> slb_set_channel(m)
      [] w = "slb_set_bw"           -> slb_set_bw(m)
      [] w = "slb_set_tfc_bw"       -> slb_set_tfc_bw(m)
      [] w = "slb_set_cc_start_pos" -> slb_set_cc_start_pos(m)
      [] w = "slb_set_cell_id"      -> slb_set_cell_id(m)
      [] w = "slb_set_essid"        -> slb_set_essid(m)
      [] w = "slb_set_range_opt"    -> slb_set_range_opt(m)
      [] w = "slb_set_mib_params"   -> slb_set_mib_params(m)
      [] w = "slb_set_sec_auth_pwd" -> slb_set_sec_auth_pwd(m)
      [] w = "slb_set_sec_exch_cap" -> slb_set_sec_exch_cap(m)
      [] w = "slb_set_tx_power"     -> slb_set_tx_power(m)
      [] w = "slb_set_fisa_enable"  -> slb_set_fisa_enable(m)
      [] w = "slb_set_acs_enable"   -> slb_set_acs_enable(m)
      [] w = "init_net_bridge"      -> init_net_bridge(m)
      [] w = "slb_create_device"    -> slb_create_device(m)
      [] w = "set_acs_enable"       -> set_acs_enable(m)
      [] w = "bss_chan_switch"      -> bss_chan_switch(m)

(***************************************************************************)
(* Getters                                                                 *)
(***************************************************************************)
Getter(value, errors) == [value |-> value, errors |-> errors]

\* -1: popen failed.  0: no line of the output could be parsed.
slb_get_channel(d) == Getter(Value("channel", d.channel), {0, -1})

slb_get_bw(d) == Getter(Value("bw", d.bw), {0, -1})

slb_get_tfc_bw(d) == Getter(Value("tfc_bw", d.tfc_bw), {0, -1})

slb_get_cc_start_pos(d) == Getter(Value("cc_offset", d.cc_offset), {0, -1})

slb_get_cell_id(d) == Getter(Value("cell_id", d.cell_id), {0, -1})

slb_get_acs_enable(d) == Getter(Value("aifh_enable", d.aifh_enable), {0, -1})

slb_get_range_opt(d) == Getter(Value("range_opt", d.range_opt), {0, -1})

slb_get_sec_exch_cap(d) == Getter(Value("sec_exch_cap", d.sec_exch_cap), {-1})

\* Without a line that names all four parameters the caller's stay.
slb_get_mib_params(d) ==
    Getter([p \in {"cp_type", "symbol_type", "sysmsg_period", "s_cfg_idx"}
              |-> d[p]], {})

\* What sync_advinfo reads for display only.  Of these the model keeps where
\* the value comes from: read from the driver, an error value of the getter,
\* or still the uninitialised memory of the structure.
Observed == {"chip_temperature", "sec_sec_cap", "pps_enable", "lce_mode",
             "timestamp", "wds_mode", "user_mcs", "real_power", "user_rssi",
             "fem_check", "devid"}

\* A reading whose getter returns a value in every case.
Reading(x) == Getter(Value(x, "read"), {"error"})

\* A reading whose getter fills a structure, and leaves it alone on failure.
StructReading(x) == Getter(Value(x, "read"), {})

slb_get_chip_temperature == Reading("chip_temperature")

slb_get_sec_sec_cap == Reading("sec_sec_cap")

slb_get_pps_switch == Reading("pps_enable")

slb_get_lce_mode == Reading("lce_mode")

get_wt_vap_interface_count == Reading("devid")

slb_get_timestamp_cnt == StructReading("timestamp")

slb_get_wds_mode == StructReading("wds_mode")

slb_get_real_power == StructReading("real_power")

slb_fem_check == StructReading("fem_check")

\* Both fail as well when the driver lists no user.
slb_get_view_mcs_info == StructReading("user_mcs")

slb_get_rssi_info == StructReading("user_rssi")

\* The getter of that name, in the driver state d.
GetterNamed(w, d) ==
    CASE w = "slb_get_channel"            -> slb_get_channel(d)
      [] w = "slb_get_bw"                 -> slb_get_bw(d)
      [] w = "slb_get_tfc_bw"             -> slb_get_tfc_bw(d)
      [] w = "slb_get_cc_start_pos"       -> slb_get_cc_start_pos(d)
      [] w = "slb_get_cell_id"            -> slb_get_cell_id(d)
      [] w = "slb_get_acs_enable"         -> slb_get_acs_enable(d)
      [] w = "slb_get_range_opt"          -> slb_get_range_opt(d)
      [] w = "slb_get_sec_exch_cap"       -> slb_get_sec_exch_cap(d)
      [] w = "slb_get_mib_params"         -> slb_get_mib_params(d)
      [] w = "slb_get_chip_temperature"   -> slb_get_chip_temperature
      [] w = "slb_get_sec_sec_cap"        -> slb_get_sec_sec_cap
      [] w = "slb_get_pps_switch"         -> slb_get_pps_switch
      [] w = "slb_get_lce_mode"           -> slb_get_lce_mode
      [] w = "get_wt_vap_interface_count" -> get_wt_vap_interface_count
      [] w = "slb_get_timestamp_cnt"      -> slb_get_timestamp_cnt
      [] w = "slb_get_wds_mode"           -> slb_get_wds_mode
      [] w = "slb_get_real_power"         -> slb_get_real_power
      [] w = "slb_fem_check"              -> slb_fem_check
      [] w = "slb_get_view_mcs_info"      -> slb_get_view_mcs_info
      [] w = "slb_get_rssi_info"          -> slb_get_rssi_info
=============================================================================
