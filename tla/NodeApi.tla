------------------------------ MODULE NodeApi ------------------------------
(***************************************************************************)
(* What the REST handlers of a node, the boot sequence and the watcher do  *)
(* to the configuration of the node: the functions of                      *)
(* wtsl_core_node_callback.c and wtsl_core_dataparser.c, and the functions *)
(* of wtsl_core_slb_interface.c and wtsl_cfg_manager.c they share.         *)
(*                                                                         *)
(* A function is the sequence of its steps, each an access to memory that  *)
(* threads share, a command to the driver, or a call of config_set.  The   *)
(* meaning of a step is in module NodeConfig, which runs the functions in  *)
(* the threads of the program.                                             *)
(***************************************************************************)
EXTENDS SlbInterface, Sequences

(***************************************************************************)
(* Steps                                                                   *)
(***************************************************************************)
Op(op, arg) == <<[op |-> op, arg |-> arg, name |-> "", lits |-> <<>>]>>

Parse      == Op("parse", "")       \* cJSON_Parse; NULL ends the request
Lock       == Op("lock", "")        \* global_node_info.mutex
Unlock     == Op("unlock", "")
Take(p)    == Op("take", p)         \* a field of the request, if it is there
Down       == Op("ifconfig", FALSE) \* slb_ifconfig(NET_VAP_NAME, 0)
Up         == Op("ifconfig", TRUE)
Set(w)     == Op("set", w)          \* a setter; its result is not looked at
MustSet(w) == Op("must", w)         \* a setter; a failure ends the request
Get(w)     == Op("get", w)          \* a getter, into the structure
Ask(cmd)   == Op("ask", cmd)        \* a command that must answer SUCC
Show(cmd)  == Op("show", cmd)       \* a command whose output is the answer
Tell(cmd)  == Op("tell", cmd)       \* a command nobody looks at the result of
Popen      == Op("popen", "")       \* popen, where its result is tested
Reboot     == Op("reboot", "")      \* system("reboot")
Row        == Op("row", "")         \* update_wtsl_node_basicinfo
Null       == Op("null", "")        \* return NULL

Save(key, p)     == <<[op |-> "save", arg |-> key, name |-> p, lits |-> <<>>]>>
Read(key, p)     == <<[op |-> "read", arg |-> key, name |-> p, lits |-> <<>>]>>
SetTo(w, lits)   == <<[op |-> "set", arg |-> w, name |-> "", lits |-> lits]>>
Adopt(w, lits)   == <<[op |-> "adopt", arg |-> w, name |-> "", lits |-> lits]>>
Default(lits)    == <<[op |-> "default", arg |-> "", name |-> "", lits |-> lits]>>

\* config_set takes its argument before it waits for the file: Copy before Save
\* where another thread may write the parameter in between.
\*
\* The local variable x gets p from the structure, or what a getter reads; and
\* the structure gets a local variable.
Copy(p)          == <<[op |-> "copy", arg |-> p, name |-> p, lits |-> <<>>]>>
Query(w, p, x)   == <<[op |-> "query", arg |-> w, name |-> <<p, x>>, lits |-> <<>>]>>
Assign(p, x)     == <<[op |-> "assign", arg |-> p, name |-> x, lits |-> <<>>]>>

\* if (g) { prog }
If(g, prog) == <<[op |-> "if", arg |-> g, name |-> Len(prog), lits |-> <<>>]>> \o prog

(***************************************************************************)
(* Boot                                                                    *)
(***************************************************************************)
\* Texts: the network address, the node's name, the password, the network
\* manager's address, and the device's MAC are all 1 by default.  adv_info is
\* malloc'd and range_opt is not set here: it holds whatever was there.
param_default ==
    Default([bw |-> 20, tfc_bw |-> 20, channel |-> 2479, mac |-> 1,
             type |-> TypeT, node_type |-> TypeT, ip |-> 1, name |-> 1,
             password |-> 1, power |-> 250, log_port |-> 6025,
             net_manage_ip |-> 1, auto_join |-> 0, aifh_enable |-> 0,
             cell_id |-> 9, cc_offset |-> 0, cp_type |-> 0, symbol_type |-> 2,
             sysmsg_period |-> 1, s_cfg_idx |-> 2, sec_exch_cap |-> 33,
             fisa_enable |-> 0, range_opt |-> -1])

ReadBasic ==
    Read("BW", "bw") \o Read("TFC_BW", "tfc_bw") \o Read("CHANNEL", "channel")
    \o Read("TYPE", "type") \o Read("TYPE", "node_type")
    \o Read("LOG_PORT", "log_port") \o Read("AUTO_JOIN_NET", "auto_join")
    \o Read("ACS_ENABLE", "aifh_enable") \o Read("NAME", "name")
    \o Read("IP", "ip") \o Read("NET_MANAGE_IP", "net_manage_ip")

\* Variants with a defect, here and below: named after it.
Forgotten_ReadAdvanced == Read("CELL_ID", "cell_id")

ReadAdvanced ==
    Read("CELL_ID", "cell_id") \o Read("CC_SPOS", "cc_offset")
    \o Read("CP_TYPE", "cp_type") \o Read("SYMBOL_TYPE", "symbol_type")
    \o Read("SYSMSG_PERIOD", "sysmsg_period") \o Read("S_CFG_IDX", "s_cfg_idx")
    \o Read("FISA_ENABLE", "fisa_enable")

\* Keys that only other components read (bridge interfaces, DHCP, SLE, the
\* history of access points) are left to those.
config_read == ReadBasic \o ReadAdvanced

\* The files of the firmware are copied and its modules loaded; a failure of
\* either shows in the commands that follow.  The table of MCS bounds ends
\* before its first entry, so that the loop over it does nothing.
init_node ==
    Set("slb_create_device") \o Set("set_mac_address")
    \o Down \o Set("slb_set_channel") \o Set("slb_set_bw") \o Set("slb_set_tfc_bw")
    \o Set("slb_set_cc_start_pos") \o Set("slb_set_cell_id") \o Set("slb_set_essid")
    \o Set("slb_set_mib_params") \o Set("slb_set_tx_power")
    \o Set("slb_set_fisa_enable") \o Set("slb_set_sec_auth_pwd")
    \o If("G", Set("slb_set_acs_enable"))
    \o Set("init_net_bridge") \o Up
    \o If("T", Set("slb_set_sec_exch_cap")) \o Get("get_wt_vap_interface_count")

\* As far as the web server is started: the rest of wtsl_core_main touches
\* nothing that is modelled here, and then starts the threads.
wtsl_core_main == param_default \o config_read \o init_node

(***************************************************************************)
(* The parameters of the node                                              *)
(***************************************************************************)
OneOrder_SetBandwidths == Set("slb_set_bw") \o Set("slb_set_tfc_bw")

\* In the order that keeps the traffic bandwidth within the physical one.
SetBandwidths ==
    Query("slb_get_bw", "bw", "bw_now")
    \o If("bw grows", Set("slb_set_bw") \o Set("slb_set_tfc_bw"))
    \o If("bw shrinks", Set("slb_set_tfc_bw") \o Set("slb_set_bw"))

\* The device restarts when the role in the file is not the one now set.
set_node ==
    Down \o Set("slb_set_channel") \o SetBandwidths
    \o Set("slb_set_cc_start_pos") \o Set("slb_set_cell_id") \o Set("slb_set_essid")
    \o Set("slb_set_mib_params") \o Set("slb_set_sec_auth_pwd")
    \o If("T", Set("slb_set_sec_exch_cap")) \o Set("slb_set_sec_exch_cap")
    \o Set("slb_set_range_opt") \o Set("slb_set_fisa_enable")
    \o If("G", Set("slb_set_acs_enable"))
    \o Set("init_net_bridge") \o Up
    \o Get("get_wt_vap_interface_count") \o Set("slb_set_tx_power")
    \o If("role differs", Reboot)

TakeBasic ==
    Take("type") \o Take("channel") \o Take("bw") \o Take("tfc_bw")
    \o Take("cell_id") \o Take("name") \o Take("ip") \o Take("password")
    \o Take("log_port") \o Take("net_manage_ip")

SaveBasic ==
    Save("BW", "bw") \o Save("TFC_BW", "tfc_bw") \o Save("CHANNEL", "channel")
    \o Save("TYPE", "type") \o Save("CELL_ID", "cell_id") \o Save("TYPE", "type")
    \o Save("LOG_PORT", "log_port") \o Save("IP", "ip") \o Save("NAME", "name")
    \o Save("NET_MANAGE_IP", "net_manage_ip")

NoLock_wtsl_core_parse_json_setnode ==
    Parse \o TakeBasic \o set_node \o SaveBasic

\* Everything from the first field taken to the last key saved is under the
\* mutex.
wtsl_core_parse_json_setnode ==
    Parse \o Lock \o TakeBasic \o set_node \o SaveBasic \o Unlock

\* The log file is renamed in between (module Logs).
wtsl_core_set_node_basicinfo == wtsl_core_parse_json_setnode \o Row

\* Nothing here is under the mutex, and symbol_type is saved under a key that
\* config_read does not know.
wtsl_core_parse_json_set_node_advinfo ==
    Parse
    \o Take("cell_id") \o Take("cc_offset") \o Take("cp_type")
    \o Take("symbol_type") \o Take("sysmsg_period") \o Take("s_cfg_idx")
    \o Take("sec_exch_cap") \o Take("range_opt") \o Take("aifh_enable")
    \o Take("power") \o Take("fisa_enable")
    \o set_node
    \o Save("CELL_ID", "cell_id") \o Save("CC_SPOS", "cc_offset")
    \o Save("CP_TYPE", "cp_type") \o Save("SYMBOL_CFG", "symbol_type")
    \o Save("SYSMSG_PERIOD", "sysmsg_period") \o Save("S_CFG_IDX", "s_cfg_idx")
    \o Save("SEC_EXCH_CAP", "sec_exch_cap") \o Save("RANGE_OPT", "range_opt")
    \o Save("TX_POWER", "power") \o Save("ACS_ENABLE", "aifh_enable")
    \o Save("FISA_ENABLE", "fisa_enable")

wtsl_core_set_node_advinfo == wtsl_core_parse_json_set_node_advinfo \o Row

\* What sync_advinfo reads replaces what was set; of the getters that return
\* their value, a failure replaces it too.
sync_advinfo ==
    Get("slb_get_cc_start_pos") \o Get("slb_get_cell_id")
    \o Get("get_wt_vap_interface_count") \o Get("slb_get_chip_temperature")
    \o Get("slb_get_range_opt") \o Get("slb_get_acs_enable")
    \o Get("slb_get_mib_params") \o Get("slb_get_sec_exch_cap")
    \o Get("slb_get_sec_sec_cap") \o If("G", Get("slb_get_lce_mode"))
    \o Get("slb_get_pps_switch") \o Get("slb_get_timestamp_cnt")
    \o Get("slb_get_wds_mode") \o Get("slb_get_view_mcs_info")
    \o Get("slb_get_real_power") \o Get("slb_get_rssi_info") \o Get("slb_fem_check")

\* The structure is refreshed and printed.
create_node_advinfo_json == sync_advinfo

wtsl_core_get_node_advinfo == create_node_advinfo_json

\* The row of the node in the list, and the rows of all nodes.
create_node_info_json == Show("row")

wtsl_core_get_node_basicinfo == create_node_info_json

wtsl_core_get_all_nodes_info == Show("rows")

(***************************************************************************)
(* Operating modes                                                         *)
(***************************************************************************)
\* Every mode starts like this.  The structure takes over the bandwidths that
\* were accepted; the channel it learns from the watcher.
WideChannel ==
    Down \o SetTo("slb_set_channel", Value("channel", 1875))
    \o Adopt("slb_set_bw", Value("bw", 80)) \o Adopt("slb_set_tfc_bw", Value("tfc_bw", 80))

Mib(cp_type, symbol_type) ==
    SetTo("slb_set_mib_params", [cp_type |-> cp_type, symbol_type |-> symbol_type,
                                 sysmsg_period |-> 1, s_cfg_idx |-> 2])

wtsl_core_parse_json_do_shortrange == WideChannel \o Mib(0, 3) \o Up

NoUp_wtsl_core_parse_json_do_remoterange ==
    WideChannel \o Mib(3, 2) \o SetTo("slb_set_range_opt", Value("range_opt", 1))

wtsl_core_parse_json_do_remoterange ==
    WideChannel \o Mib(3, 2) \o SetTo("slb_set_range_opt", Value("range_opt", 1)) \o Up

wtsl_core_parse_json_do_lowlatency ==
    Tell("set_rtd_params") \o Tell("max_sf_res_req_en") \o Tell("set_mcs_bound")

wtsl_core_parse_json_do_lowpow == <<>>

wtsl_core_do_shortrange  == wtsl_core_parse_json_do_shortrange \o Row
wtsl_core_do_remoterange == wtsl_core_parse_json_do_remoterange \o Row
wtsl_core_do_lowlatency  == wtsl_core_parse_json_do_lowlatency \o Row
wtsl_core_do_lowpow      == wtsl_core_parse_json_do_lowpow \o Row

\* After the script that binds the driver's threads to processors.
wtsl_core_do_throughput ==
    Tell("sysctl") \o Tell("rx_thread_switch") \o Tell("set_mcs_bound")
    \o SetTo("slb_set_tx_power", Value("power", 250))
    \o WideChannel \o Mib(0, 1) \o Up

(***************************************************************************)
(* Networks                                                                *)
(***************************************************************************)
\* The network's parameters become the node's when it has joined; the result
\* is that of the join.
wtsl_core_parse_json_tnode_join_net ==
    Parse \o Up \o Op("join", "")
    \o Query("slb_get_channel", "channel", "tmp_channel")
    \o If("tmp_channel # 0", Assign("channel", "tmp_channel"))
    \o Get("slb_get_bw") \o Get("slb_get_tfc_bw")
    \o Copy("channel") \o Save("CHANNEL", "channel") \o Save("BW", "bw") \o Save("TFC_BW", "tfc_bw")

wtsl_core_do_connect == wtsl_core_parse_json_tnode_join_net \o Op("joined", "")

parse_show_bss_output == Show("show_bss")

wtsl_core_show_bss == parse_show_bss_output

slb_t_node_scan == Tell("scan")

\* The scan drops the network, and turns automatic joining off, in memory only.
wtsl_core_start_scan ==
    Op("clear", "auto_join") \o Down \o Up \o slb_t_node_scan \o wtsl_core_show_bss

wtsl_core_auto_join_net ==
    Parse \o Take("auto_join") \o Save("AUTO_JOIN_NET", "auto_join")

\* The answer names the outcome, and is not NULL in either case.
wtsl_core_do_disconnect == Parse \o Show("kick_user")

\* A T node prints its own parameters with those of its network's G node, and
\* holds the mutex for that.
wtsl_core_parse_json_view_users == Show("view_users") \o If("T", Lock \o Unlock)

wtsl_core_get_node_conninfo == wtsl_core_parse_json_view_users

(***************************************************************************)
(* Single commands                                                         *)
(***************************************************************************)
wtsl_core_do_aifh ==
    Parse \o Take("aifh_enable") \o Copy("aifh_enable")
    \o If("aifh_enable illegal", Null)
    \o Save("AIFH_ENABLE", "aifh_enable") \o MustSet("set_acs_enable")

\* The field goes to the structure first, and is checked there.
wtsl_core_do_chswitch ==
    Parse \o Take("channel") \o Copy("channel")
    \o If("channel illegal", Null)
    \o Save("CHANNEL", "channel") \o MustSet("bss_chan_switch")

wtsl_core_get_secalg         == Parse \o Ask("get_sec_alg")
wtsl_core_set_adaptivemcs    == Parse \o Ask("sch_res_type_mcs")
wtsl_core_do_clearschmcs     == Parse \o Ask("clear_sch_mcs")
wtsl_core_get_adaptivemcsinfo == Parse \o Ask("get_sch_res_type_mcs")
wtsl_core_get_mcsboundinfo   == Parse \o Ask("get_mcs_bound")
wtsl_core_set_mcsbound       == Parse \o Ask("set_mcs_bound")

wtsl_core_get_node_traffic ==
    Parse \o Popen \o Show("ifconfig") \o Popen \o Show("date")

\* The traces print what they could parse, and zeros for the rest.
wtsl_core_get_traceinfo_vip         == Show("trace vip")
wtsl_core_get_traceinfo_throughput  == Show("trace throughput")
wtsl_core_get_traceinfo_delay       == Show("trace delay")
wtsl_core_get_traceinfo_drop        == Show("trace drop")
wtsl_core_get_traceinfo_mcs         == Show("trace mcs")
wtsl_core_get_traceinfo_user_access == Show("trace user_access")

\* One feature of those above, or NULL.
wtsl_core_get_traceinfo ==
    Parse
    \o If("vip", wtsl_core_get_traceinfo_vip)
    \o If("throughput", wtsl_core_get_traceinfo_throughput)
    \o If("delay", wtsl_core_get_traceinfo_delay)
    \o If("drop", wtsl_core_get_traceinfo_drop)
    \o If("mcs", wtsl_core_get_traceinfo_mcs)
    \o If("user_access", wtsl_core_get_traceinfo_user_access)
    \o If("no feature", Null)

\* A failure of date is not reported.
wtsl_core_do_time_sync == Parse \o If("time illegal", Null) \o Tell("date")

\* check_user_has_permission refuses everybody, and the answer is NULL anyway.
wtsl_core_do_reboot == Parse \o Null

wtsl_core_do_restore == Op("remove", "") \o Reboot

\* Each of them leaves zeros where it fails; for the first the load is used.
get_cpu_usage_stats == Show("mpstat")
get_load_average    == Show("loadavg")
get_memory_usage    == Show("meminfo")
get_disk_usage      == Show("statvfs")

slb_node_get_hw_resources_info ==
    get_cpu_usage_stats \o get_load_average \o get_memory_usage \o get_disk_usage

\* It returns the result 0 of the conversion as a pointer.
wtsl_core_get_hw_resources_usage == slb_node_get_hw_resources_info \o Null

(***************************************************************************)
(* The watcher's pass over the driver                                      *)
(***************************************************************************)
KeepsOld_wtsl_core_get_splink_info ==
    Tell("view_users") \o Query("slb_get_channel", "channel", "tmp_channel")

\* What these two read is shown to the user, and nothing modelled here reads it; the
\* second is skipped while the link is down, which is the driver's affair.
get_all_version == Tell("get_version")
get_rssi_info   == Tell("get_rssi")

\* The users, and what becomes of them, are modelled in AutoJoin.
wtsl_core_get_splink_info ==
    Tell("view_users") \o Query("slb_get_channel", "channel", "tmp_channel")
    \o If("channel moved", Assign("channel", "tmp_channel") \o Copy("channel")
                           \o Save("CHANNEL", "channel"))
    \o get_all_version \o If("T", get_rssi_info)

\* update_wtsl_node_basicinfo does nothing before the list is there.
wtsl_core_splink_state_watcher ==
    Lock \o wtsl_core_get_splink_info \o Row \o Unlock

=============================================================================
