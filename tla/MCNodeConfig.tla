---------------------------- MODULE MCNodeConfig ----------------------------
\* Small instances of NodeConfig.
EXTENDS NodeConfig, TLC

Malformed == "malformed" :> 1

\* For the APIs that take no parameters any body will do.
MCBodies ==
  [a \in DOMAIN GetApi \cup DOMAIN PostApi |-> {<<>>}]
MCBodiesFor ==
  [set_basicinfo |-> {Malformed,
                      [channel |-> 41, bw |-> 80, tfc_bw |-> 40, name |-> 2],
                      [channel |-> 125, bw |-> 30, cell_id |-> 5],
                      [bw |-> 20, tfc_bw |-> 20, type |-> TypeG, ip |-> 2],
                      [channel |-> 42, type |-> 7, bw |-> 20]},
   set_advinfo   |-> {[cc_offset |-> 2, symbol_type |-> 3, aifh_enable |-> 1,
                       cell_id |-> 30, range_opt |-> 1, cp_type |-> 3,
                       sec_exch_cap |-> 1, power |-> 100]},
   autojoinNetwork |-> {[auto_join |-> 1]},
   timesync |-> {[time |-> 0], [time |-> 1]},
   aifh     |-> {[aifh_enable |-> 1], [aifh_enable |-> 2]},
   chswitch |-> {[channel |-> 41], [channel |-> 42]},
   traceinfo |-> {[feature |-> f] : f \in {"vip", "mcs", "none"}}]

AllBodies == MCBodiesFor @@ MCBodies

MCNetworks == {[channel |-> 1375, bw |-> 40, tfc_bw |-> 20]}
MCDrift == {209}

Writers == {"set_basicinfo", "set_advinfo", "connect", "chswitch", "remoterange"}

Budget(apis, requests, faults, crashes, moves) ==
  [apis |-> apis, requests |-> requests, faults |-> faults, crashes |-> crashes,
   moves |-> moves]

MCBudgets == {Budget({"set_basicinfo", "chswitch", "restore"}, 2, 0, 0, 0),
              Budget(DOMAIN AllBodies, 1, 1, 0, 0),
              Budget(DOMAIN AllBodies, 1, 0, 1, 0),
              Budget(Writers, 1, 0, 0, 1),
              Budget({"set_basicinfo"}, 1, 0, 1, 1)}
=============================================================================
