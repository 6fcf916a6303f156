------------------------------- MODULE Rules -------------------------------
(***************************************************************************)
(* Traffic shaping and packet filtering: wtsl_core_slb_qos_core.c,         *)
(* wtsl_core_slb_acl_core.c and the REST handlers in front of them.        *)
(*                                                                         *)
(* The rules themselves are in the kernel, put there by tc and iptables,   *)
(* and outlive the program.  The program keeps two switches, and a record  *)
(* of the commands that succeeded, in memory: requests are served as soon  *)
(* as the web server is up, before qos_init_state and acl_init_state have  *)
(* set them.  Handlers run in the one thread of the web server.            *)
(*                                                                         *)
(* A tc object is a record: the device it is on, whether it is a root      *)
(* queueing discipline, a class below one or a filter, its name, the name  *)
(* of its parent and its parameters (args).  A filter that is set twice    *)
(* counts once.                                                            *)
(***************************************************************************)
EXTENDS Naturals, Sequences, FiniteSets, SequencesExt

CONSTANTS
    TcObjects,      \* the queueing disciplines, classes and filters clients ask for
    DefaultDevice,  \* the device the program is started with
    FilterRules,    \* rules of chain FORWARD clients ask for
    MaxRecorded,    \* MAX_SNAPSHOT_RULES and ACL_MAX_RULES
    MaxRuleSteps    \* bound: requests that change rules

ASSUME RulesAssumption == MaxRecorded \in Nat /\ MaxRuleSteps \in Nat

VARIABLES
    rulesReady,     \* qos_init_state and acl_init_state have run
    qosState,       \* g_state: the switch and the recorded commands
    aclState,       \* g_acl_state
    tcKernel,       \* the tc objects that are set in the kernel
    forward,        \* chain FORWARD of the kernel: its policy and its rules
    ruleSteps,      \* requests so far
    regular,        \* (history) nothing has happened that the record misses
    switchFailed,   \* (history) a command of the switch of the filter failed
    leftOn          \* (history) the program was started with the filter on

ruleVars == <<rulesReady, qosState, aclState, tcKernel, forward, ruleSteps,
              regular, switchFailed, leftOn>>

(***************************************************************************)
(* The kernel                                                              *)
(***************************************************************************)
Root(kernel, device) == {o \in kernel : o.type = "qdisc" /\ o.device = device}

\* The object o is about, with the parameters it has now.
Same(kernel, o) ==
    {p \in kernel : p.device = o.device /\ p.type = o.type /\ p.name = o.name}

\* del is qdisc del, whatever the type.  A filter has no handle by which a change
\* would find it.
TcPossible(kernel, action, o) ==
    \/ /\ o.type = "qdisc"
       /\ \/ action = "add" /\ Root(kernel, o.device) = {}
          \/ action = "replace"
          \/ action \in {"change", "del"} /\ Same(kernel, o) # {}
    \/ /\ o.type # "qdisc"
       /\ \E p \in Root(kernel, o.device) : p.name = o.parent
       /\ \/ action = "add" /\ (o.type = "class" => Same(kernel, o) = {})
          \/ action = "replace"
          \/ action = "change" /\ o.type = "class" /\ Same(kernel, o) # {}

\* Another root takes what is below the old one with it.
TcEffect(kernel, action, o) ==
    LET others == {p \in kernel : p.device # o.device} IN
    IF ~TcPossible(kernel, action, o) THEN kernel
    ELSE IF action = "del" THEN others
    ELSE IF o.type = "qdisc" /\ Same(kernel, o) = {} THEN others \cup {o}
    ELSE (kernel \ Same(kernel, o)) \cup {o}

Established == "established"

(***************************************************************************)
(* QoS                                                                     *)
(***************************************************************************)
OnDefault(kernel) == {o \in kernel : o.device = DefaultDevice}

record_rule(snapshot, cmd) ==
    IF Len(snapshot) >= MaxRecorded \/ cmd \in Range(snapshot) THEN snapshot
    ELSE Append(snapshot, cmd)

\* Variants with a defect, here and below: named after it.
AddOnly_Recorded(action) == action = "add"

Recorded(action) == action \in {"add", "replace"}

\* ex_command tells whether the command ran and succeeded: popen may fail, and tc
\* or iptables may refuse what is not possible.
ex_command(possible) == {FALSE, possible}

tc_handle_request(action, o) ==
    \E ok \in ex_command(TcPossible(tcKernel, action, o)) :
        LET snapshot == IF ok /\ Recorded(action)
                        THEN record_rule(qosState.snapshot, <<action, o>>)
                        ELSE qosState.snapshot
        IN  /\ tcKernel' = IF ok THEN TcEffect(tcKernel, action, o) ELSE tcKernel
            /\ qosState' = [qosState EXCEPT !.snapshot = snapshot]
            /\ regular' = (regular /\ (ok => /\ qosState.enabled
                                             /\ action \in {"add", "replace"}
                                             /\ ~Contains(qosState.snapshot, <<action, o>>)
                                             /\ Len(qosState.snapshot) < MaxRecorded))

\* The documented actions but show, which sets nothing.
wtsl_core_qos_set_rules ==
    /\ ruleSteps < MaxRuleSteps
    /\ ruleSteps' = ruleSteps + 1
    /\ \E action \in {"add", "replace", "change", "del"}, o \in TcObjects :
          tc_handle_request(action, o)
    /\ UNCHANGED <<rulesReady, aclState, forward, switchFailed, leftOn>>

\* What the kernel holds after each command of the record; those in failed do not run.
Replay(kernel, snapshot, failed) ==
    LET after[i \in 0..Len(snapshot)] ==
            IF i = 0 THEN kernel
            ELSE IF i \in failed THEN after[i - 1]
            ELSE TcEffect(after[i - 1], snapshot[i][1], snapshot[i][2])
    IN  after

Replayed(kernel, snapshot, failed) == Replay(kernel, snapshot, failed)[Len(snapshot)]

qos_toggle_switch(enable) ==
    \/ qosState.enabled = enable /\ UNCHANGED <<qosState, tcKernel, regular>>
    \/ /\ qosState.enabled /\ ~enable
       \* the root and ingress of the default device, which has a name once
       \* qos_init_state has run
       /\ \E ok \in BOOLEAN :
             /\ tcKernel' = IF ok /\ rulesReady THEN tcKernel \ OnDefault(tcKernel)
                            ELSE tcKernel
             /\ regular' = (regular /\ ok)
       /\ qosState' = [qosState EXCEPT !.enabled = FALSE]
    \/ /\ ~qosState.enabled /\ enable
       /\ \E failed \in {{}} \cup {{i} : i \in 1..Len(qosState.snapshot)} :
             /\ tcKernel' = Replayed(tcKernel, qosState.snapshot, failed)
             /\ regular' = (regular /\ failed = {})
       /\ qosState' = [qosState EXCEPT !.enabled = TRUE]

wtsl_core_qos_switch ==
    /\ \E enable \in BOOLEAN : qos_toggle_switch(enable)
    /\ UNCHANGED <<rulesReady, aclState, forward, ruleSteps, switchFailed, leftOn>>

(***************************************************************************)
(* ACL                                                                     *)
(***************************************************************************)
\* The flag of the command for an action: a word nobody knows appends.
build_iptables_cmd(action) ==
    CASE action = "delete" -> "-D"
      [] action = "insert" -> "-I"
      [] action = "replace" -> "-R"
      [] OTHER -> "-A"

AclPossible(flag, rule) == flag \in {"-D", "-R"} => rule \in forward.rules

AclEffect(flag, rule) ==
    IF flag = "-D" THEN forward.rules \ {rule} ELSE forward.rules \cup {rule}

\* record_rule of the filter, with the same limit and the same test.
record_acl_rule(rules, flag, rule) == record_rule(rules, <<flag, rule>>)

\* A rule that is deleted stays recorded, and one that was appended by another word
\* than add is not recorded.  list and get read the kernel.
acl_handle_request(action, rule) ==
    LET flag == build_iptables_cmd(action) IN
    \E ok \in ex_command(AclPossible(flag, rule)) :
        /\ forward' = IF ok THEN [forward EXCEPT !.rules = AclEffect(flag, rule)]
                      ELSE forward
        /\ aclState' = IF ok /\ action \in {"add", "insert"}
                       THEN [aclState EXCEPT !.rules = record_acl_rule(@, flag, rule)]
                       ELSE aclState

wtsl_core_acl_set_rules ==
    /\ ruleSteps < MaxRuleSteps
    /\ ruleSteps' = ruleSteps + 1
    /\ \E action \in {"add", "insert", "replace", "delete", "append"},
          rule \in FilterRules : acl_handle_request(action, rule)
    /\ UNCHANGED <<rulesReady, qosState, tcKernel, regular, switchFailed, leftOn>>

NoAccept_acl_toggle_switch(enable) ==
    IF aclState.enabled = enable THEN UNCHANGED <<aclState, forward, switchFailed>>
    ELSE \E first, second \in BOOLEAN :
        /\ forward' =
              [policy |-> IF enable /\ first THEN "DROP" ELSE forward.policy,
               rules  |-> IF enable /\ second THEN forward.rules \cup {Established}
                          ELSE IF ~enable /\ first THEN {}
                          ELSE forward.rules]
        /\ aclState' = [aclState EXCEPT !.enabled = enable]
        /\ switchFailed' = (switchFailed \/ ~first \/ ~second)

\* Off: flush the chain, then accept; on: drop, then let established connections
\* pass.  Nobody looks at the results, and the record is neither cleared nor
\* put back.
acl_toggle_switch(enable) ==
    IF aclState.enabled = enable THEN UNCHANGED <<aclState, forward, switchFailed>>
    ELSE \E first, second \in BOOLEAN :
        /\ forward' =
              [policy |-> IF enable /\ first THEN "DROP"
                          ELSE IF ~enable /\ second THEN "ACCEPT"
                          ELSE forward.policy,
               rules  |-> IF enable /\ second THEN forward.rules \cup {Established}
                          ELSE IF ~enable /\ first THEN {}
                          ELSE forward.rules]
        /\ aclState' = [aclState EXCEPT !.enabled = enable]
        /\ switchFailed' = (switchFailed \/ ~first \/ ~second)

wtsl_core_acl_switch ==
    /\ \E enable \in BOOLEAN : acl_toggle_switch(enable)
    /\ UNCHANGED <<rulesReady, qosState, tcKernel, ruleSteps, regular, leftOn>>

(***************************************************************************)
(* The program                                                             *)
(***************************************************************************)
NoQos == [enabled |-> FALSE, snapshot |-> <<>>]
NoAcl == [enabled |-> FALSE, rules |-> <<>>]

qos_init_state == qosState' = [enabled |-> TRUE, snapshot |-> <<>>]
acl_init_state == aclState' = [enabled |-> FALSE, rules |-> <<>>]

\* After the web server has been started.
RulesStart ==
    /\ ~rulesReady
    /\ rulesReady' = TRUE
    /\ qos_init_state
    /\ acl_init_state
    /\ regular' = (tcKernel = {})
    /\ switchFailed' = FALSE
    /\ leftOn' = (forward.policy = "DROP")
    /\ UNCHANGED <<tcKernel, forward, ruleSteps>>

\* The program ends and is started again, by an upgrade for example: the rules
\* stay in the kernel.  Memory is zero until the init functions have run.
RulesRestart ==
    /\ rulesReady
    /\ rulesReady' = FALSE
    /\ qosState' = NoQos
    /\ aclState' = NoAcl
    /\ regular' = FALSE
    /\ switchFailed' = FALSE
    /\ leftOn' = (forward.policy = "DROP")
    /\ UNCHANGED <<tcKernel, forward, ruleSteps>>

(***************************************************************************)
(* What the program tells of its rules                                     *)
(***************************************************************************)
wtsl_core_qos_get_status ==
    [enabled |-> qosState.enabled, snapshot_count |-> Len(qosState.snapshot)]

acl_get_status == [enabled |-> aclState.enabled, rule_count |-> Len(aclState.rules)]

wtsl_core_acl_get_status == acl_get_status

\* From the kernel, for the default device, which has a name after qos_init_state.
wtsl_core_qos_get_rules == IF rulesReady THEN OnDefault(tcKernel) ELSE {}

\* From the kernel, without the line of the policy.
wtsl_core_acl_get_rules == forward.rules

RulesInit ==
    /\ rulesReady = FALSE
    /\ qosState = NoQos
    /\ aclState = NoAcl
    /\ tcKernel = {}
    /\ forward = [policy |-> "ACCEPT", rules |-> {}]
    /\ ruleSteps = 0
    /\ regular = FALSE
    /\ switchFailed = FALSE
    /\ leftOn = FALSE

QosRequests == wtsl_core_qos_set_rules \/ wtsl_core_qos_switch
AclRequests == wtsl_core_acl_set_rules \/ wtsl_core_acl_switch

RulesNext == QosRequests \/ AclRequests \/ RulesStart \/ RulesRestart

RulesSpec == RulesInit /\ [][RulesNext]_ruleVars

(***************************************************************************)
(* Properties                                                              *)
(***************************************************************************)
NoRepeats(seq) == \A i, j \in DOMAIN seq : seq[i] = seq[j] => i = j

RulesTypeOK ==
    /\ rulesReady \in BOOLEAN
    /\ wtsl_core_qos_get_status \in [enabled : BOOLEAN, snapshot_count : 0..MaxRecorded]
    /\ wtsl_core_acl_get_status \in [enabled : BOOLEAN, rule_count : 0..MaxRecorded]
    /\ Range(qosState.snapshot) \subseteq {"add", "replace"} \X TcObjects
    /\ Range(aclState.rules) \subseteq {"-A", "-I"} \X FilterRules
    /\ NoRepeats(qosState.snapshot) /\ NoRepeats(aclState.rules)
    /\ tcKernel \subseteq TcObjects
    /\ forward.policy \in {"ACCEPT", "DROP"}
    /\ wtsl_core_acl_get_rules \subseteq FilterRules \cup {Established}

\* What is set on the default device is what the record gives when it is replayed
\* from nothing, so that switching QoS off and on puts back exactly that, in spite
\* of roots that replaced one another and classes that were replaced by others of
\* the name: as long as since qos_init_state nothing was deleted and nothing changed
\* (a change is not recorded, so that off and on undo it), no command was given twice,
\* the record was not full, nothing was set while QoS was off and no command of the
\* switch failed.
QosRestored ==
    regular /\ wtsl_core_qos_get_status.enabled
        => wtsl_core_qos_get_rules = OnDefault(Replayed({}, qosState.snapshot, {}))

\* The switch of the filter, as the program tells it, and the policy of the kernel
\* agree, whatever rules come and go and however often it is pressed, unless a
\* command of the switch failed or the program was started with the filter on.
FilterAgrees ==
    ~switchFailed /\ ~leftOn
        => (wtsl_core_acl_get_status.enabled <=> forward.policy = "DROP")
=============================================================================
