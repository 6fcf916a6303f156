# A verification project for wtsl_app

`wtsl_app` is the daemon of a SparkLink (SLB/SLE) radio node.  A *G node* is an access point,
a *T node* a station that joins one.  The daemon configures the radio through `iwpriv`, keeps a
T node associated, exchanges heartbeats with the other nodes, serves a REST interface, upgrades
its own firmware, and bridges SLE links to TCP and UDP.  It is a C program of about 17,800 lines,
multi-threaded, with most of its state in one global structure (`global_node_info`).

This directory holds TLA+ models of its parts, TLC configurations that check them on small
instances, and TLAPS proofs of the main safety properties for every instance.

## 1. Inventory

Paths are below `src/src/wtsl_core/` unless they start with `wtsl_app/`.

| component | state | operations | hard about it | correct means | module |
|---|---|---|---|---|---|
| startup, shutdown (`wtsl_app/main.c`, `wtsl_core.c`) | `g_is_run` | init in a fixed order; signal handler stops HTTP, clears `g_is_run` | requests served before QoS, ACL and node list exist; cancellation with locks held | every thread that is joined ends | AutoJoin, NodeApi, Rules |
| link state, auto join (`slal/wtsl_core_splink_state.c`, `api/wtsl_core_api.c`) | `link_state`, `auto_join_net_flag`, three recent access points, `add_mac`, `idx` | watcher polls the driver every 0.5 s; joiner scans and joins | three mutexes, two condition variables, unlocked reads, REST handlers on the same data | no join against the user's will or over a live link; the lost access point is tried first, unless it had changed while the link was up; no lost wakeup | AutoJoin |
| node service (`slal/node/wtsl_core_node_service.c`) | UDP socket, `node_mutex` | heartbeat sender, receiver | UDP: loss, repetition, reordering; DHCP changes addresses | the list shows who is there | NodeTable, AutoJoin |
| node list (`slal/node/wtsl_core_node_list.c`) | singly linked list, `node_count` | add, find by id, MAC or IP, update | rows never removed; three locking disciplines | ids are positions, bounded size | NodeTable |
| REST handlers (`slal/node/wtsl_core_node_callback.c`, `dataparser/wtsl_core_dataparser.c`) | `global_node_info` | parse, store, command the driver, `config_set`, reboot | partial failure, the watcher on the same fields, power loss between two saves | memory, driver, file and node list agree | NodeApi, NodeConfig |
| SLB interface (`slal/slb/wtsl_core_slb_interface.c`) | the driver's | setters that check a value, getters that parse an answer, `init_node`, `set_node` | order of commands; a getter's error value | what is legal is applied | SlbInterface, NodeApi |
| configuration store (`utils/wtsl_cfg_manager.c`) | `KEY=value` file | `config_set`, `config_get`, `config_read` | two writers, crash at any step, failures | a map, updated atomically, that survives | ConfigStore, ConfigMap |
| HTTP server, routing (`protocol/http`), node manager | `request_data`, `g_user_ctx` | request in pieces, routing, permission check | contexts shared between connections | every request is answered; nothing runs without its permission | Sessions |
| users, database (`user`, `db`) | table of users, token, context | register, log in, change password | selection by name, no UNIQUE | one row per name, one administrator | Sessions |
| QoS, ACL (`slal/slb/wtsl_core_slb_qos_core.c`, `..._acl_core.c`) | switch, record of commands, kernel tables | add, delete, disable, enable | commands fail one by one; kernel outlives the program | enabling restores what disabling removed, if all of it is on record | Rules |
| logger, log upload (`utils/wtsl_log_manager.c`, `utils/wtsl_client_upload.c`) | log file, `log_mutex` | write, rename, upload, truncate | file closed under the writers | a removed line has been sent; logging resumes | Logs |
| multicast heartbeat (`slal/wtsl_core_splink_mc.c`) | 1024 G nodes with times | send, receive, expire | periods against time limits, rounds of more than a second, wall clock | silent peers leave | McHeartbeat |
| SLE bridge (`slal/sle`) | sockets, connections, announce list | serve TCP and UDP, scan, connect, send | no lock at all; stop and start of servers | one server, on the configured port | SleTransport, SleRadio |
| firmware upgrade (`dataparser/wtsl_core_dataparser_ota.c`) | `/tmp/upload_file`, `/home/wt/app`, backups | upload, check, extract, verify, fork, back up, kill, replace, start, roll back, reboot | failure of any command, power loss, a second request meanwhile | restarts into what was extracted, or what was there, never between; roll back restores | Upgrade |
| SLB business, protocol stubs, network utilities | none | none | - | - | - |

Interactions.  The watcher writes `link_state`, the history and the channel with
`global_node_info.mutex` held and signals the joiner; REST handlers switch the joiner's flag and
share the driver with it; the heartbeat thread and the watcher share `global_node_info.mutex`; the
receiver and the watcher both write the node list; every thread shares `log_mutex` in each line it logs; the upgrade process, a fork of the daemon,
kills the daemon that started it; everything saves its settings through the configuration store.
`PROJECT.json` lists each hazard at its line.

## 2. Modules

### AutoJoin

Threads joiner, watcher, http, heartbeat and recv, and the driver.  A step is one access to shared
state or one lock operation, and a program counter names the next statement.

| in the model | in the code |
|---|---|
| `run`, `station`, `flag`, `link`, `macs`, `addMac`, `idx` | `g_is_run`, `basic_info.type` is a T node's, `auto_join_net_flag`, `link_state`, `auto_join_net_mac`, `add_mac`, the joiner's `idx` |
| `lock["global"]`, `lock["flagM"]`, `lock["joinM"]` | `global_node_info.mutex`, `auto_join_net_flag_mutex`, `auto_join_net_mutex` |
| `lock["log"]`, `LogLine`, `LogInfo`, `...Line` | `log_mutex` of the logger, and the lines the threads write: taken and released within the step a line belongs to, unless the thread is cancelled in it |
| `pcJ = "fwait"`, `"lwait"` | in `pthread_cond_wait`; a signal or `SpuriousWakeup` moves it to `fwoke`, `lwoke`, from where the mutex is taken again |
| `poll`, `assoc` | the output of `view_users` being parsed; the driver's association |
| `Joiner...` | `wtsl_core_splink_auto_join_net` |
| `Watcher...` | `wtsl_core_splink_state_watcher` and `get_view_users_info`, line by line of its input |
| `wtsl_core_auto_join_net`, `Scan...`, `wtsl_core_do_connect`, `wtsl_core_set_node_basicinfo` | the REST handlers; libmicrohttpd runs them one at a time on its polling thread |
| `Heartbeat...`, `RecvLine`, `NodeServiceCancel` | `heartbeat_thread`, with its `continue` where the gateway has no address; the log line of `recv_thread`; the end of the node service, which cancels both |
| `window`, `lost`, `moved`, `fresh` | history variables: what changed since the joiner's checks, the access point of the last association the watcher saw, whether it took the place of another while the link stayed up, whether the joiner has waited and not tried since |

Two accesses the code makes without the mutex of the other side are kept as such: the joiner's
reads of `link_state` and of its slot.  A slot read during its `memcpy` yields the old address or
`Torn`.  The `config_set` calls of the watcher belong to the configuration store and are not in
this module; accordingly `Init` excludes a history left by a crash between these calls.
The access point that was lost is not always the newest of the history: while the link stays up
`add_mac` is false, so that the one a connect request, or a join already committed to, moves the node
to is not recorded.  `FirstAttemptIsTheLostOne` excepts these losses (`moved`).  `Verbose` is the
logger's mode ALL, in which INFO lines are written too; in PRODUCT they never take the mutex.
`Stop` describes the program without SLE: with SLE enabled, `sle_client.c` replaces the signal
handlers (`register_signal` in SleTransport), and `g_is_run` is then never cleared.

### SlbInterface, NodeApi and NodeConfig

*SlbInterface* says, for every setter of the driver that the program calls, which values it
refuses, which commands it issues and where it stores the value, and for every getter what it
returns when the command fails.  *NodeApi* holds the functions of the program as programs: a
function is a sequence of instructions (lock, command, assignment, save, test with a jump, reboot),
composed the way the functions call one another, so that `init_node`, `set_node` and the handlers
read like the code and an interruption can happen between any two calls.  *NodeConfig* runs them:
main boots, the HTTP thread serves one request after another, the watcher makes its passes, and
commands fail, the driver moves to another channel, the power goes, or a handler has the device
rebooted.  It keeps four copies of the configuration: `mem` (`global_node_info`), `drv`, `file` and
`row` (the node's own entry in the node list).  `config_set` is one step here, which ConfigStore
justifies.

No handler compares the two bandwidths: `{bw: 20}` to a node that has 40 for its traffic is set and
saved, with success.  `events` then holds `"misfit"`, from the moment at which such a pair is first passed
on (by `set_node` or with a network that is joined), and `BandwidthFits` says nothing more.  And some
parameters are acknowledged, saved, and lost at the next start, because `config_read` looks for another
key or for none: `symbol_type` (`SYMBOL_CFG` in `dataparser.c:600`, `SYMBOL_TYPE` in `cfg_manager.c:328`),
`sec_exch_cap`, `range_opt` and `power`, and what the API `aifh` saves (`AIFH_ENABLE`; `ACS_ENABLE` is what is read).
`Forgotten` names them, and `AcknowledgedSurvives` says of them that they come back with the values of
`param_default`.

Texts (name, address, password) are small numbers; readings that are only displayed are reduced to
where they came from (`seen`).  The JSON text is not modelled; a request's body is the set of the
fields it has, and a malformed one is a value of its own.

### ConfigStore and ConfigMap

*ConfigMap* is the abstract specification: calls start, take effect at one moment or not at all,
and end; the map survives a restart.  *ConfigStore* is the code: `file_mutex`, the temporary file,
the copy of the lines with the one changed, `rename`, every early return, and a restart at any
step.  `ImplementsMap` is the refinement, with the map being what `config_get` would find in the
file.  Files edited by hand, with comments and repeated keys, are among the initial states.
The constant `Faults` says what may fail.  With `"orig"` (the old file cannot be opened for the
copy), `"write"` (disk full, result of `fprintf` ignored) or `"cache"` (power loss without
`fsync`) the other settings are lost and the refinement does not hold; nothing is claimed then.

### Sessions

Requests on several connections, each cut into pieces; libmicrohttpd calls `request_handler` from
one thread, so that a call is one action.  The URL is the sequence of its parts.  The functions of
users (`db_*` on `userTable`, `wtsl_core_user_*`) are modelled in full; a function of a node is
here only executed or refused, with the permission it needs.  An `INSERT` or `UPDATE` may fail, which
no caller looks at (`Written`): `unsaved` marks a login whose token the table did not get.  Reads do not
fail.  Two documents say otherwise than the code: `wtsl_restful_api.md:18` promises a 401 for a wrong
token, and no handler looks at the token of a request; `ACL_QOS_API_GUIDE.md:59` says that the QoS and ACL
functions need no authentication, and `interface_wrapper` refuses them like any other until somebody
has logged in.  `PermissionEarned` states what the code does.  A null pointer that is dereferenced
ends the program (`alive`), and `StartAgain` starts it anew: the table of users survives.

### Rules

A tc object is a queueing discipline, a class or a filter, with a name and parameters; the actions are
add, replace, change and del.  `change` succeeds in the kernel and is not recorded, although
`ACL_QOS_API_GUIDE.md:421` offers it: switching QoS off and on undoes it, and `QosRestored` excepts it
(`regular`).  A filter that is set twice counts once.  `tcKernel` and `forward` are the kernel's; `qosState` and `aclState` the program's switch and
record.  `TcPossible`/`TcEffect` and `AclPossible`/`AclEffect` say when `tc` and `iptables` succeed and what
they do then (external).  A command may fail; the program may be restarted with the kernel's rules
in place, and requests come before `qos_init_state` and `acl_init_state`.

### Logs

Lines are numbers, a file is the set of its lines.  Writers lock, test and write; the upload
closes the file, reads it, sends it, waits for acknowledgements with a timeout, and opens the file
anew, each as a step; handlers rename the file; midnight changes its name.

### McHeartbeat

A clock in seconds, the table, and the one thread with its `select`.  The clock may move between any two
of its readings, and by up to `MaxRound` in a round: the `select` takes a second, and the sending,
cleaning and logging come on top, so that `time(NULL)` may move by two (the bound in
`SilentPeersLeave` has two rounds in it).  `SetClock` is the request
that sets the wall clock.

### SleTransport and SleRadio

*SleTransport*: any number of TCP and UDP server threads, `wtsl_core_sle`, which starts the first
ones, the handler that stops and restarts them when a port is changed, and signals.  The handler's
`sleep(1)` is modelled as long enough for a thread that is not blocked to get to its end
(`Settled`): without this timing assumption the old thread can clear the new server's
`g_udp_server_fd`.  An empty datagram ends a UDP server, as a failing `recvfrom` does, until the next
request for a port.  The history variable `raced` says that `wtsl_core_sle`, which notices up to five
seconds late that SLE was enabled, has started its UDP server beside one of a handler; from then on
there may be two, and `OneUdpServer` says nothing.  *SleRadio*: the callbacks of the stack on G and T nodes, search, connections and
the list of connections that data goes to.  Together with SleTransport's data steps it covers the
path of the data; the two share no variable.

### Upgrade

The request handler (`pcP`), the processes it forks (`pcC[i]`), and four places for files: the
extraction directory `tmp`, the installation `inst`, the backups `bak` and the radio firmware
`fw`.  A file is represented by the package it came from, or `Broken` when a copy of it was cut
short.  A package has a header (fields, architecture, version, whether its digests are right) and
an archive, and is uploaded by one request and installed by another.  Every command may fail and
every step may be the last before a power loss, `MaxFaults` times in a behaviour.  `tar` writes its
parts one by one, and goes on as an orphan when the daemon is killed; no further request is then
taken until it has ended.  An upgrade accepted while a process of an earlier one has not yet killed the
service forks another.  Both write the same backup, until the first to come to its kill ends the service
and the other: a `cp` of the binary dies with the process it belongs to and leaves a file cut short, a
`cp` of the libraries goes on (`late`) and copies what is then being installed.  `start_cmd` is uninitialised until `StartService`, and a command made
of uninitialised memory starts no service.  Left out: the copy of web pages and the `rk3568` script.
The two signals of a kill, two seconds apart, are one step, and a process that has started the new service
reboots after `sleep(3)`, before another, forked by that service, has made its backup and slept as long
before its own kill.

The directory is never emptied before an extraction, and nothing verifies the application files in it, so
what is installed can itself be a mixture: of two packages, or of one and the rest of a failed extraction.
`RestartsComplete` promises less: without an extraction under way at the kill, what is started is
exactly what the directory held then (`src`) over what was installed (`orig`); and these files are of one
package if only one was extracted since the directory was empty (`one`).  `RollbackRestores` likewise
excepts `spoilt`, the files whose last copy to the backup or back was not completed.

### NodeTable

One device's list, its peers and the UDP network.  `net` is a set of datagrams which may be lost,
consumed, or consumed and stay (repetition), in any order.  `ver` stands for everything a node
says of itself (`WTSLNodeInfo`).  `parse_data_heartbeat` is the whole handler: search by MAC, then
append, or update of the first row with the sender's address.

### Variants with a defect

Operators named `Defect_Definition` (`NoTest_Recheck`, `SkipsLast_is_node_not_exist`, ...) are
what the definition would be with a plausible mistake.  No specification uses them; substituting
one makes the run it belongs to fail, which shows that the property can see the mistake
(`PROJECT.json`, "mutants").

### MC modules

`MCAutoJoin`, `MCUpgrade`, `MCNodeTable`, `MCNodeConfig` and `MCConfigStore` give the constants
values.  `MCServices` also composes six modules, Sessions, Rules, Logs, McHeartbeat, SleTransport
and SleRadio.  None of them reads a variable of another one, so that an invariant of one holds in
the product of all exactly if it holds in that module alone; the composition therefore lets one be
active and the others rest, which makes the states add up instead of multiply.

## 3. Runs

| run | checks | shows |
|---|---|---|
| AutoJoinSafety | `TypeOK`, `NoAttemptAfterFlagOff`, `NoAttemptOverLiveLink`, `FirstAttemptIsTheLostOne`, `HistoryKept`, `TornOnlyWhileUp` | 6.3 million states; what a join attempt can be about in every interleaving |
| AutoJoinLiveness | `EverySlotTried`, `LinkRecovers`, `HeartbeatsFlow`, `WatcherEndsUnlessMutexLost` | 163,000 states; no lost wakeup, no starvation by the joiner's long critical section; the watcher ends unless a cancelled thread has taken a mutex with it |
| AutoJoinScan | `NotJoinedDuringScan`: **violated** | the joiner, already in its `sleep(4)`, joins during the scan that was to be made off the network |
| AutoJoinShutdown | `ShutdownCompletes`: **violated** | heartbeat cancelled in `sendto` keeps the global mutex; the watcher never ends |
| NodeConfig | `TypeOK`, `InterfaceRestored`, `BandwidthFits`, `SetNodeApplied`, `AcknowledgedSurvives`, `ChannelAgrees` | 320,000 states; memory, driver, file and list in step, through every handler |
| ConfigStore | `StoreInv`, `ImplementsMap`, `CallsReturn` | the store implements an atomic map, and no call keeps the mutex |
| Services | `ServicesTypeOK` and, of Sessions, `PermissionEarned`, `UsersConsistent`, `RequestsAnswered`; of Rules, `QosRestored`, `FilterAgrees`; of Logs, `NothingRemovedUnsent`, `LoggingResumes`; of McHeartbeat, `SilentPeersLeave`; of SleTransport, `OneUdpServer`, `UdpFollowsConfig`; of SleRadio, `SeekDistinct` | 333,000 states, of six services |
| Upgrade | `TypeOK`, `RollbackRestores`, `RestartsComplete`, `FirmwareVerified` | 2.2 million states; one fault at any step, two upgrade processes |
| UpgradeRollback | `RollbackRestarts`: **violated** | a roll back before `StartService` runs an uninitialised command |
| NodeTable | `TypeOK`, `TableBounded`, `StaleRowsDiffer`, `OneRowPerPeer` | address changes against loss, repetition, reordering |
| NodeTableLiveness | `ListFollows` | with stable addresses the list catches up |
| NodeTableRecorded | `HeartbeatRecorded`: **violated** | a known node with a new address is not updated |

The four violations are described, with the lines that say otherwise, under "findings" in
`PROJECT.json`.  Several properties hold only under a condition that they state, and where the code
does something else outside it, the comment of the property says what: an access point that changed while the link
stayed up (`FirstAttemptIsTheLostOne`), bandwidths asked for that do not fit (`BandwidthFits`), settings saved under keys nobody
reads (`AcknowledgedSurvives`), what a killed upgrade process was copying (`RollbackRestores`), an archive
extracted over another (`RestartsComplete`), a token whose `UPDATE` failed (`UsersConsistent`), the channel in the file after a race of a switch with the
watcher (`ChannelAgrees`), rules that were deleted, changed or given twice (`QosRestored`), log lines lost
by a rename during an upload (`NothingRemovedUnsent`), POST requests without a length
(`RequestsAnswered`), TCP servers that are not stopped (`OneUdpServer`).

**Bounds.**  AutoJoin: two access points, so that the lost one and another differ and histories
of three hold repetitions such as a, b, a; one for liveness, where only reachability matters.
Nothing else is bounded there.  In the safety run requests set both roles
(`Roles`), in the others that of a T node, which is the one the liveness properties speak of; the logger's mode is
ALL, which has more lines to be cancelled in.  NodeConfig: five budgets, each a set of handlers with a number of
requests, faults, power losses and own moves of the driver: two requests among the handlers that
set the parameters, switch the channel or restore, in any order; every handler once with a fault, and
once with a power loss, at any of its instructions; the handlers that set the channel or raise the
interface once with a move of the driver, `set_basicinfo` with a power loss and a move.  Bodies have
legal and illegal values, bandwidths that widen and that narrow, and one without the other.
ConfigStore: two callers, two keys, one refused value, an empty file and one edited by hand.
Services: two connections, and one login, which replaces the token the requests before it were
checked against; 11 requests of every kind of route; six tc objects, two roots of one device, a
class with two rates, a filter and another device, two commands on record and four requests, for shaping and
for the filter in turn; one log writer beside the upload and two
dates; three peers for a table of two, rounds of up to two seconds and a clock that passes the limits; two server threads
of each kind, two ports and one change of port; two addresses and connections.  More of each was
explored for the services one at a time while they were written; the bounds here are what a run of
all of them needs to stay short.  Upgrade: a complete package, one without two libraries (a copy that
fails without a fault), and one without an application and with a wrong digest (a package for another device and a
header that does not name a module are in the proofs only); two upgrade processes, so
that one writes the backup of the other and is killed by it, and three upgrades accepted (`MaxRequests`), so that the
second process can be either of an upgrade of the old service or of the new one;
`MaxFaults = 1`, since the promises are about one failure at a time: with a fault in the
roll back nothing is promised.  NodeTable: two peers and three addresses, so that one address is
always free and a peer can get one the other has left; three datagrams under way, so that an old
and a new one of a peer and one of the other coexist.  `MaxVer = 0` in the safety run (the version
decides nothing there), 1 in the liveness run, which needs a change to follow; there the addresses
are two because the property assumes that they do not change.  `SYMMETRY` is used in safety
runs only, of the peers and of the upgrade processes.

**Deadlock.**  AutoJoin ends by design after `Stop`.  In Upgrade a power loss during a copy can
leave a device that does not come up.  NodeConfig ends when its budget is used up, and services end
with a fault or a signal, or at a bound.  These say `CHECK_DEADLOCK FALSE`; NodeTable and
ConfigStore are checked for deadlock.

**Fairness.**  AutoJoin: strong fairness for each of the joiner, the watcher and the heartbeat
thread.  Each sleeps at least half a second without its mutexes in every round, so a waiter finds
the mutex free again and again and a futex-based mutex is not denied to it for ever.  Weak
fairness for a scan in progress and for the node service's `sleep(1)` loop.  None for requests,
link failures, spurious wakeups and the stop signal.  NodeTable: peers send for ever; the network
does not lose every datagram of a peer (strong fairness of `Receive`); the watcher runs.
ConfigStore: threads run, and the mutex, held for a few statements at a time, is not denied for
ever (strong fairness of `Acquire`); calls need not be made.  NodeConfig: weak
fairness of each thread (the mutex is held for one call of a handler or one pass of the watcher, and
`ChannelAgrees` is about the time after the last request), of the watcher's sleep, and of a reboot that
was ordered; strong fairness of the node service's first row, which the watcher's and the handlers'
use of the mutex delays but does not keep from it.
Sessions: libmicrohttpd serves a connection that has something to handle.  Logs: the upload thread
goes on, every wait of it having a timeout.  SleTransport: a UDP thread that is not blocked runs,
and the handler's `sleep(1)` ends.

## 4. Proofs

The theorems are of the specifications the runs check, for all values of the constants that satisfy
the named assumptions of the modules.  Each rests on an inductive invariant.

**AutoJoin_proofs** proves the six invariants of AutoJoinSafety for any set of access points.
Assumptions: `APAssumption` only.  None of the properties is inductive; `IInv` adds

- `LinkWindow`: the window of `NoAttemptOverLiveLink` opens at the check of the link, one step
  before the joiner is committed;
- `UserLineLinkUp`, `SignalLinkDown`: the part of the watcher's input it is in decides `link`;
- `ShiftStages`: what the history is between the three copies;
- `Recorded`: once `add_mac` is false, slot 0 is the association last seen, unless that has taken the place of
  another (`moved`);
- `AfterLoss`: a joiner that has waited starts from slot 0, which, with the same exception, holds the lost
  address.

One lemma per conjunct shows that every action keeps it, `NextIInv` collects them.

**NodeConfig_proofs** proves `TypeOK` and `InterfaceRestored` for any bodies of requests, networks
and budgets, and so for any number of requests, faults, crashes and reboots.  Assumptions:
`RequestAssumption`, `RadioAssumption` (fields of a request and parameters of a network are numbers)
and `BudgetAssumption`.  Two things are needed.

- What the 32 functions have in common.  They are sequences of up to about fifty steps, and none is
  looked at step by step: a *kind* says of a fragment what matters when another is put behind it or a
  condition in front of it, as the code composes them (`KindsJoined`, `KindsGuarded`).  `Programs`
  concludes that every function is `Good`: the interface is raised after every step that drops it, by a
  step that no condition skips (`Lifted`); no request is refused at or after a step that drops it (`Early`); and
  a local variable is assigned only after the getter that fills it (`Asked`).
- The invariant `IInv`.  `Raising` says that while the interface is down, the function that has
  dropped it has the step that raises it `Ahead` of the place where its thread is; `JobInv` that a thread
  has the values it has asked for; `BootsFirst` that the threads wait for the boot.  A step of a thread
  goes on or gives up (`GoesOn`, `GivesUp`) and moves the interface as its instruction says
  (`MovesInterface`); `RaisingKept` needs no more than that, so that each
  instruction has a short lemma of its own.

**NodeConfigStages_proofs** proves `BandwidthFits`, `SetNodeApplied` and `AcknowledgedSurvives`, also for
any number of requests and for all functions as they are composed.  None needs
more assumptions: what no handler tests, that the bandwidths asked for fit each other, is in the property, as
the moment at which a pair that does not is first passed on.

- `Frame` says for every setter and getter what it leaves alone of the structure, the driver and a
  thread's variables (`ByOperation`); all others move nothing that the properties read.
- An *outline* gives every step of a function a stage: `Turns(g, P, a, b)` says of a fragment that
  it leads outline `g` from stage `a` to stage `b`, and the rules for sequence, condition and single
  steps (`TurnsJoined`, `TurnsIf`, `TurnsStep`) give the outline of a function as it is composed.  `Phase` is
  the stage in which a thread is; it moves only as its steps say (`PhaseMoves`).
- `BandInv`: what memory and driver hold of the two bandwidths in each phase of the boot and of a
  request (`BandAt`), and that they agree whenever no function is being run (`Settles`), up to the first pair
  that does not fit.
- `Fresh`, for `Forgotten`: no function that the program has saves under the keys it reads them from, and from
  the defaults of the boot on the structure holds those, until a request has changed one.
- `Placed` and `Applying`: the mutex is with the HTTP thread from the first field that `set_basicinfo` takes to
  the end of `set_node` (phases 1 to 15), and with the watcher while it replaces the channel, so neither
  sees the fields of the other half done; in each phase `HttpAt` says which of the fields memory and driver
  have already.
- `Stored`, for all parameters that last but the channel: the outline of a handler (`FileStep`) says which
  parameters it has taken and which of them it has saved under their keys (`FileAt`), that of the boot
  (`LoadStep`) which it has read back (`LoadAt`).  A handler has saved all that lasts of what it has
  taken before it can succeed, so that what is asked for (`kept`) is in the file at every step, loss of
  power included (`InFile`), and in the structure whenever no function is being run (`InUse`).
- `Tuned`, for the channel, which three threads write: once a request or the boot has settled it, the
  structure, the driver and the file hold one channel, and a pass of the watcher that is under way finds
  the one it expects (`SettledOn`), so that it saves nothing else.  The two exceptions, a role that does
  not exist and a channel that the driver refuses or leaves, are those the property states (`Lasts`).
  The channel switch, which saves without the mutex of the watcher, does not count as having asked for
  a channel: what it has set is the driver's to keep.

**ConfigStore_proofs** proves `StoreInv` and the refinement `ImplementsMap` for any callers, keys,
values and initial files, from `StoreAssumption` and `Benign`, that at most `fopen` of the temporary
file and `rename` fail.  `StoreInv` is inductive as it stands: whoever is inside the critical section
holds the mutex, has copied the file as it still is, and the temporary file is the file rewritten.
The lemmas `FirstLine`, `LookupFirst` and `LookupRewrite` say what `config_get` finds after
`config_set` has changed the first line with the key, or appended one; with them `Rename` and
`Read` map to `Serve` of ConfigMap, and every other step to `Begin`, `End`, a restart or a stutter.

**Upgrade_proofs** proves the four invariants of the Upgrade run for any packages and any number of
faults, upgrades and upgrade processes, from `PackageAssumption`.  `IInv` adds what the files are at every
step of the upgrade: `Alone` (once a process has stopped the service there is no other, until the service
has been started again), `BackupIsOrig` (what has been backed up so far, by whichever process, is what is
installed, or was when the service was stopped, except for the files of `spoilt`), `LateSpoilt` (a `cp` that
goes on counts as not completed), `InstalledFiles` (which of the files are replaced already, or restored
already), `SourceFixed` (while files are replaced no request is served, so that the directory is as it was
when the service stopped), `FromGiven` and `OneSource` (what is in the directory comes from the packages that were
given) and `VerifiedInHand`.

**NodeTable_proofs** proves all four invariants of its run for all peers, addresses and bounds,
from `NodeAssumption` (finite sets, the device is not its own peer and has an address of its own).
`IInv` adds `OwnRowFirst`: the device's row is the first, and all others are peers' at addresses given
out.  Every step either leaves the list alone, appends a row for an unknown MAC (`NewRow`), or
rewrites a row that is the first with its address (`NewInfo`); both keep `StaleRowsDiffer`.  The
bound follows by counting: rows that are the first with their address inject into the addresses, all
other rows into the peers.  `OneRowPerPeer` needs `Unmoved`, about the network as well: while no
address has changed, every datagram under way, however old, names the address its sender has,
addresses are distinct, and every row is at the address of its node, so that the search by MAC and the
search by address find the same row.

**Sessions_proofs** proves `SessionTypeOK`, `PermissionEarned` and `UsersConsistent` for any requests
on any finite set of connections, from `SessionsAssumption`.  `Sound` says what an answer may leave
behind and is proved of each handler: only a login replaces the context of the user manager, the table
stays consistent and does not get shorter, and a function runs only with permissions that are in the
context that is checked.  `SessionInv` adds to this `PermissionsOK` (both contexts hold only
permissions that a login has granted since the start), `Matches` (the token of the context is in the
row it names, unless the `UPDATE` failed) and `LoginsBounded` (the bound on tokens counts the logins under way).

**Services_proofs** proves the safety properties of the other five services of MCServices and composes
all six.

- McHeartbeat: `InTime` (the thread comes to its next sending within an interval and the time of a round after
  its last, and cleans within the round in which it sends) and `PeersDiffer` give `SilentPeersLeave` for any
  intervals and limits and any time a round may take.
- Rules: `Mirrored`, that the record replayed on an empty device gives what the kernel has on the default
  device while `regular`, for records of any length.  Replaying is a recursive function of the number of commands; the
  library's induction theorems cannot be used, so `LeastNumber` takes a least counterexample
  (finite intervals are well founded under inclusion), `StepsExist` shows that there is such a
  function and `ReplayUnfolds` that `Replay` is one.  `FilterAgrees` is inductive with the types.
- Logs: `NobodyWrites` (from the closing of the file to its being opened again no writer writes,
  also not one that had tested the handle before) and `FileUnchanged` (the file is what was read from
  it) give `NothingRemovedUnsent`.
- SLE bridge: the types of both sides, `OneUdpServer` and `SeekDistinct` for any threads, ports,
  devices and connections, from `TransportAssumption` and `RadioAssumption`.  `OneUdpThread`: there is
  at most one UDP thread in any state, starting and ending included, and the global descriptor is its
  socket; `ToldToEnd`: while a handler sleeps before it starts the next server, the old one has been
  told to end.  Both fail once `wtsl_core_sle` has raced a handler, which the attempt to prove them
  brought to light, and hence `raced`.  `FoundOnce`: the device being reported is not stored yet,
  although the comparison and the storing are two steps between which a new scan may begin.
- `ServicesApart`: a step of the composition is a step or a stutter of each service.  With
  it `ServicesTypeCorrect` and `ServicesKeepPromises` carry the theorems over to the composition of
  MCServices, which shows what section 2 claims of it.

**Model-checked only.**  The liveness properties (fairness is outside the prover) and the four
violations.  Every invariant of the runs, every action property and the refinement of ConfigStore is
also a theorem; only the runs show that the bounded instances reach the cases the theorems are about.

## 5. Not modelled

- The text of JSON, the layout of frames and answers, wording and levels of log messages.
- `wtsl_core_slb_business.c`, disabled as a whole; the second half of `wtsl_core_node_manager.c`
  and of `wtsl_core_node_callback.c`, and parts of `wtsl_core_http_restful_api.c`, which are
  disabled or commented out; functions without a caller (removal and sorting of the node list,
  the command line of the OTA tool, the table of tasks, `wtsl_logger_destroy` and others).
- The MAC address in the flash (`wtsl_core_config_vap0_mac` erases it before it writes it), the
  DHCP programs, the web pages of an upgrade, the `rk3568` script.
- Network utilities, which only read, and the protocol stubs, which are empty.
- Vendored headers (`inc/microhttpd.h`, `sle_*.h`), which declare what others implement.  The radio
  driver, the SLE stack, libmicrohttpd, `tar`, `cp`, `tc`, `iptables`, DHCP and the network are
  external: they are modelled only as far as the code depends on them.
- Memory: leaks (`request_data`), arrays filled without a bound (`seek_result_info`,
  `connect_manage`, `announce_id`) and reads of uninitialised pointers for missing JSON fields
  are not modelled beyond the faults Sessions and Upgrade name; the instances stay within bounds.
