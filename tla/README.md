# Verification of ironic-python-agent

TLA+ models of the core of ironic-python-agent (IPA), the TLC configurations
that check them on small instances, and proofs of their safety properties.
IPA runs in a ramdisk on a bare metal server. It tells Ironic that it is there
(lookup, heartbeats), takes commands over a REST API, runs them in threads, and
so erases disks, writes images and leaves the machine in its final state.

## 1. The system

| Component | State | Operations | Interacts with |
|---|---|---|---|
| Command executor (`extensions/base.py`) | `command_lock`, `command_results` | `execute_command` | called by the API thread and, on an executor of its own, by the flow extension; starts command threads |
| Command results (`extensions/base.py`) | status, error, result, `command_state_lock`, a thread | `start`, `join`, `is_done`, `run` | read by the API without the lock; `run` forces a heartbeat |
| Command API (`api/controllers/v1/command.py`) | none | `post`, `get_one`, `get_all`, with or without `wait` | one WSGI thread serves all requests |
| Flow extension (`extensions/flow.py`) | an executor of its own | `start_flow` | runs commands one after the other, possibly itself |
| Heartbeater (`agent.py`) | a pipe, `interval`, `error_delay` | `run`, `force_heartbeat`, `stop` | called by command threads and the main thread |
| Agent process (`agent.py`) | `serve_api`, `node`, `advertise_address` | `run`, `serve_ipa_api` | looks up the node, serves, stops the heartbeater |
| Rescue extension (`extensions/rescue.py`) | a password file | `finalize_rescue` | ends the serve loop |
| Standby extension (`extensions/standby.py`) | `cached_image_id`, `partition_uuids`, image files, the install device | `cache_image`, `prepare_image`, `run_image`, `power_off`, `sync` | one command at a time; cleaning erases the same device |
| API client (`ironic_api_client.py`) | the session, the API version found | `lookup_node`, `heartbeat` | Ironic |
| Hardware dispatch (`hardware.py`) | the sorted managers, the cached node | `dispatch_to_managers`, `dispatch_to_all_managers`, `cache_node` | every extension |
| Clean extension (`extensions/clean.py`) | none | `get_clean_steps`, `execute_clean_step` | hardware dispatch |
| Erasure (`hardware.py`) | the ATA security state of the disks | `erase_devices`, `erase_block_device`, `erase_devices_metadata` | dispatched as clean steps |
| Image extension (`extensions/image.py`) | mounts | `install_bootloader` | ironic-lib, grub |
| iSCSI extension (`extensions/iscsi.py`) | the target, its LUN and portal | `start_iscsi_target`, `clean_up` | tgtd or LIO |
| Inspection (`inspector.py`, `ipmi_setter.py`) | collected data, accumulated failures | `inspect`, `set_bm_ipmi` | the inspector, the BMC |
| Collectors and vendor managers | none | LLDP, NUMA, DMI, RAID tools | inspection, hardware dispatch |

What makes each part correct, and what is hard in it:

- **Executor and results.** One command at a time. A command whose thread is
  ending is checked, at the same moment, by the next request; the thread starts
  before its result is recorded. Results that have finished do not change.
- **API.** Reads of several fields, and of several results, without a lock must
  still give a consistent picture. `wait` blocks the only serving thread.
- **Flow.** Steps one at a time, stop at the first failure, nothing left running
  for the next flow, no deadlock when a flow starts a flow.
- **Heartbeater.** No wake-up is lost; the thread ends when it is told to; no
  heartbeat goes out before the server listens.
- **Process.** A command may end the serve loop from inside the handler, or from
  inside a flow in another thread, at any moment after the server was bound; three
  kinds of threads must then end. Nothing a peer does is bounded in time.
- **Standby.** Success only for a complete and verified image; the record of
  what is cached must match the device, over failures, other images, restarts.
- **Dispatch and cleaning.** The managers are sorted once, by the support of that
  moment; a manager may decline or raise. A step must come from the manager that
  wins, run for the node of its command, and never under other versions than
  those that offered it, although the machine reboots in between.
- **Erasure.** The security state of a disk outlives the process. A command that is
  cut off leaves a disk with a password, which the next power-on locks; success
  may be reported only for what was erased, and the next attempt must find a way.
- **Boot loader and iSCSI.** A sequence of mounts and commands, each of which may
  fail, unwound in a `finally` that may fail itself; objects of a target that an
  earlier command left.
- **Start and inspection.** Waits that must all end while hardware appears;
  failures that are delayed until they were posted, once; a sequence of commands
  to the BMC that is retried from its start.

## 2. Modules

| Module | Models | Instance |
|---|---|---|
| `CommandLog` | what the command interface promises: a log that only grows, a command accepted only when the earlier ones have finished | |
| `CommandExecution` | `ExecuteCommandMixin`, `SyncCommandResult`, `AsyncCommandResult` for any number of callers | |
| `CommandAPI` | the controller over `CommandExecution` | `MCCommandAPI` |
| `CommandExecutionProofs` | the theorems of both | |
| `FlowExecution` | `start_flow` over `CommandExecution` | `MCFlowExecution` |
| `FlowExecutionProofs` | its theorems | |
| `Heartbeater` | the heartbeat thread | `MCHeartbeater` |
| `AgentService` | `run`, `serve_ipa_api` and `finalize_rescue`, posted or in a flow, over `CommandExecution` and `Heartbeater` | `MCAgentService` |
| `AgentServiceProofs` | its theorems | |
| `Standby` | the standby extension | `MCStandby` |
| `StandbyProofs` | its theorems | |
| `HardwareDispatch` | the cached list of managers and the two dispatch functions | |
| `Cleaning` | `cache_node` and the clean extension over `HardwareDispatch`, with reboots into other ramdisks | `MCCleaning` |
| `CleaningProofs` | its theorems | |
| `DiskErasure` | the generic manager's clean steps over the ATA security state of the disks, with Ironic cleaning again | `MCDiskErasure` |
| `DiskErasureProofs` | its theorems | |
| `IscsiTarget` | `start_iscsi_target` and `clean_up` | |
| `BootLoader` | `install_bootloader` over `IscsiTarget` | `MCBootLoader` |
| `BootLoaderProofs` | its theorems | |
| `BmcSetter` | `set_bm_ipmi` | |
| `Inspection` | `inspect` and its collectors over `BmcSetter` | |
| `Startup` | `run` up to the moment it serves, over `Inspection`, with the lookup | `MCStartup` |
| `StartupProofs` | its theorems | |

`AgentService` models the executor of the agent with the main thread as its only
caller, as the WSGI server of the code has one thread. `CommandAPI` looks at the
same executor from the client's side. `FlowExecution` is the second executor of
the code. That the agent's executor runs one command at a time is used by
`FlowExecution` (one outer flow) and by `Standby` (one command): it is what
`AtMostOneRunning` states and `OneCommandAtATime` proves.

### State and code

- `CommandExecution`: `lock` is `command_lock`, `results` is `command_results`
  (the ids in order), `cell[i]` the three fields of result `i` a reader can tell
  apart, `local[c]` the variable `result` of the caller, `thread[i]` the program
  counter of `run` and `pc[c]` that of `execute_command`. `command_state_lock` is
  held by the thread alone, between its `with` and the end of it, so
  `HoldsStateLock` reads it off the program counter. One assignment of a field is
  one step, because readers take no lock. A version mismatch assigns
  `command_result` after the status; that is why it has a step of its own.
  Command names are abstracted to the ways in which they go through
  `execute_command`: malformed, run in the caller, run in a thread; every one of
  them may also be refused (`Reject`) or fail (`ExecuteFails`).
- `CommandAPI`: `todo`, `view` and `reply` are the response being built, one field
  per step. Name, parameters and id of a command never change and are left out.
- `FlowExecution`: `plan[c]` is what is left of the list of steps, `nested` the
  results whose thread runs `start_flow` again. `command_results` is not cleared
  between flows, in the code and in the model.
- `Heartbeater`: `pipe` is the pipe, `writer` the attribute and whether its
  descriptor is open. `force_heartbeat` loads the attribute and writes in two
  steps, as the thread may close the pipe in between. `ReadsText` tells whether
  what `os.read` returns can equal `'a'`: Python 2 or 3.
- `AgentService`: `main` is the place of the main thread: the loop tests
  `serve_api` at `serve`, and waits for a request at `handle`, where it does not
  test it again. `HandleOther` is a request that executes nothing. `FinalizeRescue`
  is the posted command; `FlowFinalizes` is the one that the thread of `start_flow`
  runs on the executor of the flow, which leaves the agent's executor as it is.
  `unreported` is a history variable, the commands that have finished since the
  last heartbeat began.
- `Standby`: `device` is the image on the install device and how much of it is
  there; `file` the copies in the ramdisk. Contents are none, partial, bad (not
  the described checksum) or good. `at` is the program counter of the command
  being executed. Which of the failures happens is a choice. Of `run_image` and
  `power_off` only the end matters to the images: `Shutdown` is the whole of
  `_run_shutdown_command`, and `Restart` what may follow.
- `HardwareDispatch`: `managers` is `_global_managers`; one answer of a manager is
  one step. A manager is its rank in the alphabet, which is what deduplication
  compares last. The two functions differ in `toAll`. Which managers have a method
  is decided when it is called.
- `Cleaning`: `node` is `NODE`. `waitedFor` is a history variable: the node for
  which the wait for disks ended last, be it by an exception, after which the
  code does not wait again. `baseline` and `ranUnder` are Ironic's side: the
  versions it keeps with the steps, and those under which steps have run.
- `DiskErasure`: a disk has contents, a password, and is locked or frozen; these
  survive crashes, and a power cycle locks what has a password. `op` and `at` are
  the clean step and the place in it. `NullMeans` is what this version of hdparm
  takes the password `NULL` for. A fault is anything the code does not decide:
  a tool that fails, power lost, a boot with frozen disks; `MaxFaults` bounds them.
  `ata` is what is so for good: has the disk the feature set, and does smartctl
  reach it. `SmartctlFails` is the failure of smartctl on a disk that it reaches at
  other times, which the code takes for the same; `unasked` is a history variable,
  the disks this happened to in the present attempt.
- `IscsiTarget`: `objects` counts how many of the objects of a Linux-IO target
  exist, as they are made in one order and taken down together; `tgt` is what
  tgtd was told. `BootLoader`: `mounts` is the mount table below the temporary
  directory, `raised` whether an exception is on its way out, `deleted` the file
  systems that `rmtree` went into.
- `BmcSetter`: the result in `data` and what the inspector heard are separate; the
  recursion of the retry is the counter `tries`. `Inspection`: `failures` is
  `AccumulatedFailures`, by the collector that failed. `Startup`: `waits` counts
  the turns of the loop the main thread is in, where the code looks at a clock.
  `silent` says that a peer has accepted the request at hand and will not answer.
  `LookupRaises` and `AnswerRaises` are the answers that are JSON but no object,
  on which the code raises where it looks into them.

Definitions marked as mutants are variants of the definition after them with a
plausible bug. They are used in nothing: put in the place of that definition,
each makes TLC report the property that `PROJECT.json` names beside it.

## 3. Runs

| Run | Bounds | Checks |
|---|---|---|
| `command_api` | the one handler, 3 commands | one command at a time (`AtMostOneRunning`); the views of clients are complete, consistent and final (`FinishedViewIsComplete`, `OnlyNewestShownRunning`, `WaitedForFinished`, `FinalResultsAreStable`); the executor implements `CommandLog`; `RequestsAnswered` |
| `flow` | flows and nested flows of at most 2 steps of any kind, 3 commands | `StepsDoNotOverlap`, `FlowStopsAtFailure`, `NothingLeftRunning`, `NestedFlowRunsNothing`, `FlowsEnd` |
| `agent_service` | 2 commands, one jitter value, Python 2 | `NoLostWakeup`, `AgentExits`, `HeartbeatsWhileListening`, `NoForeignShutdown` |
| `agent_exit_python3` | 1 command, Python 3 | `AgentExits` is violated |
| `heartbeat_backoff` | the delays of the code, `heartbeat_timeout` 300 s | `ErrorDelayIsUsed` is violated |
| `standby` | 2 images, 2 URLs each, every combination of command parameters | `NoFalseSuccess`, `UuidsOfCachedImage`, `CachedWhenWritten` |
| `standby_prepared` | the same | `PreparedIsOnDevice` is violated |
| `cleaning` | 2 managers with support 0 to 2, 2 nodes, 1 step name with 2 priorities, 2 versions | `DeduplicationIsRight`, `CycleUsesOneVersion`, `StepRunsForItsNode` |
| `disk_erasure` | 2 disks and virtual media, all settings and initial security states, 2 faults | `SuccessMeansErased`, `CleanedIsUsable`, `ErasureRecovers` |
| `erasure_after_metadata` | 1 disk and virtual media, 1 fault | `CleaningRecovers` is violated |
| `boot_loader` | no bounds | `InstanceIsKept`, `SuccessIsComplete`, `DeviceIsReleased` |
| `startup` | 1 retry, 3 collectors, 2 disks and interfaces, 2 turns of each loop | `FailuresAreReported`, `HasSetIsTrue`, `StartupSettles` |

Each module also has a type invariant in its run.

Why the bounds suffice. The executor looks at the newest result only, so three
commands cover a newest, an older finished one and one that is started or refused
between the two reads of a client. In a flow, two steps per level give a
predecessor and a successor, and three results allow a second flow after one that
failed. The service needs one command that ends while another request ends the
agent; two commands are that. Delays are only relevant to `heartbeat_backoff`,
where they have the values of the code in tenths of a second. Two images are
enough for one to be taken for the other; the number of URLs only matters as
one or more than one. Two managers are what deduplication compares, with every
combination of support and priority; names of steps do not interact, so one is
enough. Two disks make a failure on one meet another that is done or still to be
done, and two faults are a failure and one more in the recovery from it. Every
loop that waits is left at its last turn or before it; two turns are both. The
three collectors are the one that talks to the BMC, the one that waits, and one
that may return nothing. `BootLoader` is finite as it is. The bounds are
`MaxResults`, `MaxSteps`, `NumUrls`, `MaxSupport`, `Priorities`, `MaxFaults`,
`Retries`, `DhcpPolls`, `DiskWaits`, `NicPolls` and `LookupTries`; the last five
are parameters of the code.

In the API, flow and service runs the system may stop, as commands are used up
and as the agent exits, so deadlock is not checked there; liveness is stated
instead; nor in `startup`, where the model ends when the agent serves. `Standby`,
`Cleaning`, `DiskErasure` and `BootLoader` always have a next step.

### Fairness

Weak fairness is assumed of threads that run and can take a step: handlers
(`Handling`), flows (`FlowProgress`), command threads (`ThreadProgress`), the
main thread (`MainProgress`) and the heartbeat thread (`Beating`). That a thread
is scheduled is what the interpreter gives. It is also assumed that the body of
a command ends, and with it the subprocesses it runs.

Nothing is assumed of clients: `HandleRequest`, `HandleOther` and `Respond` are
not fair, any command may be posted at any time, and `finalize_rescue` needs no
reason. Nor is anything assumed of the clock: `Tick`, the end of a poll, is not
fair, so `NoLostWakeup` and `AgentExits` hold for a wait of any length. Nor of
Ironic and the inspector: the agent gives no request a timeout
(`ironic_api_client.py:68`, `inspector.py:117`, `ipmi_setter.py:44`, `:62`), and the
looping call of the lookup compares its own only between two requests. So a
heartbeat that is being sent is not fair (`hbAt # "sending"` in the fairness of
`Beating`), nor is the lookup in `AgentService`, and in `Startup` the step
`PeerSilent` stops the agent for good. The properties name that case:
`IronicSilent` in `NoLostWakeup` and `AgentExits`, `silent` in `StartupSettles`.
Locks need no strong fairness in these runs: `command_lock` has one contender,
and `command_state_lock` is released for good by its thread.

In `DiskErasure` the step goes on (`Erasing`) and Ironic sends the next step, and
cleans again after a failure (`Ironic`): that is its retry, by an operator or a
script. Faults are bounded and not fair, so `ErasureRecovers` speaks of what
happens once they are over. In `Startup` the main thread goes on (`AgentStep`); disks,
interfaces and restarts are not fair, so the waits must end without them. The
other new modules state no liveness.

## 4. What the runs found

1. **The agent does not exit under Python 3** (`agent.py:114`). `os.read` returns
   bytes, which never equal `'a'`. `stop()` joins a heartbeat thread that only
   sends one more heartbeat. After `finalize_rescue` the server is closed, the
   process and its heartbeats stay. With `ReadsText = TRUE` the same
   specification passes.
2. **The error delay is not used** (`agent.py:121`). `error_delay` is backed off
   and capped, but the interval is always drawn from `heartbeat_timeout`.
3. **A stale cache record** (`standby.py:463`). `cached_image_id` survives a failed
   write, and the streaming of another image, and then `prepare_image` of the
   first image succeeds without writing. The counterexample caches an image,
   fails half-way in streaming another, and prepares the first. `CachedWhenWritten` and
   `NoFalseSuccess` hold nevertheless: it is only the record that goes stale.
4. **A locked disk is never unlocked** (`hardware.py:1093`). `_ata_erase` begins by
   unlocking a disk that "has already been locked by a previous failed attempt"
   (`hardware.py:945`). But `erase_devices_metadata` has priority 99 and comes
   before `erase_devices` with 10. If power is lost once the password is set, the
   disk is locked at the next power-on, and the metadata step fails on it every
   time. With that step disabled, `ErasureRecovers` holds: the unlock itself
   works.

The models also have windows that no run of its own is spent on; the properties
name them, and hold outside of them:

- **Ended before it has its address.** `finalize_rescue` may be answered while the
  heartbeat thread is still in `set_agent_advertise_addr` (`agent.py:106`). `stop()`
  finds `writer` None (`agent.py:153`), returns without a join, and the thread then
  makes its pipe and beats on: the process stays, although `agent.py:196` says that
  it exits. `AgentExits` therefore speaks of an agent whose heartbeat thread is
  past the search, and is false without that condition.
- **A flow that finalizes.** `finalize_rescue` as a step of `start_flow` clears
  `serve_api` in the command's thread. The comment "IPA will terminate after the
  result of finalize_rescue is returned" (`rescue.py:58-60`) does not hold of it:
  the command is still RUNNING, and its result may never be read.
  `NoForeignShutdown` is what is left: no other command ends the loop under it. The
  main thread notices only after one more request, as it waits in
  `handle_request`.
- **A password that stays.** A disk with a password that an attempt left, on which
  smartctl fails once in the next, is shredded, and the node counts as cleaned with
  the password in place, though secure erase is enabled and shred no fallback
  (`hardware.py:930-935`, `974-976`). `CleanedIsUsable` says what remains true: the
  password is one that the next erase tries.
- **A peer that is silent** holds up the start for ever, or the heartbeats and with
  them the exit.

## 5. Proofs

Every invariant and every action property that a passing run checks, and the
refinement of `CommandLog`, is also a theorem, for every value of the constants:

| Specification | Theorems |
|---|---|
| executor (`Spec` of `CommandExecution`) | `TypeCorrect`, `OneCommandAtATime` (`AtMostOneRunning`), `FinishedStaysFinished` (`FinalResultsAreStable`), `Refinement` (`ImplementsLog`), from `Invariance` |
| API (`APISpec`) | `APITypeCorrect`, `FinishedIsComplete` (`FinishedViewIsComplete`), `OnlyNewestRuns` (`OnlyNewestShownRunning`), `WaitedIsFinished` (`WaitedForFinished`), from `APIInvariance`; `APICallsExecutor` |
| flows (`FlowSpec`) | `FlowTypeCorrect`, `NothingIsLeft` (`NothingLeftRunning`), `NestedRunsNothing` (`NestedFlowRunsNothing`), `StepsRunInOrder` (`StepsDoNotOverlap`), `FailureEndsFlow` (`FlowStopsAtFailure`), from `FlowInvariance`; `FlowsCallExecutor` |
| process (`ServiceSpec`) | `ServiceTypeCorrect`, `ShutsDownItself` (`NoForeignShutdown`), `ListensWhenHeard` (`HeartbeatsWhileListening`), from `ServiceInvariance`; `WakeupIsNotLost`; `ServiceCallsExecutor` |
| standby | `TypeCorrect`, `SuccessIsVerified` (`NoFalseSuccess`), `UuidsMatch` (`UuidsOfCachedImage`), `CachedIsWritten` (`CachedWhenWritten`) |
| cleaning | `TypeCorrect`, `StepHasItsNode` (`StepRunsForItsNode`), `OneVersionPerCycle` (`CycleUsesOneVersion`), `StepsAreDeduplicated` (`DeduplicationIsRight`) |
| erasure | `TypeCorrect`, `SuccessIsErased` (`SuccessMeansErased`), `CleanedDisksAreUsable` (`CleanedIsUsable`) |
| boot loader and iSCSI | `TypeCorrect`, `NothingIsDeleted` (`InstanceIsKept`), `NoTargetHoldsDevice` (`DeviceIsReleased`), `SuccessIsInstalled` (`SuccessIsComplete`) |
| start and inspection | `TypeCorrect`, `BmcIsSet` (`HasSetIsTrue`), `FailuresReachInspector` (`FailuresAreReported`) |

The argument of each:

- **Executor** (`CallersAssumption`, `MaxResultsAssumption`). None of the
  properties is inductive: that the busy check looks only at the newest result is
  sound because the results are recorded under the lock, in the order in which
  they were constructed, and each is done before the next is constructed. `IInv`
  says that: exactly the holder of the lock is between `check` and `record`; the
  results are the ids in order, but for the one that the caller at `record` still
  has in its hand; only the newest one constructed can be running, and none can
  while a caller is about to execute; the status of a result agrees with where its
  thread is. The refinement maps `Record` to `Accept`, `PublishStatus` of a
  recorded result to `Finish`, and every other step to a stutter: a command that
  finishes before it is recorded is accepted finished.
- **API** (the same assumptions). A step of the API is a step of the executor or
  leaves it alone (`APIStepsAreCalls`), so `IInv` holds under it. `APIInv` adds what
  a handler knows between its unlocked reads: what is left to read was recorded,
  and all but the last of it is older than the newest (`TodoInv`); what has been
  read of a finished result is still what it holds, and one that was seen running
  is the last to be read (`ViewInv`); after `join` the result is done (`WaitInv`);
  and so the finished part of the response is complete (`ReplyInv`). `CellInv` is
  the executor's part: a done result has exactly the data of its status.
- **Flows** (`FlowCallersAssumption`, `StepsAssumption`, `MaxStepsAssumption` also).
  A flow is a caller and its end the end of a thread's body. `NestedInv` says that a
  nested flow runs in the body of a result that is running, so that the check
  refuses it: it never gets past it. `OuterInv` says that no thread goes on
  while the outer flow is between two steps, as it joined the newest, and
  `FailInv` that no step of this flow but the one at hand has failed.
- **Process** (`ServiceAssumption`, `DelayAssumption`, `MultiplierAssumption` also).
  `ShutsDownItself`: a posted `finalize_rescue` is past the busy check, so no
  command runs (`IInv`); a flow that finalizes is in the body of its command, which
  is running, and no other is (`FlowIsRunning`). `MainInv`: what has happened before each place of the
  main thread. `PipeInv`: where the pipe is read there is a byte in it.
  `WakeupIsNotLost` is the safety part of `NoLostWakeup`: while the agent serves, a
  finished command that is through `force_heartbeat`, and that no heartbeat has
  followed, has one due without the clock. Its invariant says that the
  pipe does not exist before the first beat is due, stays open from then on
  while the agent serves, and holds no byte of `stop` (`WriterInv`); and that a
  command forces a heartbeat only after it has published (`ForcingInv`).
- **Standby** (`NumUrlsAssumption`). A command that has not opened the device has
  `wrote` false, the streamed image on the device is the command's own, and what is
  written and past its verification is good. That the copy is verified when
  `write` is reached (`FileInv`) makes the record of the cached image right in the step that
  sets it.
- **Cleaning** (`ManagersAssumption`, `MaxSupportAssumption`,
  `PrioritiesAssumption`). `DispatchInv` says that while
  `get_version` goes through the list, the answers are the versions of the managers
  before the next one: when the list is exhausted they are the versions of all that
  run. `VersionInv` says that a command carries the versions Ironic keeps; together
  they make the comparison in `CheckVersion` mean what `CycleUsesOneVersion` needs.
  `TypeInv` knows what answers each method collects, over a reboot as well. For
  `DeduplicationIsRight`, `GreatestNumber` shows that a finite set of numbers
  has a greatest one: the one with the fewest others above it, which there is as
  sets of naturals have a minimum (`WFMin`). Applied to the support, then to the
  priorities, and `LeastNumber` to the names, it gives the candidate that beats the
  others, and only one does. Offers are finite as managers and priorities are: a
  manager returns a list.
- **Erasure** (`NullMeansAssumption`, `MaxFaultsAssumption`). `Inv` is
  what the loops preserve: the disks off the list and without an error are good,
  but for the one being worked on; only a disk with a password is locked, one that
  is not locked has none but a password the agent tries, and one that smartctl
  never reaches is locked if it has any; where the erase is started the disk has a
  password, so that "security not enabled" afterwards can only mean that it was
  erased; and a disk that was done under secure erase without fallback lost its
  password, unless smartctl failed on it.
- **Boot loader** (no assumptions). Each from an invariant of its own: nothing is
  mounted where the directory is removed; there is no target without Linux-IO, nor
  past `clean_up`; the runs of grub so far by the place that was reached, unless an
  exception is on its way out; and, for the types, the mount points are taken in
  their order, and those left to unmount are the last of the list.
- **Start** (`CollectorsAssumption`, `DhcpAssumption`, `RetriesAssumption`,
  `WaitsAssumption`). The commands to the BMC before the next one have been made in
  this attempt. Nothing is posted before "post", and what was posted is what had
  failed. For the types: a loop that waits is left at its last turn, and each loop
  starts with `waits` zero.

`DataKeys` and `FailureKeys` of `Inspection` are the names under which data and
failures are kept, rather than all strings, as the provers do not know that a
literal is a string.

Only model-checked: the liveness properties (`RequestsAnswered`, `FlowsEnd`,
`NoLostWakeup`, `AgentExits`, `ErasureRecovers`, `StartupSettles`), as TLAPS proves
nothing under fairness and no `ENABLED`; and the four properties that are violated.
No module uses RECURSIVE operators, which cost the SMT prover, and no proof needs
induction over data, which the provers cannot instantiate: loops are actions, and
their proofs are inductive invariants.

## 6. What is not modelled, and abstractions

- Subprocesses, files, sockets and disks appear as the outcomes the code tells
  apart, and subprocesses end. ironic-lib and WSME are external: work on a disk either completes or
  fails half-way, and WSME reads the attributes of a result in the order of their
  declaration, as `from_result` does.
- The search for an address or a network interface is found or not found.
- Serving in standalone mode, in which there is no heartbeater; `Startup` has its
  start.
- What hdparm, ipmitool, rtslib, tgtadm, mount and grub do inside: each completes
  or fails, half-way where that leaves a trace. That a disk erases and forgets its
  password in one step, and that a file system in which another is mounted cannot
  be unmounted, is what the code relies on.
- Which clean step Ironic runs next; in `DiskErasure` the order of the priorities,
  in `Cleaning` any.
- LLDP (`netutils.py`): the receive loop keeps no state between calls and depends on
  packets and a timeout only.
- The NUMA and DMI collectors: sequential parsing of text; here they are collectors
  that succeed or fail.
- The vendor hardware managers: a straight list of commands of vendor tools whose
  behaviour half-way is not in the repository. Parsing of their output.
- The version negotiation of the API client: it selects between two URLs.
- Log collection, configuration, image building: input and output only.

## 7. Plan

Done so far, in this order: the command executor with its API, flows and service;
standby; dispatch and cleaning; erasure; iSCSI and the boot loader; the start with
inspection; their proofs. What is left:

1. Proofs: a stronger statement of what `erase_devices` leaves behind after a
   failure, the safety part of `ErasureRecovers` (no disk ends with a password that
   the agent does not try), as `WakeupIsPending` is that of `NoLostWakeup`; an
   abstract specification of standby (the device as a register of images) and its
   refinement.
2. `Startup` and `AgentService` meet at the moment the agent serves; composing
   them would let a restarted agent be followed from its lookup to its exit.
3. The docstring of `ImageDownload` against a connection that is refused
   (`standby.py:208`), and cached LLDP data that a failure overwrites
   (`hardware.py:647`), as runs of their own.
