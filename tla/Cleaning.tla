-------------------------------- MODULE Cleaning --------------------------------
(***************************************************************************)
(* The clean extension over the dispatch to the hardware managers.  Ironic *)
(* asks for the clean steps of the node and the versions of the managers,  *)
(* and then for one step after the other; in between, the machine may be   *)
(* rebooted into another ramdisk.                                          *)
(***************************************************************************)
EXTENDS HardwareDispatch

CONSTANTS
    Nodes,        \* the nodes this machine may be known as
    NoNode,       \* NODE before any node is cached
    Steps,        \* names of clean steps
    Priorities,   \* bound: the priorities of steps
    Versions,     \* versions of a hardware manager
    NoVersion     \* clean_version is not given

ASSUME NodesAssumption == NoNode \notin Nodes
ASSUME PrioritiesAssumption == IsFiniteSet(Priorities) /\ Priorities \subseteq Nat
ASSUME VersionsAssumption == NoAnswer \notin Versions /\ NoVersion \notin Versions

VARIABLES
    version,     \* the versions of the managers in the running ramdisk
    node,        \* NODE
    waitedFor,   \* the node for which wait_for_disks last ended
    command,     \* the command being executed
    at,          \* where it is
    candidates,  \* of get_clean_steps: the steps of each manager
    offered,     \* the deduplicated steps
    baseline,    \* Ironic: the versions that came with the steps
    ranUnder     \* the versions under which steps have run since

cleanVars == <<version, node, waitedFor, command, at, candidates, offered, baseline,
               ranUnder>>
vars == <<dispatchVars, cleanVars>>

Step == [step : Steps, priority : Priorities]
Offer == [step : Steps, priority : Priorities, manager : Managers]
VersionMap == [Managers -> Versions \cup {NoAnswer}]
NoCommand == [op |-> "none", node |-> NoNode, version |-> NoVersion]
Command == [op : {"get_clean_steps", "execute_clean_step"}, node : Nodes,
            version : VersionMap \cup {NoVersion}]
At == {"idle", "cache", "wait", "cached", "list", "support", "version", "check", "run"}

Init ==
    /\ DispatchInit
    /\ version \in [Managers -> Versions]
    /\ node = NoNode
    /\ waitedFor = NoNode
    /\ command = NoCommand
    /\ at = "idle"
    /\ candidates = NoAnswers
    /\ offered = {}
    /\ baseline = NoVersion
    /\ ranUnder = {}

TypeOK ==
    /\ DispatchTypeOK
    /\ version \in [Managers -> Versions]
    /\ node \in Nodes \cup {NoNode} /\ waitedFor \in Nodes \cup {NoNode}
    /\ command \in Command \cup {NoCommand}
    /\ at \in At
    /\ candidates \in [Managers -> (SUBSET Step) \cup {NoAnswer}]
    /\ offered \subseteq Offer
    /\ baseline \in VersionMap \cup {NoVersion}
    /\ ranUnder \subseteq VersionMap

-------------------------------------------------------------------------------
\* Ironic sends a command; a clean step comes with the versions it has kept.
Begin(op, n) ==
    /\ at = "idle" /\ at' = "cache"
    /\ command' = [op |-> op, node |-> n,
                   version |-> IF op = "execute_clean_step" THEN baseline
                                                            ELSE NoVersion]
    /\ UNCHANGED <<dispatchVars, version, node, waitedFor, candidates,
                   offered, baseline, ranUnder>>

\* Mutant: a process that has cached a node does not compare it with the new one.
CacheAnyNode ==
    /\ at = "cache"
    /\ node' = command.node
    /\ IF node = NoNode
         THEN at' = "wait" /\ Dispatch("wait_for_disks", FALSE)
         ELSE at' = "cached" /\ UNCHANGED dispatchVars
    /\ UNCHANGED <<version, waitedFor, command, candidates, offered, baseline, ranUnder>>

\* cache_node: a new node is stored first, as its hints say what to wait for.
CacheNode ==
    /\ at = "cache"
    /\ node' = command.node
    /\ IF node # command.node
         THEN at' = "wait" /\ Dispatch("wait_for_disks", FALSE)
         ELSE at' = "cached" /\ UNCHANGED dispatchVars
    /\ UNCHANGED <<version, waitedFor, command, candidates, offered, baseline, ranUnder>>

\* The root device has appeared, or the manager gave up with a warning.
DisksWaitedFor ==
    /\ at = "wait" /\ status = "returned"
    /\ at' = "cached"
    /\ waitedFor' = node
    /\ DispatchDone
    /\ UNCHANGED <<version, node, command, candidates, offered, baseline,
                   ranUnder>>

\* A dispatch ends in an exception: the command fails, and the node stays cached.
CommandFails ==
    /\ at # "idle" /\ status \in {"raised", "not_found"}
    /\ at' = "idle" /\ command' = NoCommand
    /\ candidates' = NoAnswers /\ offered' = {}
    /\ waitedFor' = IF at = "wait" THEN node ELSE waitedFor
    /\ DispatchDone
    /\ UNCHANGED <<version, node, baseline, ranUnder>>

-------------------------------------------------------------------------------
(* The managers answer.  Every manager has a version, and reports the       *)
(* support it finds, which may change, or raises; whether it takes the other *)
(* methods is its own affair.                                                *)

ManagerAnswers ==
    \/ method = "get_clean_steps" /\ \E s \in SUBSET Step : ManagerReturns(s)
    \/ method = "evaluate_hardware_support" /\ \E v \in Support : ManagerReturns(v)
    \/ method = "get_version" /\ ManagerReturns(version[Called])
    \/ method \in {"wait_for_disks", "step"} /\ ManagerReturns(TRUE)
    \/ method \notin {"evaluate_hardware_support", "get_version"} /\ ManagerDeclines
    \/ method # "get_version" /\ ManagerRaises
    \/ ManagersExhausted

CallManager == at # "idle" /\ ManagerAnswers /\ UNCHANGED cleanVars

-------------------------------------------------------------------------------
(* get_clean_steps *)

ListSteps ==
    /\ at = "cached" /\ command.op = "get_clean_steps"
    /\ at' = "list"
    /\ Dispatch("get_clean_steps", TRUE)
    /\ UNCHANGED <<version, node, waitedFor, command, candidates, offered, baseline,
                   ranUnder>>

\* _deduplicate_steps asks for the support again, as it is now.
EvaluateSupport ==
    /\ at = "list" /\ status = "returned"
    /\ at' = "support"
    /\ candidates' = answers
    /\ Dispatch("evaluate_hardware_support", TRUE)
    /\ UNCHANGED <<version, node, waitedFor, command, offered, baseline, ranUnder>>

\* The candidates for a step: steps of a manager whose support is known.
StepList(s) ==
    {c \in Offer : /\ c.step = s
                   /\ answers[c.manager] # NoAnswer
                   /\ candidates[c.manager] # NoAnswer
                   /\ [step |-> s, priority |-> c.priority] \in candidates[c.manager]}

\* Mutant: the priority is compared before the support.
WinnersByPriority(s) ==
    LET steps == StepList(s)
        urgent == {c \in steps : \A d \in steps : d.priority <= c.priority}
        best == {c \in urgent : \A d \in urgent : answers[d.manager] <= answers[c.manager]}
    IN  {c \in best : \A d \in best : c.manager <= d.manager}

\* Filtered by support, then by priority, and of these the first by name.
Winners(s) ==
    LET steps == StepList(s)
        best == {c \in steps : \A d \in steps : answers[d.manager] <= answers[c.manager]}
        urgent == {c \in best : \A d \in best : d.priority <= c.priority}
    IN  {c \in urgent : \A d \in urgent : c.manager <= d.manager}

\* _deduplicate_steps, and _get_current_clean_version is asked for.
Deduplicate ==
    /\ at = "support" /\ status = "returned"
    /\ at' = "version"
    /\ offered' = UNION {Winners(s) : s \in Steps}
    /\ Dispatch("get_version", TRUE)
    /\ UNCHANGED <<version, node, waitedFor, command, candidates, baseline, ranUnder>>

\* The steps and the versions are returned; Ironic begins a cycle of cleaning.
ReturnSteps ==
    /\ at = "version" /\ status = "returned"
    /\ at' = "idle" /\ command' = NoCommand
    /\ baseline' = answers
    /\ ranUnder' = {}
    /\ candidates' = NoAnswers /\ offered' = {}
    /\ DispatchDone
    /\ UNCHANGED <<version, node, waitedFor>>

-------------------------------------------------------------------------------
(* execute_clean_step *)

\* _check_clean_version, if the step came with versions.
CheckVersion ==
    /\ at = "cached" /\ command.op = "execute_clean_step"
    /\ command.version # NoVersion
    /\ at' = "check"
    /\ Dispatch("get_version", TRUE)
    /\ UNCHANGED <<version, node, waitedFor, command, candidates, offered, baseline,
                   ranUnder>>

\* CleanVersionMismatch is raised.
VersionMismatch ==
    /\ at = "check" /\ status = "returned" /\ answers # command.version
    /\ at' = "idle" /\ command' = NoCommand
    /\ DispatchDone
    /\ UNCHANGED <<version, node, waitedFor, candidates, offered, baseline, ranUnder>>

\* The versions of the managers this process has loaded.
RunningVersions ==
    [m \in Managers |-> IF m \in Range(managers) THEN version[m] ELSE NoAnswer]

\* Mutant: a version of the agent is right if no manager has another one.
VersionsCompatible ==
    \/ at = "cached" /\ command.version = NoVersion
    \/ /\ at = "check" /\ status = "returned"
       /\ \A m \in Answered : command.version[m] \in {answers[m], NoAnswer}

\* No version was given (the first run), or it is the one of this agent.
VersionAccepted ==
    \/ at = "cached" /\ command.version = NoVersion
    \/ at = "check" /\ status = "returned" /\ answers = command.version

\* The step is dispatched like any method, under its name.
RunStep ==
    /\ command.op = "execute_clean_step"
    /\ VersionAccepted
    /\ at' = "run"
    /\ Dispatch("step", FALSE)
    /\ UNCHANGED <<version, node, waitedFor, command, candidates, offered, baseline>>
    /\ ranUnder' = IF baseline = NoVersion THEN {} ELSE ranUnder \cup {RunningVersions'}

\* A step without a name is refused, after the version is checked.
MalformedStep ==
    /\ command.op = "execute_clean_step"
    /\ VersionAccepted
    /\ at' = "idle" /\ command' = NoCommand
    /\ DispatchDone
    /\ UNCHANGED <<version, node, waitedFor, candidates, offered, baseline, ranUnder>>

\* CleaningError if the dispatch raises: CommandFails.
StepCompleted ==
    /\ at = "run" /\ status = "returned"
    /\ at' = "idle" /\ command' = NoCommand
    /\ DispatchDone
    /\ UNCHANGED <<version, node, waitedFor, candidates, offered, baseline, ranUnder>>

-------------------------------------------------------------------------------
(* The environment *)

\* A reboot that a step requested, or a crash; maybe into a newer ramdisk.
Reboot ==
    /\ DispatchRestart
    /\ version' \in [Managers -> Versions]
    /\ node' = NoNode /\ waitedFor' = NoNode
    /\ at' = "idle" /\ command' = NoCommand
    /\ candidates' = NoAnswers /\ offered' = {}
    /\ UNCHANGED <<baseline, ranUnder>>

Next ==
    \/ \E n \in Nodes, op \in {"get_clean_steps", "execute_clean_step"} : Begin(op, n)
    \/ CacheNode \/ DisksWaitedFor \/ CommandFails \/ CallManager
    \/ ListSteps \/ EvaluateSupport \/ Deduplicate \/ ReturnSteps
    \/ CheckVersion \/ VersionMismatch \/ MalformedStep \/ RunStep \/ StepCompleted
    \/ Reboot

Spec == Init /\ [][Next]_vars

-------------------------------------------------------------------------------
\* The order the docstring of _deduplicate_steps gives the candidates.
Beats(c, d) ==
    \/ answers[c.manager] > answers[d.manager]
    \/ answers[c.manager] = answers[d.manager] /\ c.priority > d.priority
    \/ /\ answers[c.manager] = answers[d.manager] /\ c.priority = d.priority
       /\ c.manager < d.manager

\* _deduplicate_steps offers every step that a manager has named, once, and that
\* of the manager that beats all others, whatever the order of the responses and
\* although the support may have changed since the managers were sorted.
DeduplicationIsRight ==
    [][Deduplicate => \A s \in Steps :
        LET steps == StepList(s)
            kept == {c \in offered' : c.step = s}
        IN  /\ kept \subseteq steps
            /\ steps # {} => /\ Cardinality(kept) = 1
                             /\ \A c \in kept : \A d \in steps \ kept : Beats(c, d)
      ]_vars

\* Since the steps were offered, execute_clean_step has run none under managers,
\* or versions of them, other than those that offered the steps, whatever was
\* rebooted in between.
CycleUsesOneVersion == baseline # NoVersion => ranUnder \subseteq {baseline}

\* A step is run with the node of its command cached, and after a wait for the root
\* device of that node, not of the one cached before it, has ended in this process;
\* a wait that ended in an exception is not repeated.
StepRunsForItsNode ==
    at \in {"check", "run"} => node = command.node /\ waitedFor = node
===============================================================================
