----------------------------- MODULE CleaningProofs -----------------------------
(***************************************************************************)
(* A clean step runs for its node and under the versions of the managers   *)
(* that offered it, and each step is offered once, of the manager that has *)
(* precedence, for any managers, nodes, steps, priorities and versions.    *)
(***************************************************************************)
EXTENDS Cleaning, FiniteSetTheorems, SequenceTheorems, WellFoundedInduction, TLAPS

\* The node that is cached is the one waited for, but during the wait for it.
NodeInv ==
    /\ at # "wait" => waitedFor = node
    /\ at \notin {"idle", "cache"} => node = command.node

\* What the managers before the next one have answered to get_version.
VersionsSoFar ==
    [m \in Managers |-> IF \E i \in 1 .. next - 1 : managers[i] = m THEN version[m]
                                                                  ELSE NoAnswer]

\* get_version goes to all the managers of the list, and each of them answers.
DispatchInv ==
    /\ managers \in Seq(Managers)
    /\ next \in 1 .. Len(managers) + 1
    /\ method = "get_version" => toAll = TRUE
    /\ method = "get_version" /\ status \in {"calling", "returned"} =>
           managers # << >> /\ answers = VersionsSoFar
    /\ method = "get_version" /\ status = "returned" => next = Len(managers) + 1

\* A command carries the versions that Ironic keeps, and they are compared with what
\* get_version has returned.
VersionInv ==
    /\ at # "idle" /\ command.op = "execute_clean_step" => command.version = baseline
    /\ at = "check" => method = "get_version"
    /\ CycleUsesOneVersion

-------------------------------------------------------------------------------
LEMMA InitNodeInv == Init => NodeInv
BY DEF Init, NodeInv

\* The node is stored before the wait, and the end of the wait settles it.
LEMMA NextKeepsNodeInv ==
    ASSUME NodeInv, [Next]_vars PROVE NodeInv'
<1>1. CASE \E n \in Nodes, op \in {"get_clean_steps", "execute_clean_step"} : Begin(op, n)
  BY <1>1 DEF Begin, NodeInv
<1>2. CASE CacheNode
  BY <1>2 DEF CacheNode, NodeInv
<1>3. CASE DisksWaitedFor \/ CommandFails \/ Reboot
  BY <1>3 DEF DisksWaitedFor, CommandFails, Reboot, NodeInv
<1>4. CASE CallManager \/ UNCHANGED vars
  BY <1>4 DEF CallManager, vars, cleanVars, NodeInv
<1>5. CASE ListSteps \/ EvaluateSupport \/ Deduplicate \/ CheckVersion \/ RunStep
  <2>1. at \in {"cached", "list", "support", "check"}
        /\ at' \in {"list", "support", "version", "check", "run"}
    BY <1>5 DEF ListSteps, EvaluateSupport, Deduplicate, CheckVersion, RunStep,
                VersionAccepted
  <2>2. UNCHANGED <<node, waitedFor, command>>
    BY <1>5 DEF ListSteps, EvaluateSupport, Deduplicate, CheckVersion, RunStep
  <2> QED
    BY <2>1, <2>2 DEF NodeInv
<1>6. CASE ReturnSteps \/ VersionMismatch \/ MalformedStep \/ StepCompleted
  <2>1. at # "wait" /\ at' = "idle" /\ UNCHANGED <<node, waitedFor>>
    BY <1>6 DEF ReturnSteps, VersionMismatch, MalformedStep, StepCompleted,
                VersionAccepted
  <2> QED
    BY <2>1 DEF NodeInv
<1> QED
  BY <1>1, <1>2, <1>3, <1>4, <1>5, <1>6 DEF Next

\* Every clean step runs with its own node cached, whose root device was waited for.
THEOREM StepHasItsNode == Spec => []StepRunsForItsNode
<1>1. NodeInv => StepRunsForItsNode
  BY DEF NodeInv, StepRunsForItsNode
<1> QED
  BY <1>1, InitNodeInv, NextKeepsNodeInv, PTL DEF Spec

-------------------------------------------------------------------------------
LEMMA InitDispatchInv == Init => DispatchInv
BY DEF Init, DispatchInit, DispatchInv

LEMMA FunctionIsSeq ==
    ASSUME NEW S, NEW n \in Nat, NEW f \in [1 .. n -> S] PROVE f \in Seq(S)
<1>1. f = [i \in 1 .. n |-> f[i]]
  OBVIOUS
<1>2. [i \in 1 .. n |-> f[i]] \in Seq(S)
  OBVIOUS
<1> QED
  BY <1>1, <1>2

\* The list of managers is a sequence of managers.
LEMMA ListsAreSequences ==
    ASSUME NEW list \in ManagerLists, managers \in Seq(Managers)
    PROVE  list \in Seq(Managers)
<1>1. CASE managers # << >>
  BY <1>1 DEF ManagerLists
<1>2. CASE managers = << >>
  <2>1. PICK support \in [Managers -> Support] : list \in PriorityOrders(support)
    BY <1>2 DEF ManagerLists
  <2> DEFINE supporting == {m \in Managers : support[m] > 0}
  <2>2. list \in [1 .. Cardinality(supporting) -> supporting]
    BY <2>1 DEF PriorityOrders
  <2>3. Cardinality(supporting) \in Nat
    <3>1. IsFiniteSet(supporting)
      BY FS_Subset, ManagersAssumption
    <3> QED
      BY <3>1, FS_CardinalityType
  <2>4. list \in [1 .. Cardinality(supporting) -> Managers]
    BY <2>2
  <2> HIDE DEF supporting
  <2> QED
    BY <2>3, <2>4, FunctionIsSeq
<1> QED
  BY <1>1, <1>2

\* A dispatch begins with no answers.
LEMMA DispatchKeepsInv ==
    ASSUME NEW m, NEW all \in BOOLEAN, DispatchInv, Dispatch(m, all),
           m = "get_version" => all = TRUE
    PROVE  DispatchInv'
<1>1. PICK list \in ManagerLists :
        /\ managers' = list
        /\ status' = IF list = << >> THEN "raised" ELSE "calling"
        /\ method' = m /\ toAll' = all /\ next' = 1 /\ answers' = NoAnswers
  BY DEF Dispatch
<1>2. managers' \in Seq(Managers)
  BY <1>1, ListsAreSequences DEF DispatchInv
<1>3. VersionsSoFar' = NoAnswers
  BY <1>1 DEF VersionsSoFar, NoAnswers
<1> QED
  BY <1>1, <1>2, <1>3 DEF DispatchInv

\* Each manager adds its version.
LEMMA AnswerKeepsDispatchInv ==
    ASSUME DispatchInv, ManagerAnswers, UNCHANGED version
    PROVE  DispatchInv'
<1>1. CASE \E v : ManagerReturns(v) /\ (method = "get_version" => v = version[Called])
  <2>1. PICK v : ManagerReturns(v) /\ (method = "get_version" => v = version[Called])
    BY <1>1
  <2>2. CASE method = "get_version"
    <3>0. /\ toAll = TRUE /\ status = "calling" /\ next \in 1 .. Len(managers)
          /\ answers = VersionsSoFar /\ managers # << >> /\ managers \in Seq(Managers)
      <4>1. Len(managers) \in Nat
        BY DEF DispatchInv
      <4> QED
        BY <4>1, <2>1, <2>2 DEF ManagerReturns, DispatchInv
    <3>1. /\ next' = next + 1
          /\ answers' = [answers EXCEPT ![managers[next]] = version[managers[next]]]
          /\ UNCHANGED <<managers, method, toAll, status, version>>
      BY <2>1, <2>2, <3>0 DEF ManagerReturns, Called
    <3>2. answers' = VersionsSoFar'
      <4>1. \A m \in Managers :
              (\E i \in 1 .. next' - 1 : managers'[i] = m)
              <=> (\E i \in 1 .. next - 1 : managers[i] = m) \/ managers[next] = m
        BY <3>0, <3>1
      <4>2. answers' = [m \in Managers |->
                          IF m = managers[next] THEN version[managers[next]]
                                                ELSE answers[m]]
        <5>1. DOMAIN answers = Managers
          BY <3>0 DEF VersionsSoFar
        <5> QED
          BY <3>1, <5>1
      <4>3. ASSUME NEW m \in Managers
            PROVE  (IF m = managers[next] THEN version[managers[next]] ELSE answers[m])
                   = (IF \E i \in 1 .. next' - 1 : managers'[i] = m THEN version'[m]
                                                                   ELSE NoAnswer)
        <5>1. answers[m] = IF \E i \in 1 .. next - 1 : managers[i] = m THEN version[m]
                                                                      ELSE NoAnswer
          BY <3>0 DEF VersionsSoFar
        <5>2. CASE m = managers[next]
          BY <3>1, <4>1, <5>2
        <5>3. CASE m # managers[next]
          BY <3>1, <4>1, <5>1, <5>3
        <5> QED
          BY <5>2, <5>3
      <4> QED
        BY <4>2, <4>3, Zenon DEF VersionsSoFar
    <3> QED
      BY <2>2, <3>0, <3>1, <3>2 DEF DispatchInv
  <2>3. CASE method # "get_version"
    BY <2>1, <2>3 DEF ManagerReturns, DispatchInv
  <2> QED
    BY <2>2, <2>3
<1>2. CASE method # "get_version" /\ ManagerDeclines
  BY <1>2 DEF ManagerDeclines, DispatchInv
<1>3. CASE method # "get_version" /\ ManagerRaises
  BY <1>3 DEF ManagerRaises, DispatchInv
<1>4. CASE ManagersExhausted
  <2>1. /\ next = Len(managers) + 1 /\ status = "calling"
        /\ UNCHANGED <<managers, method, toAll, next, answers, version>>
    BY <1>4 DEF ManagersExhausted, DispatchInv
  <2>2. VersionsSoFar' = VersionsSoFar
    BY <2>1 DEF VersionsSoFar
  <2> QED
    BY <2>1, <2>2 DEF DispatchInv
<1> QED
  BY <1>1, <1>2, <1>3, <1>4 DEF ManagerAnswers

LEMMA NextKeepsDispatchInv ==
    ASSUME DispatchInv, [Next]_vars PROVE DispatchInv'
<1>1. CASE UNCHANGED <<dispatchVars, version>>
  BY <1>1 DEF dispatchVars, DispatchInv, VersionsSoFar
<1>2. ASSUME Dispatch("wait_for_disks", FALSE) \/ Dispatch("step", FALSE)
               \/ (\E m \in Methods : Dispatch(m, TRUE))
      PROVE  DispatchInv'
  <2>1. CASE Dispatch("wait_for_disks", FALSE)
    BY <2>1, DispatchKeepsInv
  <2>2. CASE Dispatch("step", FALSE)
    BY <2>2, DispatchKeepsInv
  <2>3. CASE \E m \in Methods : Dispatch(m, TRUE)
    BY <2>3, DispatchKeepsInv
  <2> QED
    BY <1>2, <2>1, <2>2, <2>3
<1>3. CASE CallManager
  BY <1>3, AnswerKeepsDispatchInv DEF CallManager, cleanVars
<1>4. CASE DispatchDone \/ DispatchRestart
  <2>1. managers' \in Seq(Managers)
    BY <1>4, EmptySeq DEF DispatchDone, DispatchRestart, DispatchInv
  <2>2. Len(managers') \in Nat
    BY <2>1
  <2>3. next' = 1 /\ method' = "none"
    BY <1>4 DEF DispatchDone, DispatchRestart
  <2> QED
    BY <2>1, <2>2, <2>3 DEF DispatchInv
<1>5. CASE \E n \in Nodes, op \in {"get_clean_steps", "execute_clean_step"} : Begin(op, n)
  BY <1>5, <1>1 DEF Begin
<1>6. CASE CacheNode
  BY <1>6, <1>1, <1>2 DEF CacheNode
<1>7. CASE ListSteps \/ EvaluateSupport \/ Deduplicate \/ CheckVersion \/ RunStep
  BY <1>7, <1>2 DEF ListSteps, EvaluateSupport, Deduplicate, CheckVersion, RunStep,
                    Methods
<1>8. CASE \/ DisksWaitedFor \/ CommandFails \/ ReturnSteps \/ VersionMismatch
           \/ MalformedStep \/ StepCompleted \/ Reboot
  BY <1>8, <1>4 DEF DisksWaitedFor, CommandFails, ReturnSteps, VersionMismatch,
                    MalformedStep, StepCompleted, Reboot
<1>9. CASE UNCHANGED vars
  BY <1>9, <1>1 DEF vars, cleanVars
<1> QED
  BY <1>3, <1>5, <1>6, <1>7, <1>8, <1>9 DEF Next

-------------------------------------------------------------------------------
LEMMA InitVersionInv == Init => VersionInv
BY DEF Init, VersionInv, CycleUsesOneVersion

\* Once all have answered, the answers are the versions of the running managers.
LEMMA AnswersAreRunning ==
    ASSUME DispatchInv, at = "check", method = "get_version", status = "returned",
           UNCHANGED <<managers, version>>
    PROVE  answers = RunningVersions'
<1>1. answers = VersionsSoFar /\ next - 1 = Len(managers) /\ managers \in Seq(Managers)
  BY DEF DispatchInv
<1>2. \A m : m \in Range(managers) <=> \E i \in 1 .. next - 1 : managers[i] = m
  BY <1>1 DEF Range
<1> QED
  BY <1>1, <1>2 DEF VersionsSoFar, RunningVersions

\* A step under versions that Ironic keeps is run only after they were compared.
LEMMA RunStepKeepsVersionInv ==
    ASSUME DispatchInv, VersionInv, RunStep PROVE VersionInv'
<1>1. at' = "run" /\ at # "idle" /\ UNCHANGED <<command, baseline, version>>
      /\ command.version = baseline
  BY DEF RunStep, VersionAccepted, VersionInv
<1>2. CASE baseline = NoVersion
  BY <1>1, <1>2 DEF VersionInv, CycleUsesOneVersion
<1>3. CASE baseline # NoVersion
  <2>1. at = "check" /\ status = "returned" /\ answers = baseline /\ method = "get_version"
    BY <1>1, <1>3 DEF RunStep, VersionAccepted, VersionInv
  <2>2. managers # << >>
    BY <2>1 DEF DispatchInv
  <2>3. managers' = managers
    BY <2>2 DEF RunStep, Dispatch, ManagerLists
  <2>4. answers = RunningVersions'
    BY <1>1, <2>1, <2>3, AnswersAreRunning
  <2>5. ranUnder' = ranUnder \cup {RunningVersions'}
    BY <1>3 DEF RunStep
  <2> QED
    BY <1>1, <1>3, <2>1, <2>4, <2>5 DEF VersionInv, CycleUsesOneVersion
<1> QED
  BY <1>2, <1>3

LEMMA NextKeepsVersionInv ==
    ASSUME DispatchInv, VersionInv, [Next]_vars PROVE VersionInv'
<1>1. CASE \E n \in Nodes, op \in {"get_clean_steps", "execute_clean_step"} : Begin(op, n)
  BY <1>1 DEF Begin, VersionInv, CycleUsesOneVersion
<1>2. CASE CacheNode \/ DisksWaitedFor \/ ListSteps \/ EvaluateSupport \/ Deduplicate
  <2>1. at # "idle" /\ at' # "check" /\ UNCHANGED <<command, baseline, ranUnder>>
    BY <1>2 DEF CacheNode, DisksWaitedFor, ListSteps, EvaluateSupport, Deduplicate
  <2> QED
    BY <2>1 DEF VersionInv, CycleUsesOneVersion
<1>3. CASE CheckVersion
  BY <1>3 DEF CheckVersion, Dispatch, VersionInv, CycleUsesOneVersion
<1>4. CASE CallManager
  <2>1. UNCHANGED method
    BY <1>4 DEF CallManager, ManagerAnswers, ManagerReturns, ManagerDeclines, ManagerRaises,
                ManagersExhausted
  <2> QED
    BY <1>4, <2>1 DEF CallManager, cleanVars, VersionInv, CycleUsesOneVersion
<1>5. CASE RunStep
  BY <1>5, RunStepKeepsVersionInv
<1>6. CASE ReturnSteps
  BY <1>6 DEF ReturnSteps, VersionInv, CycleUsesOneVersion
<1>7. CASE CommandFails \/ VersionMismatch \/ MalformedStep \/ StepCompleted \/ Reboot
  BY <1>7 DEF CommandFails, VersionMismatch, MalformedStep, StepCompleted, Reboot,
              VersionInv, CycleUsesOneVersion
<1>8. CASE UNCHANGED vars
  BY <1>8 DEF vars, dispatchVars, cleanVars, VersionInv, CycleUsesOneVersion
<1> QED
  BY <1>1, <1>2, <1>3, <1>4, <1>5, <1>6, <1>7, <1>8 DEF Next

\* A cycle of cleaning runs under one version of the managers, whatever is rebooted.
THEOREM OneVersionPerCycle == Spec => []CycleUsesOneVersion
<1>1. VersionInv => CycleUsesOneVersion
  BY DEF VersionInv
<1> QED
  BY <1>1, InitDispatchInv, NextKeepsDispatchInv, InitVersionInv, NextKeepsVersionInv,
     PTL DEF Spec

-------------------------------------------------------------------------------
\* A command that waits for a dispatch waits for that of its own method.
MethodInv ==
    /\ at = "wait" => method = "wait_for_disks"
    /\ at = "list" => method = "get_clean_steps"
    /\ at = "support" => method = "evaluate_hardware_support"
    /\ at \in {"version", "check"} => method = "get_version"

\* The answers are of the type of that method.
AnswersInv ==
    /\ at = "list" => answers \in [Managers -> (SUBSET Step) \cup {NoAnswer}]
    /\ at = "support" => answers \in [Managers -> Support \cup {NoAnswer}]
    /\ at \in {"version", "check"} => answers \in VersionMap

TypeInv == TypeOK /\ MethodInv /\ AnswersInv

LEMMA InitTypeInv == Init => TypeInv
<1>1. << >> \in Seq(Managers) /\ Len(<< >>) = 0
  BY EmptySeq
<1>2. NoAnswers \in [Managers -> (SUBSET Step) \cup {NoAnswer}]
  BY DEF NoAnswers
<1>3. ASSUME Init PROVE DispatchTypeOK
  <2>1. managers \in Seq(Managers) /\ Len(managers) = 0
    BY <1>1, <1>3 DEF Init, DispatchInit
  <2>2. next \in 1 .. Len(managers) + 1
    BY <1>3, <2>1 DEF Init, DispatchInit
  <2> QED
    BY <1>3, <2>1, <2>2 DEF Init, DispatchInit, DispatchTypeOK, Methods, Status, NoAnswers
<1>4. ASSUME Init PROVE MethodInv /\ AnswersInv
  BY <1>4 DEF Init, MethodInv, AnswersInv
<1> QED
  BY <1>2, <1>3, <1>4 DEF Init, TypeInv, TypeOK, At

\* A dispatch begins with no answers, which are of the type of every method.
LEMMA DispatchKeepsTypes ==
    ASSUME NEW m \in Methods, NEW all \in BOOLEAN, DispatchTypeOK, Dispatch(m, all)
    PROVE  DispatchTypeOK' /\ method' = m /\ answers' = NoAnswers
<1>1. PICK list \in ManagerLists :
        /\ managers' = list
        /\ status' = IF list = << >> THEN "raised" ELSE "calling"
        /\ method' = m /\ toAll' = all /\ next' = 1 /\ answers' = NoAnswers
  BY DEF Dispatch
<1>2. managers' \in Seq(Managers)
  BY <1>1, ListsAreSequences DEF DispatchTypeOK
<1>3. Len(managers') \in Nat
  BY <1>2
<1> QED
  BY <1>1, <1>2, <1>3 DEF DispatchTypeOK, Status, NoAnswers

LEMMA DoneKeepsTypes ==
    ASSUME DispatchTypeOK, DispatchDone \/ DispatchRestart PROVE DispatchTypeOK'
<1>1. managers' \in Seq(Managers)
  BY EmptySeq DEF DispatchDone, DispatchRestart, DispatchTypeOK
<1>2. Len(managers') \in Nat
  BY <1>1
<1>3. 1 \in 1 .. Len(managers') + 1
  BY <1>2
<1> QED
  BY <1>1, <1>3 DEF DispatchDone, DispatchRestart, DispatchTypeOK, Methods, Status,
                    NoAnswers

\* An answer is of the type of its method.
LEMMA AnswerKeepsTypes ==
    ASSUME TypeInv, CallManager PROVE TypeInv'
<1>0. Len(managers) \in Nat
  BY DEF TypeInv, TypeOK, DispatchTypeOK
<1>1. UNCHANGED <<managers, method, toAll>> /\ UNCHANGED cleanVars
  BY DEF CallManager, ManagerAnswers, ManagerReturns, ManagerDeclines, ManagerRaises,
         ManagersExhausted
<1>2. TypeOK' <=> DispatchTypeOK'
  BY <1>1 DEF cleanVars, TypeInv, TypeOK
<1>3. MethodInv'
  BY <1>1 DEF cleanVars, TypeInv, MethodInv
<1>4. ASSUME NEW v, ManagerReturns(v),
             at = "list" => v \in SUBSET Step,
             at = "support" => v \in Support,
             at \in {"version", "check"} => v \in Versions
      PROVE  TypeInv'
  <2>1. Called \in Managers
    BY <1>0, <1>4 DEF ManagerReturns, Called, TypeInv, TypeOK, DispatchTypeOK
  <2>2. answers' = [answers EXCEPT ![Called] = v] /\ UNCHANGED at
    BY <1>1, <1>4 DEF ManagerReturns, cleanVars
  <2>3. DispatchTypeOK'
    BY <1>0, <1>1, <1>4, <2>2 DEF ManagerReturns, TypeInv, TypeOK, DispatchTypeOK, Status
  <2>4. AnswersInv'
    <3>1. at = "list" => answers' \in [Managers -> (SUBSET Step) \cup {NoAnswer}]
      BY <1>4, <2>1, <2>2 DEF TypeInv, AnswersInv
    <3>2. at = "support" => answers' \in [Managers -> Support \cup {NoAnswer}]
      BY <1>4, <2>1, <2>2 DEF TypeInv, AnswersInv
    <3>3. at \in {"version", "check"} => answers' \in VersionMap
      BY <1>4, <2>1, <2>2 DEF TypeInv, AnswersInv, VersionMap
    <3>4. VersionMap' = VersionMap
      BY DEF VersionMap
    <3> QED
      BY <2>2, <3>1, <3>2, <3>3, <3>4 DEF AnswersInv
  <2> QED
    BY <1>2, <1>3, <2>3, <2>4 DEF TypeInv
<1>5. CASE \E s \in SUBSET Step : method = "get_clean_steps" /\ ManagerReturns(s)
  BY <1>4, <1>5 DEF TypeInv, MethodInv
<1>6. CASE \E v \in Support : method = "evaluate_hardware_support" /\ ManagerReturns(v)
  BY <1>4, <1>6 DEF TypeInv, MethodInv
<1>7. CASE method = "get_version" /\ ManagerReturns(version[Called])
  <2>1. Called \in Managers
    BY <1>0, <1>7 DEF ManagerReturns, Called, TypeInv, TypeOK, DispatchTypeOK
  <2>2. version[Called] \in Versions
    BY <2>1 DEF TypeInv, TypeOK
  <2> QED
    BY <1>4, <1>7, <2>2 DEF TypeInv, MethodInv
<1>8. CASE method \in {"wait_for_disks", "step"} /\ ManagerReturns(TRUE)
  BY <1>4, <1>8 DEF TypeInv, MethodInv
<1>9. CASE ManagerDeclines \/ ManagerRaises \/ ManagersExhausted
  <2>1. UNCHANGED <<answers, at>>
    BY <1>1, <1>9 DEF ManagerDeclines, ManagerRaises, ManagersExhausted, cleanVars
  <2>2. DispatchTypeOK'
    BY <1>0, <1>9 DEF ManagerDeclines, ManagerRaises, ManagersExhausted, TypeInv, TypeOK,
                      DispatchTypeOK, Status
  <2> QED
    BY <1>2, <1>3, <2>1, <2>2 DEF TypeInv, AnswersInv, VersionMap
<1> QED
  BY <1>5, <1>6, <1>7, <1>8, <1>9 DEF CallManager, ManagerAnswers

LEMMA NextKeepsTypeInv ==
    ASSUME TypeInv, [Next]_vars PROVE TypeInv'
<1>0. DispatchTypeOK /\ TypeOK
  BY DEF TypeInv, TypeOK
<1>1. NoAnswers \in [Managers -> (SUBSET Step) \cup {NoAnswer}]
      /\ NoAnswers \in [Managers -> Support \cup {NoAnswer}]
      /\ NoAnswers \in VersionMap
  BY DEF NoAnswers, VersionMap
<1>2. ASSUME NEW n \in Nodes, NEW op \in {"get_clean_steps", "execute_clean_step"},
             Begin(op, n)
      PROVE  TypeInv'
  <2>1. command' \in Command
    BY <1>0, <1>2 DEF Begin, TypeOK, Command
  <2>2. DispatchTypeOK'
    BY <1>0, <1>2 DEF Begin, dispatchVars, DispatchTypeOK
  <2> QED
    BY <1>0, <1>2, <2>1, <2>2 DEF Begin, TypeInv, TypeOK, MethodInv, AnswersInv, At
<1>3. CASE CacheNode
  <2>1. command.node \in Nodes \cup {NoNode}
    BY <1>0 DEF TypeOK, Command, NoCommand
  <2>2. CASE node # command.node
    <3>1. DispatchTypeOK' /\ method' = "wait_for_disks"
      BY <1>0, <1>3, <2>2, DispatchKeepsTypes DEF CacheNode, Methods
    <3> QED
      BY <1>0, <1>3, <2>1, <2>2, <3>1
         DEF CacheNode, TypeInv, TypeOK, MethodInv, AnswersInv, At
  <2>3. CASE node = command.node
    <3>1. DispatchTypeOK'
      BY <1>0, <1>3, <2>3 DEF CacheNode, dispatchVars, DispatchTypeOK
    <3> QED
      BY <1>0, <1>3, <2>1, <2>3, <3>1
         DEF CacheNode, TypeInv, TypeOK, MethodInv, AnswersInv, At
  <2> QED
    BY <2>2, <2>3
<1>4. CASE DisksWaitedFor \/ CommandFails \/ VersionMismatch \/ MalformedStep
           \/ StepCompleted
  <2>1. DispatchDone
    BY <1>4 DEF DisksWaitedFor, CommandFails, VersionMismatch, MalformedStep, StepCompleted
  <2>2. DispatchTypeOK'
    BY <1>0, <2>1, DoneKeepsTypes
  <2>3. TypeOK'
    BY <1>0, <1>1, <1>4, <2>2 DEF DisksWaitedFor, CommandFails, VersionMismatch,
       MalformedStep, StepCompleted, TypeOK, At
  <2>4. at' \in {"idle", "cached"}
    BY <1>4 DEF DisksWaitedFor, CommandFails, VersionMismatch, MalformedStep, StepCompleted
  <2> QED
    BY <2>3, <2>4 DEF TypeInv, MethodInv, AnswersInv
<1>5. CASE CallManager
  BY <1>5, AnswerKeepsTypes
<1>6. CASE ListSteps
  <2>1. DispatchTypeOK' /\ method' = "get_clean_steps" /\ answers' = NoAnswers
    BY <1>0, <1>6, DispatchKeepsTypes DEF ListSteps, Methods
  <2> QED
    BY <1>0, <1>1, <1>6, <2>1 DEF ListSteps, TypeInv, TypeOK, MethodInv, AnswersInv, At
<1>7. CASE EvaluateSupport
  <2>1. DispatchTypeOK' /\ method' = "evaluate_hardware_support" /\ answers' = NoAnswers
    BY <1>0, <1>7, DispatchKeepsTypes DEF EvaluateSupport, Methods
  <2>2. candidates' \in [Managers -> (SUBSET Step) \cup {NoAnswer}]
    BY <1>7 DEF EvaluateSupport, TypeInv, AnswersInv
  <2> QED
    BY <1>0, <1>1, <1>7, <2>1, <2>2
       DEF EvaluateSupport, TypeInv, TypeOK, MethodInv, AnswersInv, At
<1>8. CASE Deduplicate
  <2>1. DispatchTypeOK' /\ method' = "get_version" /\ answers' = NoAnswers
    BY <1>0, <1>8, DispatchKeepsTypes DEF Deduplicate, Methods
  <2>2. offered' \subseteq Offer
    <3>1. \A s \in Steps : Winners(s) \subseteq Offer
      BY DEF Winners, StepList
    <3> QED
      BY <1>8, <3>1 DEF Deduplicate
  <2> QED
    BY <1>0, <1>1, <1>8, <2>1, <2>2
       DEF Deduplicate, TypeInv, TypeOK, MethodInv, AnswersInv, At, VersionMap
<1>9. CASE ReturnSteps
  <2>1. DispatchTypeOK'
    BY <1>0, <1>9, DoneKeepsTypes DEF ReturnSteps
  <2>2. baseline' \in VersionMap
    BY <1>9 DEF ReturnSteps, TypeInv, AnswersInv
  <2> QED
    BY <1>0, <1>1, <1>9, <2>1, <2>2
       DEF ReturnSteps, TypeInv, TypeOK, MethodInv, AnswersInv, At
<1>10. CASE CheckVersion
  <2>1. DispatchTypeOK' /\ method' = "get_version" /\ answers' = NoAnswers
    BY <1>0, <1>10, DispatchKeepsTypes DEF CheckVersion, Methods
  <2> QED
    BY <1>0, <1>1, <1>10, <2>1
       DEF CheckVersion, TypeInv, TypeOK, MethodInv, AnswersInv, At, VersionMap
<1>11. CASE RunStep
  <2>1. DispatchTypeOK'
    BY <1>0, <1>11, DispatchKeepsTypes DEF RunStep, Methods
  <2>2. RunningVersions' \in VersionMap
    BY <1>0, <1>11 DEF RunStep, TypeOK, RunningVersions, VersionMap
  <2>3. ranUnder' \subseteq VersionMap
    BY <1>0, <1>11, <2>2 DEF RunStep, TypeOK
  <2> QED
    BY <1>0, <1>11, <2>1, <2>3 DEF RunStep, TypeInv, TypeOK, MethodInv, AnswersInv, At
<1>12. CASE Reboot
  <2>1. DispatchTypeOK'
    BY <1>0, <1>12, DoneKeepsTypes DEF Reboot
  <2> QED
    BY <1>0, <1>1, <1>12, <2>1 DEF Reboot, TypeInv, TypeOK, MethodInv, AnswersInv, At
<1>13. CASE UNCHANGED vars
  <2>1. DispatchTypeOK'
    BY <1>0, <1>13 DEF vars, dispatchVars, DispatchTypeOK
  <2> QED
    BY <1>13, <2>1 DEF vars, dispatchVars, cleanVars, TypeInv, TypeOK, MethodInv, AnswersInv,
                VersionMap
<1> QED
  BY <1>2, <1>3, <1>4, <1>5, <1>6, <1>7, <1>8, <1>9, <1>10, <1>11, <1>12, <1>13 DEF Next

\* What is stored and what the managers answer is always of the type it is used as.
THEOREM TypeCorrect == Spec => []TypeOK
<1>1. TypeInv => TypeOK
  BY DEF TypeInv
<1> QED
  BY <1>1, InitTypeInv, NextKeepsTypeInv, PTL DEF Spec

-------------------------------------------------------------------------------
\* A finite set of numbers has a greatest element: fewer numbers of the set are above
\* it than above any other.
LEMMA GreatestNumber ==
    ASSUME NEW T, T \subseteq Nat, IsFiniteSet(T), T # {}
    PROVE  \E x \in T : \A y \in T : y <= x
<1> DEFINE Above(x) == {y \in T : x < y}
           sizes == {Cardinality(Above(x)) : x \in T}
           less == OpToRel(<, Nat)
<1>1. \A x \in T : IsFiniteSet(Above(x)) /\ Cardinality(Above(x)) \in Nat
  <2> TAKE x \in T
  <2>1. Above(x) \in SUBSET T
    OBVIOUS
  <2>2. IsFiniteSet(Above(x))
    BY <2>1, FS_Subset
  <2> QED
    BY <2>2, FS_CardinalityType
<1>2. sizes \subseteq Nat /\ sizes # {}
  BY <1>1
<1>3. PICK n \in sizes : \A k \in sizes : ~ (<<k, n>> \in less)
  <2> HIDE DEF sizes, less
  <2>1. IsWellFoundedOn(less, Nat)
    BY NatLessThanWellFounded DEF less
  <2> QED
    BY <1>2, <2>1, WFMin
<1>4. \A k \in sizes : ~ (k < n)
  BY <1>2, <1>3 DEF OpToRel
<1>5. PICK x \in T : n = Cardinality(Above(x))
  OBVIOUS
<1>6. ASSUME NEW y \in T, x < y PROVE FALSE
  <2>1. Above(y) \in SUBSET Above(x) /\ y \in Above(x) /\ y \notin Above(y)
    <3>1. \A a, b, c \in Nat : a < b /\ b < c => a < c
      OBVIOUS
    <3>2. \A z \in T : y < z => x < z
      BY <1>6, <3>1
    <3>3. ~ (y < y)
      OBVIOUS
    <3> QED
      BY <1>6, <3>2, <3>3
  <2>2. Cardinality(Above(y)) <= Cardinality(Above(x))
        /\ Cardinality(Above(y)) # Cardinality(Above(x))
    <3> HIDE DEF Above
    <3> QED
      BY <1>1, <2>1, FS_Subset
  <2>3. Cardinality(Above(y)) \in sizes
    BY <1>6
  <2> QED
    <3> HIDE DEF Above, sizes
    <3> QED
      BY <1>1, <1>4, <1>5, <2>2, <2>3
<1>7. \A y \in T : y <= x
  BY <1>6
<1> QED
  BY <1>7

LEMMA LeastNumber ==
    ASSUME NEW T, T \subseteq Nat, T # {}
    PROVE  \E x \in T : \A y \in T : x <= y
<1> DEFINE less == OpToRel(<, Nat)
<1>1. PICK x \in T : \A y \in T : ~ (<<y, x>> \in less)
  <2> HIDE DEF less
  <2>1. IsWellFoundedOn(less, Nat)
    BY NatLessThanWellFounded DEF less
  <2> QED
    BY <2>1, WFMin
<1>2. \A y \in T : <<y, x>> \in less <=> y < x
  BY DEF OpToRel
<1>3. \A y \in T : ~ (y < x)
  <2> HIDE DEF less
  <2> QED
    BY <1>1, <1>2, Zenon
<1>4. \A y \in T : y \in Nat /\ x \in Nat
  OBVIOUS
<1> QED
  BY <1>3, <1>4

\* Of the candidates for a step there is one winner, which beats all the others.
LEMMA WinnerBeatsOthers ==
    ASSUME NEW s, answers \in [Managers -> Support \cup {NoAnswer}], StepList(s) # {}
    PROVE  \E c \in StepList(s) : /\ Winners(s) = {c}
                                  /\ \A d \in StepList(s) \ {c} : Beats(c, d)
<1> DEFINE steps == StepList(s)
           best == {c \in steps : \A d \in steps : answers[d.manager] <= answers[c.manager]}
           urgent == {c \in best : \A d \in best : d.priority <= c.priority}
<1>1. \A c \in steps : /\ answers[c.manager] \in Support
                       /\ c.priority \in Priorities /\ c.manager \in Managers
                       /\ c.step = s
                       /\ c = [step |-> s, priority |-> c.priority, manager |-> c.manager]
  BY DEF StepList, Offer
<1>2. Support \subseteq Nat /\ IsFiniteSet(Support)
  BY FS_Interval, MaxSupportAssumption DEF Support
<1>3. best # {}
  <2> DEFINE T == {answers[c.manager] : c \in steps}
  <2>1. T \subseteq Support /\ T # {}
    BY <1>1
  <2>2. IsFiniteSet(T)
    BY <1>2, <2>1, FS_Subset
  <2>3. PICK x \in T : \A y \in T : y <= x
    <3> HIDE DEF T
    <3> QED
      BY <1>2, <2>1, <2>2, GreatestNumber
  <2> QED
    BY <2>3
<1>4. urgent # {}
  <2> DEFINE T == {c.priority : c \in best}
  <2>1. T \subseteq Priorities /\ T # {}
    BY <1>1, <1>3
  <2>2. IsFiniteSet(T)
    BY <2>1, FS_Subset, PrioritiesAssumption
  <2>3. PICK x \in T : \A y \in T : y <= x
    <3> HIDE DEF T
    <3> QED
      BY <2>1, <2>2, GreatestNumber, PrioritiesAssumption
  <2> QED
    BY <2>3
<1>5. Winners(s) # {}
  <2> DEFINE T == {c.manager : c \in urgent}
  <2>1. T \subseteq Nat /\ T # {}
    BY <1>1, <1>4, ManagersAssumption
  <2>2. PICK x \in T : \A y \in T : x <= y
    <3> HIDE DEF T
    <3> QED
      BY <2>1, LeastNumber
  <2> QED
    BY <2>2 DEF Winners
<1>6. PICK c : c \in Winners(s)
  BY <1>5
<1>7. /\ c \in steps
      /\ \A d \in steps : answers[d.manager] <= answers[c.manager]
      /\ \A d \in best : d.priority <= c.priority
      /\ \A d \in urgent : c.manager <= d.manager
  BY <1>6 DEF Winners
<1>8. ASSUME NEW d \in steps, d # c PROVE Beats(c, d) /\ d \notin Winners(s)
  <2>1. /\ answers[c.manager] \in Nat /\ answers[d.manager] \in Nat
        /\ c.priority \in Nat /\ d.priority \in Nat
        /\ c.manager \in Nat /\ d.manager \in Nat
    BY <1>1, <1>2, <1>7, PrioritiesAssumption, ManagersAssumption
  <2>2. c.priority # d.priority \/ c.manager # d.manager
    BY <1>1, <1>7, <1>8
  <2>3. CASE answers[d.manager] < answers[c.manager]
    <3>1. d \notin best
      BY <1>7, <2>1, <2>3
    <3> QED
      BY <2>1, <2>3, <3>1 DEF Beats, Winners
  <2>4. CASE answers[d.manager] = answers[c.manager] /\ d.priority < c.priority
    <3>1. c \in best
      BY <1>7
    <3>2. d \notin urgent
      BY <2>1, <2>4, <3>1
    <3> QED
      BY <2>1, <2>4, <3>2 DEF Beats, Winners
  <2>5. CASE answers[d.manager] = answers[c.manager] /\ d.priority = c.priority
    <3>1. d \in urgent /\ c \in urgent
      BY <1>7, <2>5
    <3>2. c.manager < d.manager
      BY <1>7, <2>1, <2>2, <2>5, <3>1
    <3>3. d \notin Winners(s)
      BY <2>1, <3>1, <3>2 DEF Winners
    <3> QED
      BY <2>1, <2>5, <3>2, <3>3 DEF Beats
  <2>6. d \in best \/ answers[d.manager] < answers[c.manager]
    BY <1>7, <2>1
  <2> QED
    BY <1>7, <1>8, <2>1, <2>3, <2>4, <2>5, <2>6
<1>9. Winners(s) \subseteq steps
  BY DEF Winners
<1>10. Winners(s) = {c}
  <2> HIDE DEF steps
  <2> QED
    BY <1>6, <1>8, <1>9
<1> QED
  BY <1>7, <1>8, <1>10

\* The steps that are offered under a name are the winners for it.
LEMMA DeduplicateIsRight ==
    ASSUME TypeInv, Deduplicate, NEW s \in Steps
    PROVE  LET steps == StepList(s)
               kept == {c \in offered' : c.step = s}
           IN  /\ kept \subseteq steps
               /\ steps # {} => /\ Cardinality(kept) = 1
                                /\ \A c \in kept : \A d \in steps \ kept : Beats(c, d)
<1> DEFINE steps == StepList(s)
           kept == {c \in offered' : c.step = s}
<1>1. \A t \in Steps : Winners(t) \subseteq StepList(t)
                      /\ \A c \in StepList(t) : c.step = t
  BY DEF Winners, StepList
<1>2. kept = Winners(s)
  BY <1>1 DEF Deduplicate
<1>3. kept \subseteq steps
  BY <1>1, <1>2
<1>4. ASSUME steps # {}
      PROVE  Cardinality(kept) = 1 /\ \A c \in kept : \A d \in steps \ kept : Beats(c, d)
  <2>1. answers \in [Managers -> Support \cup {NoAnswer}]
    BY DEF Deduplicate, TypeInv, AnswersInv
  <2>2. PICK c \in steps : kept = {c} /\ \A d \in steps \ {c} : Beats(c, d)
    BY <1>2, <1>4, <2>1, WinnerBeatsOthers
  <2>3. Cardinality(kept) = 1
    BY <2>2, FS_Singleton
  <2> QED
    BY <2>2, <2>3
<1> QED
  BY <1>3, <1>4

\* Whatever the managers, their steps and the support they report, each step is offered
\* once, of the manager that the docstring of _deduplicate_steps gives precedence.
THEOREM StepsAreDeduplicated == Spec => DeduplicationIsRight
<1>1. TypeInv /\ [Next]_vars =>
        [Deduplicate => \A s \in Steps :
            LET steps == StepList(s)
                kept == {c \in offered' : c.step = s}
            IN  /\ kept \subseteq steps
                /\ steps # {} => /\ Cardinality(kept) = 1
                                 /\ \A c \in kept : \A d \in steps \ kept : Beats(c, d)
        ]_vars
  BY DeduplicateIsRight
<1> QED
  BY <1>1, InitTypeInv, NextKeepsTypeInv, PTL DEF Spec, DeduplicationIsRight
===============================================================================
