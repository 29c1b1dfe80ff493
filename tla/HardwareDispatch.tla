---------------------------- MODULE HardwareDispatch ----------------------------
(***************************************************************************)
(* The dispatch of a method to the hardware managers.  They are loaded and *)
(* sorted by the support they report at the first call of a process; a     *)
(* method then goes through that list, to the first manager that takes it  *)
(* or to all of them.                                                      *)
(***************************************************************************)
EXTENDS Naturals, Sequences, FiniteSets, Functions

CONSTANTS
    Managers,     \* the hardware managers: ranks of their names in the alphabet
    MaxSupport,   \* bound: the levels of hardware support
    NoAnswer      \* the answer of a manager that has not given any

ASSUME ManagersAssumption == IsFiniteSet(Managers) /\ Managers \subseteq Nat
ASSUME MaxSupportAssumption == MaxSupport \in Nat \ {0}

VARIABLES
    managers,  \* _global_managers, << >> before the first call
    method,    \* the method being dispatched
    toAll,     \* by dispatch_to_all_managers
    next,      \* the place in the list of the manager whose turn it is
    answers,   \* what each manager has returned
    status     \* of the dispatch

dispatchVars == <<managers, method, toAll, next, answers, status>>

Support == 0 .. MaxSupport
Methods == {"none", "wait_for_disks", "get_clean_steps", "evaluate_hardware_support",
            "get_version", "step"}
Status == {"idle", "calling", "returned", "raised", "not_found"}
NoAnswers == [m \in Managers |-> NoAnswer]

DispatchInit ==
    /\ managers = << >>
    /\ method = "none"
    /\ toAll = FALSE
    /\ next = 1
    /\ answers = NoAnswers
    /\ status = "idle"

DispatchTypeOK ==
    /\ managers \in Seq(Managers)
    /\ method \in Methods
    /\ toAll \in BOOLEAN
    /\ next \in 1 .. Len(managers) + 1
    /\ DOMAIN answers = Managers
    /\ status \in Status

-------------------------------------------------------------------------------
\* The lists _get_managers may build: the managers that support this hardware,
\* best first, in any order where they report the same.
PriorityOrders(support) ==
    LET supporting == {m \in Managers : support[m] > 0}
    IN  {s \in [1 .. Cardinality(supporting) -> supporting] :
            /\ IsInjective(s)
            /\ \A i, j \in DOMAIN s : i < j => support[s[i]] >= support[s[j]]}

\* _get_managers: the list is built at the first call in a process, for the
\* support that evaluate_hardware_support finds at that time.
ManagerLists ==
    IF managers # << >> THEN {managers}
    ELSE UNION {PriorityOrders(support) : support \in [Managers -> Support]}

\* A method is dispatched: HardwareManagerNotFound if there is no manager.
Dispatch(m, all) ==
    \E list \in ManagerLists :
        /\ managers' = list
        /\ status' = IF list = << >> THEN "raised" ELSE "calling"
        /\ method' = m
        /\ toAll' = all
        /\ next' = 1
        /\ answers' = NoAnswers

Called == managers[next]

\* The manager returns v: that is the result, or one of the responses.
ManagerReturns(v) ==
    /\ status = "calling" /\ next <= Len(managers)
    /\ answers' = [answers EXCEPT ![Called] = v]
    /\ IF toAll THEN next' = next + 1 /\ UNCHANGED status
                ELSE status' = "returned" /\ UNCHANGED next
    /\ UNCHANGED <<managers, method, toAll>>

\* Mutant: a manager after the last one is asked.
DeclinesPastEnd ==
    /\ status = "calling" /\ next <= Len(managers) + 1
    /\ next' = next + 1
    /\ UNCHANGED <<managers, method, toAll, answers, status>>

\* It does not have the method, or raises IncompatibleHardwareMethodError.
ManagerDeclines ==
    /\ status = "calling" /\ next <= Len(managers)
    /\ next' = next + 1
    /\ UNCHANGED <<managers, method, toAll, answers, status>>

\* Any other exception ends the dispatch.
ManagerRaises ==
    /\ status = "calling" /\ next <= Len(managers)
    /\ status' = "raised"
    /\ UNCHANGED <<managers, method, toAll, next, answers>>

Answered == {m \in Managers : answers[m] # NoAnswer}

\* No manager is left: HardwareManagerMethodNotFound if none has answered.
ManagersExhausted ==
    /\ status = "calling" /\ next > Len(managers)
    /\ status' = IF Answered = {} THEN "not_found" ELSE "returned"
    /\ UNCHANGED <<managers, method, toAll, next, answers>>

\* The caller of the dispatch has taken its result.
DispatchDone ==
    /\ status' = "idle"
    /\ method' = "none"
    /\ toAll' = FALSE
    /\ next' = 1
    /\ answers' = NoAnswers
    /\ UNCHANGED managers

\* The process is started anew.
DispatchRestart ==
    /\ managers' = << >>
    /\ status' = "idle"
    /\ method' = "none"
    /\ toAll' = FALSE
    /\ next' = 1
    /\ answers' = NoAnswers
===============================================================================
