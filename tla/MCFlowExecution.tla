---------------------------- MODULE MCFlowExecution ----------------------------
(* A small instance of FlowExecution: the outer flow and the nested flows in   *)
(* the threads of its steps.                                                   *)
EXTENDS FlowExecution

MCCallers == {Outer} \cup Ids
MCSteps == {"sync", "async", "flow"}
===============================================================================
