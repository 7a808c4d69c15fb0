---------------------------- MODULE LoadPromise ----------------------------
(***************************************************************************)
(* What one connector run promises the DAG that called it: it ends, and it *)
(* either fails and hands over nothing, or succeeds and hands over, all at *)
(* once, one of the deliveries its input asks for. SpecRun implements it.  *)
(***************************************************************************)
CONSTANTS Inputs,          \* the inputs a run may be called with
          Deliverable(_)   \* the deliveries an input asks for

VARIABLES input,     \* what the run was called with
          outcome,   \* "running", "done" or "failed"
          handed     \* the transformed files the caller may publish, in order

vars == <<input, outcome, handed>>

Init == /\ input \in Inputs
        /\ outcome = "running"
        /\ handed = <<>>

Deliver == /\ outcome = "running"
           /\ outcome' = "done"
           /\ handed' \in Deliverable(input)
           /\ UNCHANGED input

Refuse == /\ outcome = "running"
          /\ outcome' = "failed"
          /\ UNCHANGED <<input, handed>>

Next == Deliver \/ Refuse

Spec == Init /\ [][Next]_vars /\ WF_vars(Next)
============================================================================
