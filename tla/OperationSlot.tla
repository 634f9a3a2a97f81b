---------------------------- MODULE OperationSlot ----------------------------
(***************************************************************************)
(* What an Application promises to whoever starts a sync: it has room for  *)
(* one operation.  An operation is accepted when there is none, stays      *)
(* until it is completed, and its completion leaves an outcome that names  *)
(* it.  AppOperation is the controller and API server that keep this       *)
(* promise.                                                                *)
(***************************************************************************)
CONSTANTS
    Operations,  \* the operations that may be asked for
    NoOp,        \* no operation
    NoOutcome    \* no outcome

VARIABLES
    current,     \* the operation accepted and not completed
    outcome      \* the operation completed last and how it ended

slotVars == <<current, outcome>>

SlotInit ==
    /\ current = NoOp
    /\ outcome = NoOutcome

Accept ==
    /\ current = NoOp
    /\ current' \in Operations
    /\ outcome' = NoOutcome

Complete ==
    /\ current # NoOp
    /\ current' = NoOp
    /\ \E phase \in {"Succeeded", "Failed", "Error"} :
          outcome' = <<current, phase>>

SlotNext == Accept \/ Complete

SlotSpec == SlotInit /\ [][SlotNext]_slotVars
==============================================================================
