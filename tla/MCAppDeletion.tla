----------------------------- MODULE MCAppDeletion -----------------------------
(***************************************************************************)
(* Instances of AppDeletion for TLC: a database and a web tier in two      *)
(* waves, a CRD that is never deleted, and one hook of each kind.          *)
(***************************************************************************)
EXTENDS AppDeletion

TwoWaves == [db |-> 0, web |-> 1, crd |-> 2, dump |-> 0, notify |-> 0]
SucceededPolicies == [dump |-> {"HookSucceeded"}, notify |-> {"HookSucceeded"}]

\* A cascaded deletion of an application with both kinds of hooks.
Base == [requests |-> {"cascade"}, declared |-> {}, git |-> HookKinds, commits |-> 0,
         lag |-> {}, faults |-> 0, proj |-> "live"]

DeletionPlans ==
    { [Base EXCEPT !.faults = 1],
      [Base EXCEPT !.lag = {"app"}, !.proj = "deleting"],
      [Base EXCEPT !.lag = {"live"}, !.git = {"pre"}],
      [Base EXCEPT !.commits = 2, !.git = {"pre"}],
      [Base EXCEPT !.requests = {"orphan", "cascade"}, !.git = {"post"}],
      [Base EXCEPT !.requests = {"orphan", "plain"}, !.declared = {"cascade"}, !.git = {}] }
=============================================================================
