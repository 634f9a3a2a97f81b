-------------------------- MODULE MCReconciliation --------------------------
(* Instances of Reconciliation. *)
EXTENDS Reconciliation, TLC

\* From the first source, the second commit changes a and adds b, the third changes nothing.
\* The second source is empty at first, then it has b.
TwoSources ==
    <<<<"a" :> 1 @@ "b" :> 0, "a" :> 2 @@ "b" :> 1, "a" :> 2 @@ "b" :> 1>>,
      <<"a" :> 0 @@ "b" :> 0, "a" :> 0 @@ "b" :> 1, "a" :> 0 @@ "b" :> 1>>>>

Quiet == [e \in {"commit", "drift", "child", "ask", "edit", "enable", "sync", "late", "fault", "fail"}
          |-> 0]
Base == [selfHeal |-> FALSE, prune |-> FALSE, allowEmpty |-> FALSE, exponential |-> FALSE,
         auto |-> TRUE, window |-> TRUE, refs |-> FALSE, lag |-> 1, left |-> Quiet]
With(counts) == counts @@ Quiet

RefreshPlans ==
    {\* commits while syncs run, references stored late, and a sync that fails
     [Base EXCEPT !.refs = TRUE, !.left = With("commit" :> 2)],
     [Base EXCEPT !.refs = TRUE, !.left = With("commit" :> 1 @@ "late" :> 1)],
     [Base EXCEPT !.left = With("commit" :> 1 @@ "fail" :> 1)],
     \* drift under self-heal, with a fixed and with a growing backoff
     [Base EXCEPT !.selfHeal = TRUE, !.left = With("drift" :> 2)],
     [Base EXCEPT !.selfHeal = TRUE, !.exponential = TRUE, !.left = With("drift" :> 2)],
     \* another source, whose manifests are empty at first
     [Base EXCEPT !.prune = TRUE, !.left = With("edit" :> 1 @@ "commit" :> 1)],
     \* a user's sync next to auto-sync
     [Base EXCEPT !.left = With("sync" :> 1 @@ "commit" :> 1)],
     [Base EXCEPT !.left = With("sync" :> 1 @@ "fail" :> 1)],
     \* syncs fail while the watch lags
     [Base EXCEPT !.lag = 2, !.window = FALSE, !.left = With("fail" :> 2)],
     \* refresh requests
     [Base EXCEPT !.left = With("ask" :> 2 @@ "child" :> 1)],
     \* automation is switched on while a window is closed
     [Base EXCEPT !.auto = FALSE, !.window = FALSE, !.left = With("enable" :> 1 @@ "ask" :> 1)],
     \* faults
     [Base EXCEPT !.selfHeal = TRUE, !.left = With("drift" :> 1 @@ "fault" :> 1)],
     [Base EXCEPT !.left = With("commit" :> 1 @@ "fault" :> 1)],
     [Base EXCEPT !.left = With("ask" :> 1 @@ "fault" :> 1)]}
==============================================================================
