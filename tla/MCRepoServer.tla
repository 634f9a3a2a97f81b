---------------------------- MODULE MCRepoServer ----------------------------
(* Instances of RepoServer. *)
EXTENDS RepoServer

MCCalls == Reqs \X (0..MaxRefs)

Ref(path, rev) == [path |-> path, rev |-> rev, synced |-> 1]
Nothing == [kind |-> "manifest", app |-> "x", path |-> "A", rev |-> 1, refs |-> << >>,
          synced |-> 1, noCache |-> FALSE, params |-> "none", builds |-> FALSE,
          plugin |-> FALSE, submodules |-> TRUE, times |-> 0]
Of(app, rev) == [Nothing EXCEPT !.app = app, !.rev = rev, !.times = 1]
Branch == 0
Asks(a, b, c) == [p |-> a, q |-> b, r |-> c]

Clone == [rev |-> None, edits |-> {}, built |-> None]
\* Revisions 2 and 3 differ in no file of the applications.
Base == [reqs |-> Asks(Nothing, Nothing, Nothing), head |-> [A |-> 1, B |-> 1],
         last |-> [A |-> 2, B |-> 2], tree |-> [A |-> Clone, B |-> Clone],
         content |-> [A |-> <<1, 2, 2>>, B |-> <<1, 2, 2>>], threshold |-> 0, requests |-> 0,
         minutes |-> FALSE, limit |-> 0,
         budget |-> [checkouts |-> 0, failures |-> 0, pushes |-> 0]]

\* One application whose generation fails: the pause, and what crosses it.
Hard == [Of("x", 1) EXCEPT !.noCache = TRUE]
Again(n) == [Of("x", 1) EXCEPT !.times = n]
Pausing(n, m, t) == [Base EXCEPT !.threshold = n, !.requests = m, !.minutes = t, !.budget.failures = n]
PausePlans ==
    {[Pausing(1, m, m = 0) EXCEPT !.reqs = Asks(Again(2), Again(1), Hard)] : m \in {0, 1}}
        \cup {[Pausing(2, 1, FALSE) EXCEPT !.reqs = Asks(Again(3), Again(2), Nothing)]}

\* Requests for different revisions of one repository, of every kind.
Chart(app, rev) == [Of(app, rev) EXCEPT !.builds = TRUE]
Images(app, rev) == [Of(app, rev) EXCEPT !.params = "images"]
Plugin(app, rev) == [Of(app, rev) EXCEPT !.plugin = TRUE]
Files(rev) == [Of("files", rev) EXCEPT !.kind = "files"]
Comparison(app, from, to) == [Of(app, to) EXCEPT !.kind = "compare", !.synced = from]
Left == [rev |-> 2, edits |-> {}, built |-> 2]
Sharing(limit, asks) == [Base EXCEPT !.tree.A = Left, !.limit = limit, !.budget.checkouts = 1, !.reqs = asks]
Unclean(app, rev) == [Chart(app, rev) EXCEPT !.submodules = FALSE]
RevisionPlans ==
    {[Sharing(1, Asks(Chart("x", Branch), Images("y", 1), Files(Branch))) EXCEPT !.budget.pushes = 1],
     Sharing(0, Asks(Chart("x", 1), Images("y", 1), Images("z", 1))),
     Sharing(2, Asks(Plugin("x", 2), Images("y", 1), Chart("z", 2))),
     Sharing(0, Asks(Unclean("x", 1), Unclean("x", 2), Images("y", 1)))}

\* An application is compared with what was synced while it is asked for.
ComparePlans ==
    {[Base EXCEPT !.last.A = 3, !.head.A = 3, !.threshold = 1, !.requests = 1, !.budget.failures = 1,
        !.budget.checkouts = 1, !.reqs = a] :
        a \in {Asks(Chart("x", 2), Comparison("x", 2, 3), Chart("x", 3)),
               Asks(Chart("x", 1), Comparison("x", 1, 2), Chart("x", 2))}}

\* Values from other repositories.
Values(app, rev, refs) == [Of(app, rev) EXCEPT !.refs = refs]
RefPlans ==
    {[Base EXCEPT !.budget.pushes = 1, !.budget.checkouts = 1, !.reqs = a] :
        a \in {Asks(Values("x", 1, <<Ref("B", Branch)>>), Values("y", 2, <<Ref("B", 1)>>), Nothing),
               Asks(Values("x", 1, <<Ref("B", Branch)>>), Values("x", 1, <<Ref("B", Branch)>>), Nothing),
               Asks(Values("x", Branch, <<Ref("A", Branch)>>), Of("y", 1), Nothing),
               Asks(Values("x", 1, <<Ref("B", 1), Ref("B", Branch)>>), Of("y", 2), Nothing),
               Asks(Values("x", 1, <<Ref("B", 1), Ref("B", 1)>>), Nothing, Nothing),
               Asks(Values("x", 2, <<Ref("B", 1)>>),
                    [Comparison("x", 2, 3) EXCEPT !.refs = <<Ref("B", Branch)>>], Nothing)}}

\* Orders that cross, and a request that waits for itself.
CrossPlans ==
    {[Base EXCEPT !.reqs = Asks(Values("x", 1, <<Ref("B", 1)>>),
                                [Values("y", 2, <<Ref("A", 2)>>) EXCEPT !.path = "B"], Of("z", 1))],
     [Base EXCEPT !.reqs = Asks([Images("x", 1) EXCEPT !.refs = <<Ref("A", 1)>>], Of("y", 1), Nothing)]}

\* Two applications with a count of replicas.
Replicas(app) == [Of(app, 1) EXCEPT !.params = "replicas"]
ReplicasPlans == {[Base EXCEPT !.reqs = Asks(Replicas("x"), Replicas("y"), Nothing)]}

ServerPlans == PausePlans \cup RevisionPlans \cup ComparePlans \cup RefPlans \cup CrossPlans
=============================================================================
