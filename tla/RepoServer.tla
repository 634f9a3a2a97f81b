----------------------------- MODULE RepoServer -----------------------------
(* Requests to the repo server: manifests of an application, files of a      *)
(* repository, and the comparison of two revisions.  A request resolves the  *)
(* revisions it is about, looks for a cached answer, and otherwise works in  *)
(* the clone of the repository under RepositoryLock; the manifests of an     *)
(* application that takes values from other repositories also need those.    *)
(* Failures of manifest generation are cached: after enough of them          *)
(* generation pauses and requests are answered with the cached error.        *)
EXTENDS RepositoryLock, Sequences

CONSTANTS Reqs,      \* requests in progress at a time
          MaxRefs,   \* repositories a request refers to, besides its own
          Plans      \* scenarios

ASSUME RequestConstants == IsFiniteSet(Reqs) /\ MaxRefs \in Nat /\ Calls = Reqs \X (0..MaxRefs)

\* Commits of a repository are numbered; None stands for its branch.
ASSUME PlansTyped ==
    \A pl \in Plans :
        /\ pl.tree \in [Paths -> Trees]
        /\ \A r \in Paths : /\ pl.last[r] \in Nat /\ 1..pl.last[r] \subseteq Revisions
                            /\ pl.head[r] \in 1..pl.last[r]
        /\ pl.head = [r \in Paths |-> pl.head[r]]
        /\ \A p \in Reqs :
              LET q == pl.reqs[p] IN
              /\ q.kind \in {"manifest", "files", "compare"}
              /\ q.path \in Paths /\ q.rev \in Revisions \cup {None}
              /\ q.refs \in Seq([path : Paths, rev : Revisions \cup {None}, synced : Revisions])
              /\ Len(q.refs) <= MaxRefs
              /\ q.submodules \in BOOLEAN

VARIABLES
    plan,      \* the requests and the settings of the server
    head,      \* commit of the branch of each repository
    req,       \* progress of each request
    permits,   \* requests that hold a permit of the parallelism limit
    cache,     \* the shared cache: manifests and failures, by key
    budget,    \* events that may still happen
    failed,    \* history: failures by key since the last success or reset
    late,      \* history: keys overwritten from an outdated copy
    kept       \* history: clones checked out with other dependencies in them

vars == <<state, tree, call, plan, head, req, permits, cache, budget, failed, late, kept>>
histories == <<failed, late, kept>>

Main(p) == <<p, 0>>
CallsOf(p) == {<<p, i>> : i \in 0..MaxRefs}
AllOut(p) == \A c \in CallsOf(p) : call[c].at = "out"

NoManifest == [path |-> NoPath, main |-> None, deps |-> None, refs |-> <<>>, foreign |-> FALSE]
NoEntry == [ok |-> NoManifest, failures |-> 0, returned |-> 0]
Idle(n) == [pc |-> "idle", left |-> n, rev |-> None, refs |-> <<>>, locked |-> <<>>,
            copy |-> NoEntry, saw |-> NoManifest]

Init ==
    /\ plan \in Plans
    /\ state = [r \in Paths |-> Fresh]
    /\ tree = plan.tree
    /\ call = [c \in Calls |-> Out]
    /\ head = plan.head
    /\ req = [p \in Reqs |-> Idle(plan.reqs[p].times)]
    /\ permits = {}
    /\ cache = << >>
    /\ budget = plan.budget
    /\ failed = << >>
    /\ late = {}
    /\ kept = {}

\* What an application is made of at a commit: equal for two commits that
\* differ in none of its files.
Content(path, rev) == IF rev = None THEN None ELSE plan.content[path][rev]

\* Request p goes on to pc, with other fields changed as given.
Goto(p, pc) == req' = [req EXCEPT ![p].pc = pc]

-----------------------------------------------------------------------------
(* Revisions.  A commit stands for itself, a branch for its head, or for an  *)
(* earlier one as long as the references of the repository are cached.       *)

Resolutions(path, wanted, fresh) ==
    CASE wanted # None -> {wanted}
      [] wanted = None /\ fresh -> {head[path]}
      [] wanted = None /\ ~fresh -> 1..head[path]

\* Kustomize parameters are applied by editing kustomization.yaml; a count of
\* replicas is not among the parameters this looks at.
AllowsConcurrentProcessing(q) == q.params # "images"
EditsFiles(q) == q.params # "none"

\* Earlier references to the repository of the i-th.
SameBefore(q, i) == {j \in 1..(i - 1) : q.refs[j].path = q.refs[i].path}

\* A repository referred to twice is resolved once.  A comparison resolves the
\* repositories it refers to as it gets to them.
Resolve(p) ==
    LET q == plan.reqs[p] IN
    /\ req[p].pc = "idle"
    /\ req[p].left > 0
    /\ \E v \in Resolutions(q.path, q.rev, q.noCache),
          rs \in [DOMAIN q.refs -> Revisions] :
         /\ \A i \in DOMAIN q.refs :
              IF q.kind = "compare" THEN rs[i] = q.refs[i].synced
              ELSE IF SameBefore(q, i) # {} THEN \A j \in SameBefore(q, i) : rs[i] = rs[j]
              ELSE rs[i] \in Resolutions(q.refs[i].path, q.refs[i].rev, q.noCache)
         /\ req' = [req EXCEPT ![p].rev = v, ![p].refs = rs,
                      ![p].pc = CASE q.kind = "compare" -> "compare"
                                  [] q.kind = "manifest" /\ q.noCache -> "permit"
                                  [] OTHER -> "cached"]
    /\ UNCHANGED <<lockVars, plan, head, permits, cache, budget, histories>>

-----------------------------------------------------------------------------
(* The cache of manifests and of failures to generate them.                  *)

Key(app, rev, refs) == [app |-> app, rev |-> rev, refs |-> refs]
LookupKey(p) == Key(plan.reqs[p].app, req[p].rev, req[p].refs)
StoreKey(p) == Key(plan.reqs[p].app, req[p].rev, req[p].locked)

Put(f, k, e) == [x \in DOMAIN f \cup {k} |-> IF x = k THEN e ELSE f[x]]
Without(f, k) == [x \in DOMAIN f \ {k} |-> f[x]]
Get(f, k, default) == IF k \in DOMAIN f THEN f[k] ELSE default

\* What a look at the cache can decide.  An entry with failures counts as a
\* miss until there are enough of them, and as a cached error from then on,
\* until it has been returned often enough, or long enough has passed.
Verdicts(k) ==
    LET e == Get(cache, k, NoEntry)
        paused == plan.threshold > 0 /\ e.failures >= plan.threshold
        spent == plan.requests > 0 /\ e.returned > 0 /\ e.returned >= plan.requests
    IN CASE k \notin DOMAIN cache -> {"miss"}
         [] k \in DOMAIN cache /\ e.failures = 0 -> {"hit"}
         [] k \in DOMAIN cache /\ e.failures > 0 /\ ~paused -> {"miss"}
         [] OTHER ->
              (IF spent THEN {"reset"} ELSE {"paused"}) \cup (IF plan.minutes THEN {"reset"} ELSE {})

CheckCache(p) ==
    /\ req[p].pc = "cached"
    /\ \E v \in Verdicts(LookupKey(p)) :
         req' = [req EXCEPT ![p].copy = IF v = "paused" THEN cache[LookupKey(p)] ELSE NoEntry,
                   ![p].pc = CASE v = "hit" -> "done"
                               [] v = "paused" -> "count"
                               [] v = "reset" -> "reset"
                               [] v = "miss" /\ plan.reqs[p].kind = "manifest" -> "permit"
                               [] OTHER -> "lock"]
    /\ UNCHANGED <<lockVars, plan, head, permits, cache, budget, histories>>

\* The second look, with the clone locked.
Recheck(p) ==
    /\ req[p].pc = "recheck"
    /\ \E v \in Verdicts(LookupKey(p)) :
         Goto(p, CASE v \in {"hit", "paused"} -> "done"
                   [] v = "reset" -> "reset"
                   [] OTHER -> "refs")
    /\ UNCHANGED <<lockVars, plan, head, permits, cache, budget, histories>>

\* An entry is written back from a copy.  It is outdated if the failures it
\* counts were cleared in the meantime.
WriteBack(k, copy, e) ==
    /\ cache' = Put(cache, k, e)
    /\ late' = IF Get(cache, k, NoEntry).failures < copy.failures THEN late \cup {k} ELSE late

\* The cached error is returned, and the number of times it was is stored.
CountAnswer(p) ==
    /\ req[p].pc = "count"
    /\ WriteBack(LookupKey(p), req[p].copy, [req[p].copy EXCEPT !.returned = @ + 1])
    /\ Goto(p, "done")
    /\ UNCHANGED <<lockVars, plan, head, permits, budget, failed, kept>>

ResetEntry(p) ==
    /\ req[p].pc = "reset"
    /\ cache' = Without(cache, LookupKey(p))
    /\ failed' = Without(failed, LookupKey(p))
    /\ Goto(p, IF call[Main(p)].at = "in" THEN "refs" ELSE "permit")
    /\ UNCHANGED <<lockVars, plan, head, permits, budget, late, kept>>

-----------------------------------------------------------------------------
(* The permit and the clones.                                                *)

AcquirePermit(p) ==
    /\ req[p].pc = "permit"
    /\ plan.limit > 0 => Cardinality(permits) < plan.limit
    /\ permits' = IF plan.limit > 0 THEN permits \cup {p} ELSE permits
    /\ Goto(p, "lock")
    /\ UNCHANGED <<lockVars, plan, head, cache, budget, histories>>

\* A checkout that keeps dependencies of other contents is noted.
NoteKept(path) ==
    kept' = IF /\ tree'[path].built # None
               /\ Content(path, tree'[path].built) # Content(path, tree'[path].rev)
            THEN kept \cup {path} ELSE kept

Enter(p, c, path, rev, shared, submodules, next) ==
    /\ Lock(c, path, rev, shared, submodules)
    /\ NoteKept(path)
    /\ req' = IF call'[c].at = "in" THEN [req EXCEPT ![p].pc = next] ELSE req
    /\ UNCHANGED <<plan, head, permits, cache, budget, failed, late>>

LockMain(p) ==
    LET q == plan.reqs[p] IN
    /\ req[p].pc = "lock"
    /\ Enter(p, Main(p), q.path, req[p].rev,
             q.kind = "files" \/ AllowsConcurrentProcessing(q), q.submodules,
             CASE q.kind = "files" -> "generate"
               [] q.kind = "manifest" /\ q.noCache -> "refs"
               [] OTHER -> "recheck")

\* The next repository the manifests take values from.  Its branch is resolved
\* again, and may have moved since the look at the cache.
ResolveRef(p) ==
    LET q == plan.reqs[p]
        i == Len(req[p].locked) + 1
    IN /\ req[p].pc = "refs"
       /\ i <= Len(q.refs)
       /\ \E v \in Resolutions(q.refs[i].path, q.refs[i].rev, q.noCache) :
            LET same == SameBefore(q, i)
                wrong == \/ \E j \in same : q.refs[j].rev # q.refs[i].rev
                         \/ same = {} /\ q.refs[i].path = q.path /\ v # req[p].rev
            IN req' = CASE wrong -> [req EXCEPT ![p].pc = "done"]
                        [] ~wrong /\ same # {} -> [req EXCEPT ![p].locked = Append(@, @[CHOOSE j \in same : TRUE])]
                        [] ~wrong /\ same = {} -> [req EXCEPT ![p].locked = Append(@, v), ![p].pc = "lockRef"]
       /\ UNCHANGED <<lockVars, plan, head, permits, cache, budget, histories>>

LockRef(p) ==
    LET i == Len(req[p].locked)
        ref == plan.reqs[p].refs[i]
    IN /\ req[p].pc = "lockRef"
       /\ Enter(p, <<p, i>>, ref.path, req[p].locked[i], TRUE, plan.reqs[p].submodules, "refs")

-----------------------------------------------------------------------------
(* Manifest generation.                                                      *)

\* Missing chart dependencies are downloaded, Kustomize parameters written.
Prepare(p) ==
    LET q == plan.reqs[p] IN
    /\ req[p].pc = "refs"
    /\ Len(req[p].locked) = Len(q.refs)
    /\ CASE q.builds -> Build(Main(p))
         [] ~q.builds /\ EditsFiles(q) -> Edit(Main(p))
         [] ~q.builds /\ ~EditsFiles(q) -> UNCHANGED lockVars
    /\ Goto(p, "generate")
    /\ UNCHANGED <<plan, head, permits, cache, budget, histories>>

\* What the tools read from the clones.
Manifest(p) ==
    LET q == plan.reqs[p] IN
    [path |-> q.path,
     main |-> Content(q.path, tree[q.path].rev),
     deps |-> IF q.builds THEN Content(q.path, tree[q.path].built) ELSE None,
     refs |-> [i \in DOMAIN q.refs |-> [path |-> q.refs[i].path,
                  content |-> Content(q.refs[i].path, tree[q.refs[i].path].rev)]],
     foreign |-> \E r \in {q.path} \cup {q.refs[i].path : i \in DOMAIN q.refs} :
                    ~(tree[r].edits \subseteq {Main(p)})]

\* A plugin works on a copy, and the clone is given back as soon as that is sent.
Generate(p) ==
    /\ req[p].pc = "generate"
    /\ req' = [req EXCEPT ![p].saw = Manifest(p),
                          ![p].pc = IF plan.reqs[p].plugin THEN "plugin" ELSE "store"]
    /\ UNCHANGED <<lockVars, plan, head, permits, cache, budget, histories>>

PluginAnswers(p) ==
    /\ req[p].pc = "plugin"
    /\ Goto(p, "store")
    /\ UNCHANGED <<lockVars, plan, head, permits, cache, budget, histories>>

\* Generation fails: before the clones it refers to are locked, in the tools,
\* or in the plugin.  The entry is read again to count the failure.
GenerateFails(p) ==
    LET counts == plan.reqs[p].kind = "manifest" /\ plan.threshold > 0 IN
    /\ budget.failures > 0
    /\ req[p].pc \in {"generate", "plugin"} \/ (req[p].pc = "refs" /\ req[p].locked = << >>)
    /\ budget' = [budget EXCEPT !.failures = @ - 1]
    /\ req' = [req EXCEPT ![p].pc = IF counts THEN "failed" ELSE "done",
                          ![p].copy = IF counts THEN Get(cache, StoreKey(p), NoEntry) ELSE NoEntry]
    /\ UNCHANGED <<lockVars, plan, head, permits, cache, histories>>

RecordFailure(p) ==
    /\ req[p].pc = "failed"
    /\ WriteBack(StoreKey(p), req[p].copy, [req[p].copy EXCEPT !.failures = @ + 1])
    /\ failed' = Put(failed, StoreKey(p), Get(failed, StoreKey(p), 0) + 1)
    /\ Goto(p, "done")
    /\ UNCHANGED <<lockVars, plan, head, permits, budget, kept>>

\* Mutant: the answer is stored under the revisions of the first look.
StoreWhereLookedUp(p) ==
    /\ req[p].pc = "store"
    /\ cache' = Put(cache, LookupKey(p), [NoEntry EXCEPT !.ok = req[p].saw])
    /\ failed' = Without(failed, LookupKey(p))
    /\ Goto(p, "done")
    /\ UNCHANGED <<lockVars, plan, head, permits, budget, late, kept>>

\* Mutant: the failures of the entry survive a success.
StoreKeepsFailures(p) ==
    /\ req[p].pc = "store"
    /\ cache' = Put(cache, StoreKey(p), [Get(cache, StoreKey(p), NoEntry) EXCEPT !.ok = req[p].saw])
    /\ failed' = Without(failed, StoreKey(p))
    /\ Goto(p, "done")
    /\ UNCHANGED <<lockVars, plan, head, permits, budget, late, kept>>

\* A new entry, with the failures forgotten.
Store(p) ==
    /\ req[p].pc = "store"
    /\ cache' = Put(cache, StoreKey(p), [NoEntry EXCEPT !.ok = req[p].saw])
    /\ failed' = Without(failed, StoreKey(p))
    /\ Goto(p, "done")
    /\ UNCHANGED <<lockVars, plan, head, permits, budget, late, kept>>

-----------------------------------------------------------------------------
(* Comparison of the revisions of an application with those last synced, one *)
(* repository after the other.  If no file of the application differs, its   *)
(* manifests are moved to the new revisions.                                 *)

Synced(q, i) == IF i = 0 THEN q.synced ELSE q.refs[i].synced
PathOf(q, i) == IF i = 0 THEN q.path ELSE q.refs[i].path
Resolved(p, i) == IF i = 0 THEN req[p].rev ELSE req[p].refs[i]
SyncedRefs(q) == [i \in DOMAIN q.refs |-> q.refs[i].synced]

\* The repository the comparison is at: so many are done.
CompareAt(p) == Len(req[p].locked)
Differs(p, i) == Resolved(p, i) # Synced(plan.reqs[p], i)
ChangedFiles(q, i, v) == Content(PathOf(q, i), v) # Content(PathOf(q, i), Synced(q, i))

\* Equal revisions need no comparison, and one made before is cached.
CompareSource(p) ==
    LET q == plan.reqs[p]
        i == CompareAt(p)
    IN /\ req[p].pc = "compare" /\ AllOut(p)
       /\ i <= Len(q.refs)
       /\ \E v \in IF i = 0 THEN {req[p].rev} ELSE Resolutions(PathOf(q, i), q.refs[i].rev, q.noCache) :
            \E now \in {IF i = 0 THEN req[p] ELSE [req[p] EXCEPT !.refs[i] = v]} :
              \/ req' = [req EXCEPT ![p] = IF ChangedFiles(q, i, v) THEN [now EXCEPT !.pc = "done"]
                                           ELSE [now EXCEPT !.locked = Append(@, v)]]
              \/ v # Synced(q, i) /\ req' = [req EXCEPT ![p] = [now EXCEPT !.pc = "lockDiff"]]
       /\ UNCHANGED <<lockVars, plan, head, permits, cache, budget, histories>>

\* The checkout is done without submodules, whatever the setting.
LockToCompare(p) ==
    LET i == CompareAt(p) IN
    /\ req[p].pc = "lockDiff"
    /\ Enter(p, <<p, i>>, PathOf(plan.reqs[p], i), Resolved(p, i), TRUE, FALSE, "differ")

\* The comparison can also fail, which ends the request like a change does.
Compare(p) ==
    LET i == CompareAt(p) IN
    /\ req[p].pc = "differ"
    /\ \/ Goto(p, "done")
       \/ /\ ~ChangedFiles(plan.reqs[p], i, Resolved(p, i))
          /\ req' = [req EXCEPT ![p].locked = Append(@, Resolved(p, i)), ![p].pc = "compare"]
    /\ UNCHANGED <<lockVars, plan, head, permits, cache, budget, histories>>

\* updateCachedRevision: the entry moves, and with it the failures it counts.
MoveManifests(p) ==
    LET q == plan.reqs[p]
        old == Key(q.app, q.synced, SyncedRefs(q))
        new == LookupKey(p)
        moves == (\E i \in 0..Len(q.refs) : Differs(p, i)) /\ old \in DOMAIN cache
    IN /\ req[p].pc = "compare" /\ AllOut(p)
       /\ CompareAt(p) > Len(q.refs)
       /\ cache' = IF moves THEN Without(Put(cache, new, cache[old]), old) ELSE cache
       /\ failed' = IF moves THEN Without(Put(failed, new, Get(failed, old, 0)), old) ELSE failed
       /\ late' = IF moves /\ old \in late THEN late \cup {new} ELSE late
       /\ Goto(p, "done")
       /\ UNCHANGED <<lockVars, plan, head, permits, budget, kept>>

\* A checkout fails: for the repository of the request, one it refers to, or
\* one of a comparison.
CheckoutFails(p) ==
    LET q == plan.reqs[p]
        i == Len(req[p].locked)
    IN /\ budget.checkouts > 0
       /\ CASE req[p].pc = "lock" -> LockFails(Main(p), q.path, req[p].rev)
            [] req[p].pc = "lockRef" -> LockFails(<<p, i>>, q.refs[i].path, req[p].locked[i])
            [] req[p].pc = "lockDiff" ->
                 LockFails(<<p, i>>, PathOf(q, i), Resolved(p, i))
            [] OTHER -> FALSE
       /\ budget' = [budget EXCEPT !.checkouts = @ - 1]
       /\ Goto(p, "done")
       /\ UNCHANGED <<plan, head, permits, cache, histories>>

-----------------------------------------------------------------------------
(* The end of a request, and the repositories.                               *)

\* Locks are given back as soon as they are not needed: all of them at the
\* end, that of the main clone when a plugin has its copy, and that of a
\* comparison before the next one.
GivesBack(p, c) ==
    \/ req[p].pc \in {"done", "compare"}
    \/ req[p].pc \in {"plugin", "store", "failed"} /\ plan.reqs[p].plugin /\ c = Main(p)

Leave(p) ==
    /\ \E c \in CallsOf(p) : GivesBack(p, c) /\ Close(c)
    /\ UNCHANGED <<plan, head, req, permits, cache, budget, histories>>

Wake(p) ==
    /\ \E c \in CallsOf(p) : Broadcast(c)
    /\ UNCHANGED <<plan, head, req, permits, cache, budget, histories>>

\* Mutant: a request that leaves early keeps its permit.
ReleasePermitOnSuccess(p) ==
    /\ p \in permits
    /\ GivesBack(p, Main(p)) /\ call[Main(p)].at = "out"
    /\ req[p].saw # NoManifest
    /\ permits' = permits \ {p}
    /\ UNCHANGED <<lockVars, plan, head, req, cache, budget, histories>>

ReleasePermit(p) ==
    /\ p \in permits
    /\ GivesBack(p, Main(p)) /\ call[Main(p)].at = "out"
    /\ permits' = permits \ {p}
    /\ UNCHANGED <<lockVars, plan, head, req, cache, budget, histories>>

Finish(p) ==
    /\ req[p].pc = "done"
    /\ AllOut(p) /\ p \notin permits
    /\ req' = [req EXCEPT ![p] = Idle(@.left - 1)]
    /\ UNCHANGED <<lockVars, plan, head, permits, cache, budget, histories>>

Push ==
    /\ budget.pushes > 0
    /\ \E r \in Paths : head[r] < plan.last[r] /\ head' = [head EXCEPT ![r] = @ + 1]
    /\ budget' = [budget EXCEPT !.pushes = @ - 1]
    /\ UNCHANGED <<lockVars, plan, req, permits, cache, histories>>

\* A step a request takes by itself.
Step(p) ==
    \/ CheckCache(p) \/ Recheck(p) \/ CountAnswer(p) \/ ResetEntry(p)
    \/ AcquirePermit(p) \/ LockMain(p) \/ ResolveRef(p) \/ LockRef(p)
    \/ Prepare(p) \/ Generate(p) \/ PluginAnswers(p) \/ RecordFailure(p) \/ Store(p)
    \/ CompareSource(p) \/ LockToCompare(p) \/ Compare(p) \/ MoveManifests(p)
    \/ Leave(p) \/ Wake(p) \/ ReleasePermit(p) \/ Finish(p)

Next ==
    \/ \E p \in Reqs : Resolve(p) \/ Step(p) \/ CheckoutFails(p) \/ GenerateFails(p)
    \/ Push

Spec == Init /\ [][Next]_vars

\* Goroutines run, checkouts and tools end.
FairSpec == Spec /\ \A p \in Reqs : WF_vars(Step(p))

-----------------------------------------------------------------------------
(* Properties.                                                               *)

\* Whoever finds an answer in the cache finds that of the revisions asked for:
\* it was made from the contents the key names, of the repository and of those
\* referred to, with its own chart dependencies and with nobody else's edits.
\* Only dependencies that a checkout left in the clone can be others.
ManifestsAreRight ==
    \A k \in DOMAIN cache :
        LET m == cache[k].ok IN
        m # NoManifest =>
            /\ m.main = Content(m.path, k.rev)
            /\ m.deps \in {None, m.main} \/ m.path \in kept
            /\ Len(m.refs) = Len(k.refs)
            /\ \A i \in DOMAIN m.refs : m.refs[i].content = Content(m.refs[i].path, k.refs[i])
            /\ ~m.foreign

\* Generation of manifests pauses only after as many failures as configured,
\* counted since the last success or reset, unless an outdated copy of the
\* entry was written back over a newer one.
PauseIsEarned ==
    \A k \in DOMAIN cache : cache[k].failures <= Get(failed, k, 0) \/ k \in late

\* The order in which requests take the locks of two repositories; a request
\* that wants its own repository alone and refers to it waits for itself.
TakesInOrder(q, a, b) ==
    \E i, j \in 0..Len(q.refs) :
        /\ i < j /\ PathOf(q, i) = a /\ PathOf(q, j) = b
        /\ a # b \/ ~AllowsConcurrentProcessing(q)
LockOrder ==
    {x \in Paths \X Paths : \E p \in Reqs : /\ plan.reqs[p].kind = "manifest"
                                            /\ TakesInOrder(plan.reqs[p], x[1], x[2])}
OrdersCross ==
    \E S \in SUBSET Paths \ {{}} : \A a \in S : \E b \in S : <<a, b>> \in LockOrder

\* Requests that each wait for a clone that another of them holds.
Deadlocked ==
    \E S \in SUBSET Reqs \ {{}} : \A p \in S : \E c \in CallsOf(p) :
        /\ call[c].at = "asleep"
        /\ \E q \in S : CallsOf(q) \cap Inside(call[c].path) # {}

\* Requests wait for each other only if they take the locks of repositories in
\* orders that cross: Lock has no order of its own and no timeout.
DeadlockNeedsCrossing == Deadlocked => OrdersCross

\* Every request is answered, whatever fails, unless such requests wait for
\* each other.
EveryRequestFinishes ==
    \A p \in Reqs : req[p].pc # "idle" ~> (req[p].pc = "idle" \/ Deadlocked)

\* The server uses the lock the way RepositoryLock says: in particular only a
\* request that has the clone alone changes tracked files.
UsesLock == LockSpec

\* "If the manifest generation requires to change a file in the local
\* repository clone then only one concurrent manifest generation per server
\* instance is allowed": of the requests in a clone, one that edits is alone.
EditorsAreAlone ==
    \A p \in Reqs : \A q \in Reqs \ {p} :
        /\ plan.reqs[p].path = plan.reqs[q].path
        /\ {Main(p), Main(q)} \subseteq Inside(plan.reqs[p].path)
        => ~EditsFiles(plan.reqs[p])
=============================================================================
