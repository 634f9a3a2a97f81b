--------------------------- MODULE Reconciliation ---------------------------
(***************************************************************************)
(* How the application controller notices that an Application must be      *)
(* compared with Git, and when the comparison starts a sync.               *)
(*                                                                         *)
(* Reasons to compare come from the user (refresh annotation, changed      *)
(* spec), the destination cluster (object updates), finished operations,   *)
(* delayed self-heal attempts and time.  Some are kept in the object, some *)
(* only in the memory of the controller.  The refresh worker works on the  *)
(* informer's copy: it compares, may start an operation through            *)
(* SetAppOperation, and patches what it found relative to that copy.  The  *)
(* operation worker, told in full by AppOperation and SyncContext, is here *)
(* only what the refresh worker sees of it.                                *)
(***************************************************************************)
EXTENDS Integers, Sequences, FiniteSets

CONSTANTS
    Resources,  \* the names of objects the manifests may hold
    Sources,    \* the values of spec.source: 1 .. n
    MaxRev,     \* bound: commits are 1 .. MaxRev
    Manifests,  \* Manifests[s][rev]: the manifests, a version or 0 (absent) per resource
    Drifted,    \* the version of an object somebody changed by hand
    Plans       \* the scenarios: policies and the number of events of each kind

Revs == 1 .. MaxRev
PlanType ==
    [selfHeal : BOOLEAN, prune : BOOLEAN, allowEmpty : BOOLEAN, exponential : BOOLEAN,
     auto : BOOLEAN, window : BOOLEAN, refs : BOOLEAN, lag : Nat \ {0},
     left : [{"commit", "drift", "child", "ask", "edit", "enable", "sync", "late", "fault", "fail"} -> Nat]]

ASSUME ReconciliationAssumption ==
    /\ Sources # {} /\ Sources \subseteq Nat \ {0} /\ MaxRev \in Nat \ {0}
    /\ Manifests \in [Sources -> [Revs -> [Resources -> Nat]]]
    /\ Drifted \in Nat \ {0}
    /\ Plans \subseteq PlanType

VARIABLES
    plan,     \* the policies of the scenario
    left,     \* how many events of each kind may still happen
    head,     \* the revision the target branch points at
    refs,     \* the repo server's cached resolution of it, 0 if there is none
    live,     \* the objects in the destination cluster
    app,      \* the Application object in the Kubernetes API
    cached,   \* the informer's copy
    events,   \* the versions of app the watch has still to deliver
    asked,    \* refreshRequestedApps: the level asked for, None if there is no entry
    delayed,  \* whether a CompareWithLatest waits in appComparisonTypeRefreshQueue
    queued,   \* whether the key is on appRefreshQueue
    expired,  \* whether status.reconciledAt is older than the refresh timeout
    backoff,  \* whether the self-heal backoff since the last operation still runs
    grace,    \* repoErrorCache: "none", or "within" or "over" its grace period
    window,   \* whether the sync windows allow automated syncs
    r,        \* the refresh worker
    w,        \* the operation worker: "idle", "synced" or "completed", and its state
    blame,    \* history: why the last request may not have been served
    owed,     \* history: a refresh type requested when no other request was under way
    top,      \* history: the newest revision that was synced
    stale,    \* history: whether the cached references were stored late
    again     \* history: how often auto-sync has repeated a sync of its own that failed

env == <<plan, head, refs, window>>
timers == <<expired, backoff, grace>>
object == <<app, cached, events>>
ghosts == <<blame, owed, top, stale, again>>
vars == <<plan, left, head, refs, live, app, cached, events, asked, delayed, queued, expired,
          backoff, grace, window, r, w, ghosts>>

-----------------------------------------------------------------------------
(* Data. *)

\* The levels of a comparison.
None == -1
ComparisonWithNothing == 0
CompareWithRecent == 1
CompareWithLatest == 2
CompareWithLatestForceResolve == 3
Max(a, b) == IF a > b THEN a ELSE b

NoOp == [by |-> "none", rev |-> 0, src |-> 0, heal |-> FALSE, only |-> {}, prune |-> FALSE]
Operations == [by : {"auto", "user"}, rev : Revs \cup {0}, src : Sources \cup {0},
               heal : BOOLEAN, only : SUBSET Resources, prune : BOOLEAN]
NoState == [op |-> NoOp, phase |-> "none", rev |-> 0, src |-> 0, result |-> FALSE]
Successful(st) == st.phase = "Succeeded"

\* A comparison: its status, the revision and source it is for, and the resources that are
\* out of sync, need pruning, or take part at all.
NoComparison == [status |-> "", rev |-> 0, src |-> 0, out |-> {}, extra |-> {}, all |-> {}]

Idle == [pc |-> "idle", orig |-> [ann |-> "none"], level |-> None, cmp |-> NoComparison,
         cond |-> FALSE, rec |-> FALSE, old |-> FALSE]
OpIdle == [pc |-> "idle", st |-> NoState]

\* Every write sends a watch event; the controller's own writes also go to its informer.  Of
\* more than plan.lag versions on their way the last ones are seen as one.
Write(a) == /\ app' = a
            /\ events' = IF Len(events) < plan.lag THEN Append(events, a)
                                                   ELSE [events EXCEPT ![plan.lag] = a]
WriteBack(a) == Write(a) /\ cached' = a

Happens(kind) == left[kind] > 0 /\ left' = [left EXCEPT ![kind] = @ - 1]

\* requestAppRefresh without a delay.
RequestAppRefresh_Replaces(level) == asked' = level /\ queued' = TRUE
RequestAppRefresh(level) == asked' = Max(level, asked) /\ queued' = TRUE

-----------------------------------------------------------------------------
(* The user, the repository, the destination cluster and the clock. *)

\* RefreshApp, also called for webhooks.  A promise is recorded when no other request is
\* on its way.
NoneUnderWay == /\ app.ann = "none" /\ cached.ann = "none" /\ r.orig.ann = "none"
                /\ \A i \in DOMAIN events : events[i].ann = "none"

RefreshApp(type) ==
    /\ Happens("ask")
    /\ Write([app EXCEPT !.ann = type]) /\ UNCHANGED cached
    /\ owed' = IF NoneUnderWay THEN type ELSE "none"
    /\ UNCHANGED <<env, timers, live, asked, delayed, queued, r, w, blame, top, stale, again>>

EditSource(src) ==
    /\ src # app.src /\ Happens("edit")
    /\ Write([app EXCEPT !.src = src]) /\ UNCHANGED cached
    /\ UNCHANGED <<env, timers, live, asked, delayed, queued, r, w, ghosts>>

EnableAutoSync ==
    /\ ~app.auto /\ Happens("enable")
    /\ Write([app EXCEPT !.auto = TRUE]) /\ UNCHANGED cached
    /\ UNCHANGED <<env, timers, live, asked, delayed, queued, r, w, ghosts>>

\* SetAppOperation reads the object and updates it under its resource version.
SetAppOperation_NoGuard(op) == Write([app EXCEPT !.op = op, !.st = NoState])
SetAppOperation(op) ==
    /\ app.op = NoOp
    /\ Write([app EXCEPT !.op = op, !.st = NoState])

\* autoSync writes the updated object back to the informer.
SetAutoOperation_NotWrittenBack(op) == SetAppOperation(op) /\ UNCHANGED cached
SetAutoOperation(op) == SetAppOperation(op) /\ cached' = app'

UserSync(prune) ==
    /\ Happens("sync")
    /\ SetAppOperation([NoOp EXCEPT !.by = "user", !.prune = prune]) /\ UNCHANGED cached
    /\ UNCHANGED <<env, timers, live, asked, delayed, queued, r, w, ghosts>>

Commit ==
    /\ head < MaxRev /\ Happens("commit")
    /\ head' = head + 1
    /\ UNCHANGED <<plan, refs, window, timers, live, object, asked, delayed, queued, r, w, ghosts>>

\* getRefs of a request, for this application or another one of the repository, stores what
\* it listed when the branch was at rev.  It is not kept from storing over a newer listing.
\* (A store that fails is only logged: that is like a late one of the references it leaves.)
ReferencesStoredLate(rev) ==
    /\ plan.refs /\ rev <= head /\ rev # refs /\ Happens("late")
    /\ refs' = rev
    /\ stale' = (rev < head)
    /\ UNCHANGED <<plan, head, window, timers, live, object, asked, delayed, queued, r, w, blame,
                   owed, top, again>>

\* handleObjectUpdated: a managed object changed, or a child of one.
Drift(x, version) ==
    /\ live[x] \notin {0, version} /\ Happens("drift")
    /\ live' = [live EXCEPT ![x] = version]
    /\ RequestAppRefresh(CompareWithRecent)
    /\ UNCHANGED <<env, timers, object, delayed, r, w, ghosts>>

ChildUpdated ==
    /\ Happens("child")
    /\ RequestAppRefresh(ComparisonWithNothing)
    /\ UNCHANGED <<env, timers, live, object, delayed, r, w, ghosts>>

\* Time passes: the cached references, the self-heal backoff and the grace period of
\* repository errors end, a sync window opens.
TimePasses(clock) ==
    /\ \/ clock = "refs" /\ refs # 0 /\ refs' = 0 /\ stale' = FALSE /\ UNCHANGED <<backoff, grace, window>>
       \/ clock = "backoff" /\ backoff /\ backoff' = FALSE /\ UNCHANGED <<refs, stale, grace, window>>
       \/ clock = "grace" /\ grace = "within" /\ grace' = "over" /\ UNCHANGED <<refs, stale, backoff, window>>
       \/ clock = "window" /\ ~window /\ window' = TRUE /\ UNCHANGED <<refs, stale, backoff, grace>>
    /\ UNCHANGED <<plan, left, head, expired, live, object, asked, delayed, queued, r, w, blame, owed,
                   top, again>>

-----------------------------------------------------------------------------
(* Event handlers and queues. *)

\* UpdateFunc: only enabling automated sync asks for a level.
WatchEvent ==
    /\ events # <<>>
    /\ cached' = Head(events) /\ events' = Tail(events)
    /\ asked' = IF ~cached.auto /\ cached'.auto THEN Max(CompareWithLatest, asked) ELSE asked
    /\ queued' = TRUE
    /\ UNCHANGED <<env, left, timers, live, app, delayed, r, w, ghosts>>

\* The informer's resync, which runs with the period of the refresh timeout.
Resync ==
    /\ expired' = TRUE /\ queued' = TRUE
    /\ UNCHANGED <<env, left, backoff, grace, live, object, asked, delayed, r, w, ghosts>>

\* processAppComparisonTypeQueueItem.
DelayedRequestDue ==
    /\ delayed /\ delayed' = FALSE
    /\ RequestAppRefresh(CompareWithLatest)
    /\ UNCHANGED <<env, left, timers, live, object, r, w, ghosts>>

-----------------------------------------------------------------------------
(* The refresh worker: processAppRefreshQueueItem. *)

\* needRefreshAppStatus: the level to compare at, None if there is no reason to compare.
\* The entry of refreshRequestedApps is looked at, and deleted, only if there is no other
\* reason.
OtherReason == cached.ann # "none" \/ cached.sync.src # cached.src \/ expired
NeedRefreshAppStatus ==
    IF cached.ann # "none" \/ cached.sync.src # cached.src THEN CompareWithLatestForceResolve
    ELSE IF expired THEN CompareWithLatest ELSE asked

\* Without the cached resources a ComparisonWithNothing falls back to a full one.
Dequeue ==
    /\ r.pc = "idle" /\ queued /\ queued' = FALSE
    /\ asked' = IF OtherReason THEN asked ELSE None
    /\ LET level == NeedRefreshAppStatus
           compare == [Idle EXCEPT !.pc = "compare", !.orig = cached, !.level = level]
       IN r' \in CASE level = None -> {Idle}
                   [] level = ComparisonWithNothing -> {Idle, compare}
                   [] OTHER -> {compare}
    /\ UNCHANGED <<env, left, timers, live, object, delayed, w, ghosts>>

\* The revision a comparison resolves to: the persisted one, the cached one or the latest.
Recent == r.level = CompareWithRecent /\ r.orig.sync.rev # 0
FromCache == refs # 0 /\ r.level # CompareWithLatestForceResolve
Resolve ==
    IF Recent THEN r.orig.sync.rev ELSE IF FromCache THEN refs ELSE head

\* A new listing is stored over the cached one, if the repo server is set up to keep it.
ListReferences_KeepsFirst == refs' = (IF plan.refs /\ refs = 0 THEN head ELSE refs) /\ stale' = FALSE
ListReferences == refs' = (IF plan.refs THEN head ELSE 0) /\ stale' = FALSE

Target(src, rev) == Manifests[src][rev]

\* CompareAppState: what the live objects are next to the manifests.
CompareAppState(src, rev) ==
    LET t == Target(src, rev)
        out == {x \in Resources : live[x] # t[x]}
    IN [status |-> IF out = {} THEN "Synced" ELSE "OutOfSync", rev |-> rev, src |-> src,
        out |-> out, extra |-> {x \in out : t[x] = 0},
        all |-> {x \in Resources : live[x] # 0 \/ t[x] # 0}]

Compare ==
    /\ r.pc = "compare"
    /\ grace' = "none"
    /\ IF Recent \/ FromCache THEN UNCHANGED <<refs, stale>> ELSE ListReferences
    /\ r' = [r EXCEPT !.pc = "autosync", !.cmp = CompareAppState(r.orig.src, Resolve),
                      !.old = ~Recent /\ FromCache /\ stale]
    /\ blame' = {}
    /\ UNCHANGED <<plan, left, head, window, expired, backoff, live, object, asked, delayed,
                   queued, w, owed, top, again>>

\* The comparison is given up and its request is forgotten: the destination cluster is
\* unknown, or the repository cannot be read, within the grace period and not forced.
CompareAborts ==
    /\ r.pc = "compare" /\ Happens("fault")
    /\ \/ UNCHANGED grace
       \/ /\ r.level # CompareWithLatestForceResolve /\ grace # "over"
          /\ grace' = "within"
    /\ r' = Idle /\ blame' = blame \cup {"aborted"}
    /\ UNCHANGED <<env, expired, backoff, live, object, asked, delayed, queued, w, owed, top, stale, again>>

\* Otherwise an unreadable repository makes the status Unknown.
CompareUnknown ==
    /\ r.pc = "compare" /\ Happens("fault")
    /\ r.level = CompareWithLatestForceResolve \/ grace = "over"
    /\ r' = [r EXCEPT !.pc = "autosync",
                      !.cmp = [NoComparison EXCEPT !.status = "Unknown", !.src = r.orig.src,
                                                   !.rev = IF Recent THEN r.orig.sync.rev ELSE 0]]
    /\ blame' = blame \cup {"aborted"}
    /\ UNCHANGED <<env, timers, live, object, asked, delayed, queued, w, owed, top, stale, again>>

\* refreshAppConditions reports errors: the status is Unknown, the rest stays.
ConditionErrors ==
    /\ r.pc = "compare" /\ Happens("fault")
    /\ r' = [r EXCEPT !.pc = "persist", !.cond = r.orig.cond,
                      !.cmp = [NoComparison EXCEPT !.status = "Unknown", !.src = r.orig.sync.src,
                                                   !.rev = r.orig.sync.rev]]
    /\ blame' = blame \cup {"aborted"}
    /\ UNCHANGED <<env, timers, live, object, asked, delayed, queued, w, owed, top, stale, again>>

-----------------------------------------------------------------------------
(* autoSync *)

\* alreadyAttemptedSync: whether the last operation was to this revision of this source.  One
\* that ended without a result counts as an attempt at everything.
AlreadyAttempted(st, src, rev) ==
    IF st = NoState THEN FALSE
    ELSE IF ~st.result THEN TRUE ELSE st.rev = rev /\ st.src = src

\* Mutation: any resource out of sync counts as one that only has to be pruned.
NothingToSync_PruneOnly(a, cmp) ==
    ~a.auto \/ a.op # NoOp \/ cmp.status # "OutOfSync" \/ ~plan.prune
\* Nothing is to be done: no automation, an operation, in sync, or only pruning is missing
\* that the policy does not do.
NothingToSync(a, cmp) ==
    \/ ~a.auto \/ a.op # NoOp \/ cmp.status # "OutOfSync"
    \/ ~plan.prune /\ cmp.out \subseteq cmp.extra
WipesOut(cmp) == plan.prune /\ ~plan.allowEmpty /\ cmp.all = cmp.extra

\* selfHealRemainingBackoff, from the operation state of the copy.
InBackoff(a) == IF a.st = app.st THEN {backoff} ELSE BOOLEAN
HealMustWait(a, running) == running /\ (~plan.exponential \/ a.st.op.heal)

Decide(a, cmp, running) ==
    IF NothingToSync(a, cmp) THEN "skip"
    ELSE IF AlreadyAttempted(a.st, a.src, cmp.rev) /\ ~Successful(a.st) THEN "error"
    ELSE IF AlreadyAttempted(a.st, a.src, cmp.rev) /\ ~plan.selfHeal THEN "skip"
    ELSE IF AlreadyAttempted(a.st, a.src, cmp.rev) /\ HealMustWait(a, running) THEN "wait"
    ELSE IF WipesOut(cmp) THEN "error" ELSE "sync"

\* A self-heal names the resources that are out of sync.
AutoOperation(a, cmp) ==
    LET heal == AlreadyAttempted(a.st, a.src, cmp.rev)
    IN [by |-> "auto", rev |-> cmp.rev, src |-> a.src, heal |-> heal,
        only |-> IF heal THEN cmp.out ELSE {}, prune |-> plan.prune]

\* The last operation was auto-sync's own, it failed, and op does the same.
Repeats(op) ==
    /\ app.st.op.by = "auto" /\ ~Successful(app.st)
    /\ AlreadyAttempted(app.st, op.src, op.rev)

\* What the pass goes on with: the SyncError condition and whether reconciledAt moves.
ToPersist(cond) == r' = [r EXCEPT !.pc = "persist", !.cond = cond,
                                  !.rec = r.level >= CompareWithLatest]

AutoSync ==
    /\ r.pc = "autosync" /\ window
    /\ \E running \in InBackoff(r.orig) :
         LET decision == Decide(r.orig, r.cmp, running)
         IN \/ /\ decision \in {"skip", "error", "wait"}
               /\ ToPersist(decision = "error")
               /\ delayed' = (delayed \/ decision = "wait")
               /\ UNCHANGED <<object, left, again>>
            \/ /\ decision = "sync" /\ app.op # NoOp        \* ErrAnotherOperationInProgress
               /\ ToPersist(FALSE)
               /\ UNCHANGED <<object, delayed, left, again>>
            \/ /\ decision = "sync" /\ Happens("fault")     \* any other error
               /\ ToPersist(TRUE)
               /\ UNCHANGED <<object, delayed, again>>
            \/ /\ decision = "sync"
               /\ SetAutoOperation(AutoOperation(r.orig, r.cmp))
               /\ ToPersist(FALSE)
               /\ again' = IF Repeats(AutoOperation(r.orig, r.cmp)) THEN again + 1 ELSE 0
               /\ UNCHANGED <<delayed, left>>
    /\ UNCHANGED <<env, timers, live, asked, queued, w, blame, owed, top, stale>>

SyncWindowClosed ==
    /\ r.pc = "autosync" /\ ~window
    /\ ToPersist(r.orig.cond)
    /\ UNCHANGED <<env, left, timers, live, object, asked, delayed, queued, w, ghosts>>

-----------------------------------------------------------------------------
(* persistReconciliationStatus *)

\* The merge patch has the fields that differ from the copy the pass started with; it removes
\* the refresh annotation if the copy had one.
NewSync == [status |-> r.cmp.status, rev |-> r.cmp.rev, src |-> r.cmp.src]
Unrequested_Always(a) == [a EXCEPT !.ann = "none"]
Unrequested(a) == IF r.orig.ann = "none" THEN a ELSE [a EXCEPT !.ann = "none"]
MergePatch(a) ==
    LET was == r.orig.sync
        Field(f) == IF NewSync[f] # was[f] THEN NewSync[f] ELSE a.sync[f]
    IN [Unrequested(a) EXCEPT !.sync = [f \in DOMAIN was |-> Field(f)],
                              !.cond = IF r.cond # r.orig.cond THEN r.cond ELSE @]
Modified == r.rec \/ NewSync # r.orig.sync \/ r.cond # r.orig.cond \/ r.orig.ann # "none"

Served == owed' = IF r.orig.ann = owed THEN "none" ELSE owed

Persist ==
    /\ r.pc = "persist"
    /\ IF Modified THEN WriteBack(MergePatch(app)) ELSE UNCHANGED object
    /\ expired' = (expired /\ ~r.rec)
    /\ Served
    /\ r' = Idle
    /\ blame' = IF r.orig.sync = app.sync THEN blame ELSE blame \cup {"torn"}
    /\ UNCHANGED <<env, left, backoff, grace, live, asked, delayed, queued, w, top, stale, again>>

\* The patch fails, and the error is only logged; if it was too large, a second patch still
\* removes the annotation.
PersistFails ==
    /\ r.pc = "persist" /\ Modified /\ Happens("fault")
    /\ \/ UNCHANGED <<object, owed>>
       \/ WriteBack(Unrequested(app)) /\ Served
    /\ r' = Idle /\ blame' = blame \cup {"patch"}
    /\ UNCHANGED <<env, timers, live, asked, delayed, queued, w, top, stale, again>>

-----------------------------------------------------------------------------
(* The operation worker. *)

\* The sync of an operation: the revision and source it resolves to, and the objects it
\* applies or prunes.
OpRevision == IF app.op.rev = 0 THEN head ELSE app.op.rev
OpSource == IF app.op.src = 0 THEN app.src ELSE app.op.src
Applied(done) ==
    LET t == Target(OpSource, OpRevision)
    IN [x \in Resources |-> IF x \in done /\ (t[x] # 0 \/ app.op.prune) THEN t[x] ELSE live[x]]
Scope == IF app.op.only = {} THEN Resources ELSE app.op.only

Sync(done, phase, result, rev) ==
    /\ w.pc = "idle" /\ app.op # NoOp /\ window
    /\ live' = Applied(done)
    /\ IF app.op.rev = 0 /\ rev # 0 THEN ListReferences ELSE UNCHANGED <<refs, stale>>
    /\ w' = [pc |-> "synced", st |-> [op |-> app.op, phase |-> phase, result |-> result, rev |-> rev,
                                      src |-> IF result THEN OpSource ELSE 0]]
    /\ IF live' # live THEN RequestAppRefresh(CompareWithRecent) ELSE UNCHANGED <<asked, queued>>
    /\ UNCHANGED <<plan, head, window, timers, object, delayed, r, blame, owed, top, again>>
SyncSucceeds == Sync(Scope, "Succeeded", TRUE, OpRevision) /\ UNCHANGED left

\* Some of the objects fail; the comparison fails before the revision is resolved; or the
\* operation ends before there is a result (the project cannot be loaded).
SyncFails ==
    /\ Happens("fail")
    /\ \/ \E done \in SUBSET Scope : done # Scope /\ Sync(done, "Failed", TRUE, OpRevision)
       \/ Sync({}, "Error", TRUE, app.op.rev)
       \/ Sync({}, "Error", FALSE, 0)

\* setOperationState, then the request for a refresh.
OperationCompletes ==
    /\ w.pc = "synced" /\ w' = [w EXCEPT !.pc = "completed"]
    /\ WriteBack([app EXCEPT !.op = NoOp, !.st = w.st])
    /\ backoff' = TRUE
    /\ top' = IF Successful(w.st) THEN Max(top, w.st.rev) ELSE top
    /\ UNCHANGED <<env, left, expired, grace, live, asked, delayed, queued, r, blame, owed, stale, again>>

RequestRefreshAfterSync ==
    /\ w.pc = "completed" /\ w' = OpIdle
    /\ RequestAppRefresh(IF w.st.op.by = "auto" THEN CompareWithLatest
                         ELSE CompareWithLatestForceResolve)
    /\ UNCHANGED <<env, left, timers, live, object, delayed, r, ghosts>>

\* The controller restarts: what it kept in memory is gone, every application is queued.
Restart ==
    /\ Happens("fault")
    /\ asked' = None /\ delayed' = FALSE /\ grace' = "none"
    /\ cached' = app /\ events' = <<>> /\ queued' = TRUE
    /\ r' = Idle /\ w' = OpIdle
    /\ blame' = blame \cup {"restart"}
    /\ UNCHANGED <<env, expired, backoff, live, app, owed, top, stale, again>>

-----------------------------------------------------------------------------
Init ==
    /\ plan \in Plans
    /\ left = plan.left
    /\ head = 1 /\ refs = 0
    /\ live = [x \in Resources |-> 0]
    /\ app = [src |-> CHOOSE s \in Sources : \A t \in Sources : s <= t, auto |-> plan.auto,
              ann |-> "none", op |-> NoOp, st |-> NoState, cond |-> FALSE,
              sync |-> [status |-> "", rev |-> 0, src |-> 0]]
    /\ cached = app /\ events = <<>>
    /\ asked = None /\ delayed = FALSE /\ queued = TRUE
    /\ expired = TRUE /\ backoff = FALSE /\ grace = "none" /\ window = plan.window
    /\ r = Idle /\ w = OpIdle
    /\ blame = {} /\ owed = "none" /\ top = 0 /\ stale = FALSE /\ again = 0

Environment ==
    \/ \E type \in {"normal", "hard"} : RefreshApp(type)
    \/ \E src \in Sources : EditSource(src)
    \/ EnableAutoSync
    \/ \E prune \in BOOLEAN : UserSync(prune)
    \/ Commit
    \/ \E rev \in Revs : ReferencesStoredLate(rev)
    \/ \E x \in Resources, version \in {0, Drifted} : Drift(x, version)
    \/ ChildUpdated

RefreshWorker == Dequeue \/ Compare \/ AutoSync \/ SyncWindowClosed \/ Persist
OperationWorker == SyncSucceeds \/ OperationCompletes \/ RequestRefreshAfterSync
Faults == CompareAborts \/ CompareUnknown \/ ConditionErrors \/ PersistFails \/ SyncFails \/ Restart

Clocks == {"refs", "backoff", "grace", "window"}

Next == \/ Environment \/ (\E clock \in Clocks : TimePasses(clock)) \/ WatchEvent \/ Resync \/ DelayedRequestDue
        \/ RefreshWorker \/ OperationWorker \/ Faults

Spec == Init /\ [][Next]_vars

\* Fairness: the workers and the timers of the queues run, watches deliver, time passes and
\* the informer resyncs.
Fairness ==
    /\ WF_vars(RefreshWorker) /\ WF_vars(OperationWorker)
    /\ WF_vars(WatchEvent) /\ WF_vars(DelayedRequestDue)
    /\ (\A clock \in Clocks : WF_vars(TimePasses(clock))) /\ WF_vars(Resync)

FairSpec == Spec /\ Fairness

-----------------------------------------------------------------------------
(* Properties. *)

Syncs == [status : {"", "Synced", "OutOfSync", "Unknown"}, rev : Revs \cup {0}, src : Sources \cup {0}]
States == [op : Operations, phase : {"Succeeded", "Failed", "Error"}, rev : Revs \cup {0},
           src : Sources \cup {0}, result : BOOLEAN]
Applications ==
    [src : Sources, auto : BOOLEAN, ann : {"none", "normal", "hard"}, op : Operations \cup {NoOp},
     st : States \cup {NoState}, sync : Syncs, cond : BOOLEAN]

\* When nothing is on its way to the refresh worker, the persisted status is right: it says
\* Synced if and only if the live objects are those of the revision it names.  A request may
\* have been spent on a pass that failed, or lost in a restart (isRefreshRequested deletes the
\* entry before the comparison is made), or the last patch was made from a copy whose status
\* was not the stored one, and carries only what differs from that copy.
QuietStatusIsRight ==
    r.pc = "idle" /\ ~queued /\ events = <<>> /\ w.pc = "idle" /\ app.op = NoOp /\ blame = {}
    /\ app.sync.status \in {"Synced", "OutOfSync"}
        => (app.sync.status = "Synced") = (live = Target(app.sync.src, app.sync.rev))

\* A refresh that was requested when no other request was under way is not lost: its
\* annotation stays until a pass that saw it has persisted its result (the patch of
\* persistReconciliationStatus removes only an annotation of its own copy).
RefreshNotLost == owed # "none" => app.ann = owed

AutoStarts == app.op = NoOp /\ app'.op.by = "auto"

\* Auto-sync does not repeat a sync of its own that failed ("will not retry").  It decides
\* from the informer's copy, which its own writes reach at once; only an older version that
\* the watch delivers after them can hide the failure, and each of these only once.
FailureIsNotRepeated == again < plan.lag

\* Auto-sync takes the application back to an older revision for three reasons only: it
\* compared with the persisted revision, a sync ended after its copy was read, or it found
\* references that were stored late.  Caching the references is no reason.
NoRollback ==
    [][AutoStarts /\ app'.op.rev < top => Recent \/ r.orig.st # app.st \/ r.old]_vars

\* The application's room for one operation, shared with AppOperation.
Slot == INSTANCE OperationSlot WITH
          Operations <- Operations, NoOp <- NoOp, NoOutcome <- NoState,
          current <- app.op, outcome <- IF app.st = NoState THEN NoState ELSE <<app.st.op, app.st.phase>>
ImplementsSlot == Slot!SlotSpec

\* When events cease, an automated application comes to the latest revision and stays there;
\* otherwise the application says why (SyncError), or its policy does: pruning or
\* self-healing is off.
InSync == \A x \in Resources :
            \/ live[x] = Target(app.src, head)[x]
            \/ Target(app.src, head)[x] = 0 /\ ~plan.prune
LeftDrifted == ~plan.selfHeal /\ Successful(app.st) /\ app.st.rev = head /\ app.st.src = app.src
Settles == <>[](app.auto => InSync \/ app.cond \/ LeftDrifted)
==============================================================================
