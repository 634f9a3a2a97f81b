--------------------------- MODULE ProgressiveSync ---------------------------
(* The ApplicationSet controller rolling a change out over the applications  *)
(* it generates, step by step (strategy RollingSync), and taking them down   *)
(* in the reverse order when the set is deleted (deletionOrder Reverse).     *)
(*                                                                           *)
(* Three parties take steps.  The controller works through one pass at a     *)
(* time: it evaluates the progress of every application, persists it in the  *)
(* set's status, and then writes specs and sync operations application by    *)
(* application.  It reads applications from an informer cache (cache) that   *)
(* lags behind the API server (api), and into which its own client writes    *)
(* what it has written or deleted.  The application controller and the       *)
(* workloads are the environment: they refresh, run operations and become    *)
(* healthy.  Only an event the controller does not filter out queues a pass. *)
EXTENDS Naturals, Sequences, FiniteSets, SequencesExt

CONSTANTS Apps,       \* the applications the generators can produce
          NameOrder,  \* the same, as a sequence sorted by name
          Plans,      \* the scenarios: configuration, start and event budgets
          NoApp, NoEntry

ASSUME NameOrderAssumption ==
    /\ IsFiniteSet(Apps)
    /\ NameOrder \in [1..Cardinality(Apps) -> Apps]
    /\ \A a \in Apps : \E i \in 1..Cardinality(Apps) : NameOrder[i] = a

VARIABLES
    plan,    \* steps, policy and the events that may still happen
    src,     \* [git, gen, spec, desired]: Git head, manifests per application,
             \* template version, generated applications
    api,     \* Application objects in the API server
    cache,   \* the controller's copies
    wake,    \* applications with an undelivered event that queues a pass
    late,    \* the oldest undelivered version of an application that the
             \* controller has written since, <<>> if there is none
    live,    \* [at, to, health]: what is deployed, what a running operation
             \* deploys, how the workload does
    entry,   \* status.applicationStatus of the set
    queue,   \* a pass is due
    later,   \* RequeueAfter of reverse deletion is pending
    pass,    \* the pass in progress, or Idle
    appset,  \* "live", "deleting", "gone"
    good,    \* history: <<revision, spec>> each application was seen well at
    blame    \* history: the events that excuse a property

vars == <<plan, src, api, cache, wake, late, live, entry, queue, later, pass,
          appset, good, blame>>

Idle == [on |-> FALSE, desired |-> {}, spec |-> 0, sync |-> {}, todo |-> {}, failed |-> FALSE,
         down |-> FALSE]

-----------------------------------------------------------------------------
(* The configuration: which step selects an application, and its maxUpdate.  *)

\* buildAppDependencyList: the applications of a step among those generated.
InStep(k) == plan.steps[k].apps \cap src.desired
\* appStepMap: the first step that selects the application, 0 if none does.
StepOf(a) ==
    LET ks == {k \in DOMAIN plan.steps : a \in plan.steps[k].apps}
    IN IF ks = {} THEN 0 ELSE CHOOSE k \in ks : \A j \in ks : k <= j
\* The index the counters use: a key that the Go map of generated applications
\* lacks reads as step 0, the first one.
CountedIn(a) == IF a \notin src.desired \/ StepOf(a) = 0 THEN 1 ELSE StepOf(a)

\* The limit of a step with n applications, or n if maxUpdate is unset.  A
\* percentage is rounded down, and anything but "0%" allows one application.
MaxUpdateVal(k, n) ==
    LET m == plan.steps[k].max
        scaled == IF m.type = "percent" THEN (m.val * n) \div 100 ELSE 0
    IN CASE m.type = "unset" -> n
         [] m.type = "int" -> m.val
         [] m.type = "percent" /\ m.val = 0 -> 0
         [] m.type = "percent" /\ m.val > 0 -> IF scaled < 1 THEN 1 ELSE scaled
         [] m.type = "invalid" -> 1

Want(a) == [gen |-> src.gen[a], spec |-> api[a].spec]

NewApp == [spec |-> src.spec, rev |-> 0, sync |-> "Unknown", health |-> "Unknown",
           op |-> FALSE, phase |-> "none", opNew |-> FALSE, rec |-> "never",
           err |-> FALSE, deleting |-> FALSE, owned |-> TRUE]

\* Synced, healthy and fully rolled out at revision 1 and template version 1.
Settled == [NewApp EXCEPT !.spec = 1, !.rev = 1, !.sync = "Synced",
                          !.health = "Healthy", !.phase = "done", !.rec = "old"]

Init ==
    /\ plan \in Plans
    /\ src = [git |-> 1, gen |-> [a \in Apps |-> 1], spec |-> 1,
              desired |-> plan.desired]
    /\ LET exist == IF plan.start = "new" THEN {} ELSE plan.desired IN
       /\ api = [a \in Apps |-> IF a \in exist THEN Settled ELSE NoApp]
       /\ cache = api
       /\ live = [a \in Apps |->
                    [at |-> IF a \in exist THEN [gen |-> 1, spec |-> 1]
                                           ELSE [gen |-> 0, spec |-> 0],
                     to |-> [gen |-> 0, spec |-> 0], health |-> "Healthy"]]
       /\ entry = [a \in Apps |-> IF a \in exist
                     THEN [st |-> "Healthy", target |-> 1, msg |-> "became",
                           step |-> StepOf(a)]
                     ELSE NoEntry]
       /\ good = [a \in Apps |-> IF a \in exist THEN {<<1, 1>>} ELSE {}]
    /\ wake = {}
    /\ late = [a \in Apps |-> <<>>]
    /\ queue = (plan.start = "new")
    /\ later = FALSE
    /\ pass = Idle
    /\ appset = "live"
    /\ blame = {}

-----------------------------------------------------------------------------
(* The informer.                                                             *)

\* Mutant: the health of an application is not compared.
ShouldRequeueButHealth(old, new) ==
    \/ old.spec # new.spec
    \/ old.sync # new.sync
    \/ old.phase # "none" /\ new.phase # "none" /\ old.phase # new.phase

\* shouldRequeueForApplication, for the fields the application controller
\* changes; reconciledAt is not among them.
ShouldRequeue(old, new) ==
    \/ old.spec # new.spec
    \/ old.health # new.health
    \/ old.sync # new.sync
    \/ old.phase # "none" /\ new.phase # "none" /\ old.phase # new.phase

\* A write of the application controller to an application.  Where the plan
\* has no lag, its event reaches the cache at once.
AppWrite(a, new) ==
    LET requeue == cache[a] # NoApp /\ ShouldRequeue(api[a], new) IN
    /\ api' = [api EXCEPT ![a] = new]
    /\ IF plan.lag
       THEN /\ wake' = IF requeue THEN wake \cup {a} ELSE wake
            /\ UNCHANGED <<cache, queue>>
       ELSE /\ cache' = [cache EXCEPT ![a] = new]
            /\ queue' = (queue \/ requeue)
            /\ UNCHANGED wake
    /\ UNCHANGED late

\* The events of an application reach the cache; create events queue nothing,
\* delete events always do.
Watch(a) ==
    /\ cache[a] # api[a] \/ a \in wake \/ late[a] # <<>>
    /\ cache' = [cache EXCEPT ![a] = api[a]]
    /\ wake' = wake \ {a}
    /\ late' = [late EXCEPT ![a] = <<>>]
    /\ queue' = (queue \/ a \in wake \/ (api[a] = NoApp /\ cache[a] # NoApp))
    /\ UNCHANGED <<plan, src, api, live, entry, later, pass, appset, good, blame>>

-----------------------------------------------------------------------------
(* The progress of the applications: PerformProgressiveSyncs.                *)

\* What one evaluation makes of an application's entry e, given its copy s.
EvaluateEntry(a, e, s) ==
    LET step == IF a \in src.desired THEN StepOf(a) ELSE 0
        cur == IF e = NoEntry
               THEN [st |-> "Waiting", target |-> s.rev, msg |-> "default", step |-> step]
               ELSE [e EXCEPT !.step = step]
        revisionsChanged == cur.target # s.rev
        specChanged == a \in src.desired /\ (s.spec # src.spec \/ plan.automated)
        changed == revisionsChanged \/ specChanged
        base == IF changed
                THEN [cur EXCEPT !.st = "Waiting", !.target = s.rev,
                      !.msg = CASE revisionsChanged /\ specChanged -> "both"
                                [] revisionsChanged /\ ~specChanged -> "rev"
                                [] ~revisionsChanged /\ specChanged -> "spec"]
                ELSE cur
        isWell == s.sync = "Synced" /\ s.health = "Healthy"
    IN CASE base.st = "Waiting" /\ s.sync = "Synced" ->
                [base EXCEPT !.st = IF isWell THEN "Healthy" ELSE "Progressing",
                             !.msg = "synced"]
         [] base.st = "Pending" /\ s.rec # "old" /\ (s.opNew \/ s.err) ->
                [base EXCEPT !.st = "Progressing", !.msg = "started"]
         [] base.st = "Progressing" /\ isWell ->
                [base EXCEPT !.st = "Healthy", !.msg = "became"]
         [] OTHER -> base

\* UpdateApplicationSetApplicationStatus: an entry for every owned copy.
Evaluated(apps) ==
    [a \in Apps |-> IF apps[a] = NoApp THEN NoEntry
                    ELSE EvaluateEntry(a, entry[a], apps[a])]

\* SetAppSetApplicationStatus: the list is replaced as a whole, and only if an
\* entry appeared, went, or changed its status, message or step.
NeedToUpdate(old, new) ==
    \E a \in Apps :
        \/ (old[a] = NoEntry) # (new[a] = NoEntry)
        \/ /\ old[a] # NoEntry /\ new[a] # NoEntry
           /\ \/ old[a].st # new[a].st
              \/ old[a].msg # new[a].msg
              \/ old[a].step # new[a].step

Persisted(old, new) == IF NeedToUpdate(old, new) THEN new ELSE old

\* Step k is complete: its applications exist and are Healthy.
StepComplete(k, apps, es) ==
    \A a \in InStep(k) : apps[a] # NoApp /\ es[a] # NoEntry /\ es[a].st = "Healthy"

\* Mutant: the step before is not looked at.
GetAppsToSyncTooFar(apps, es) ==
    UNION {InStep(k) : k \in {k \in DOMAIN plan.steps :
                                \A j \in 1..k - 2 : StepComplete(j, apps, es)}}

\* getAppsToSync: the steps up to the first incomplete one.
GetAppsToSync(apps, es) ==
    UNION {InStep(k) : k \in {k \in DOMAIN plan.steps :
                                \A j \in 1..k - 1 : StepComplete(j, apps, es)}}

\* Mutant: progressing applications do not count.
UpdatingPendingOnly(es, k) ==
    {a \in Apps : es[a] # NoEntry /\ CountedIn(a) = k /\ es[a].st = "Pending"}

Updating(es, k) ==
    {a \in Apps : es[a] # NoEntry /\ CountedIn(a) = k
                  /\ es[a].st \in {"Pending", "Progressing"}}
Counted(es, k) == {a \in Apps : es[a] # NoEntry /\ CountedIn(a) = k}

\* UpdateApplicationSetApplicationStatusProgress: in the order of their names,
\* waiting applications become pending while their step's limit allows it.
Promote(es, toSync) ==
    LET PromoteOne(s, a) ==
            IF /\ s[a] # NoEntry /\ s[a].st = "Waiting"
               /\ a \in toSync
               /\ \/ plan.steps[CountedIn(a)].max.type = "unset"
                  \/ Cardinality(Updating(s, CountedIn(a)))
                        < MaxUpdateVal(CountedIn(a), Cardinality(Counted(es, CountedIn(a))))
            THEN [s EXCEPT ![a].st = "Pending", ![a].msg = "pending"]
            ELSE s
    IN FoldLeft(PromoteOne, es, NameOrder)

\* The applications a promotion gives a new LastTransitionTime; that of the
\* other entries is never compared with anything.
Promoted(old, new) ==
    {a \in Apps : new[a] # NoEntry /\ new[a].st = "Pending" /\ old[a].st # "Pending"}

\* A new LastTransitionTime makes every earlier operation and reconciliation old.
Restamp(apps, promoted) ==
    [a \in Apps |-> IF a \in promoted /\ apps[a] # NoApp
                    THEN [apps[a] EXCEPT !.opNew = FALSE,
                            !.rec = IF @ = "never" THEN "never" ELSE "old"]
                    ELSE apps[a]]

\* History: a spec change is seen while the application is Synced, which makes
\* it count as rolled out.
Respecced ==
    {<<"respec", a>> : a \in {a \in src.desired :
        cache[a] # NoApp /\ cache[a].spec # src.spec /\ cache[a].sync = "Synced"}}
\* History: the operation of an application outlives its turn.
Outlived(es) ==
    {<<"outlived", a>> : a \in {a \in Apps :
        api[a] # NoApp /\ api[a].op
        /\ (es[a] = NoEntry \/ es[a].st \notin {"Pending", "Progressing"})}}
\* History: what is made good when applications are evaluated and promoted.
MadeGood(promoted) ==
    ({"respec", "reborn"} \X promoted)
        \cup {<<"silent", a>> : a \in {a \in Apps : cache[a] = api[a]}}

Spend(kind) ==
    /\ kind \in plan.faults
    /\ plan.left > 0
    /\ plan' = [plan EXCEPT !.left = @ - 1]

\* A pass starts: the entries are evaluated and written, then the next
\* applications are promoted and the entries written again; the set's own
\* status change queues another pass.  The set is passed by value: what is
\* synced depends on the entries as they were when the pass began.
PerformProgressiveSyncs ==
    /\ queue /\ ~pass.on /\ appset = "live"
    /\ \E first \in {Persisted(entry, Evaluated(cache))} :
       \E toSync \in {GetAppsToSync(cache, first)} :
       \E second \in {Promote(first, toSync)} :
          /\ entry' = second
          /\ api' = Restamp(api, Promoted(first, second))
          /\ cache' = Restamp(cache, Promoted(first, second))
          /\ queue' = (entry # first \/ first # second)
          /\ blame' = (blame \cup Respecced \cup Outlived(second))
                        \ MadeGood(Promoted(first, second))
          /\ pass' = [on |-> TRUE, desired |-> src.desired, spec |-> src.spec,
                      sync |-> {a \in toSync : entry[a] # NoEntry /\ entry[a].st = "Pending"},
                      todo |-> src.desired, failed |-> FALSE, down |-> FALSE]
    /\ UNCHANGED <<plan, src, wake, late, live, later, appset, good>>

\* The first or the second status write fails; the pass ends and is retried.
StatusWriteFails ==
    /\ queue /\ ~pass.on /\ appset = "live"
    /\ Spend("status")
    /\ entry' \in {entry, Persisted(entry, Evaluated(cache))}
    /\ blame' = blame \cup Respecced
    /\ UNCHANGED <<src, api, cache, wake, late, live, queue, later, pass, appset, good>>

-----------------------------------------------------------------------------
(* The applications are written: createOrUpdateInCluster, deleteInCluster.   *)

\* The versions the watch has still to deliver when new is written, where the
\* plan lets one of them turn up.
Behind(a, new) ==
    IF "older" \notin plan.faults \/ plan.left = 0 \/ late[a] # <<>> THEN late[a]
    ELSE IF cache[a] = api[a] THEN <<new>> ELSE <<api[a]>>

\* The client writes the object it got back into the cache.  A status change
\* that came back with it is no news when its own event arrives; a changed
\* spec is, when an older event turns up after it.  (If the store fails, or a
\* newer event came before it, the cache has the last version only after the
\* next event: the cache lags, as it does when that event is merely late.)
WriteBack(a, new) ==
    /\ api' = [api EXCEPT ![a] = new]
    /\ cache' = [cache EXCEPT ![a] = new]
    /\ wake' = IF cache[a] # NoApp /\ cache[a] # api[a] /\ new.spec # api[a].spec
               THEN wake \cup {a} ELSE wake \ {a}
    /\ late' = [late EXCEPT ![a] = Behind(a, new)]

\* An event from before a write arrives after it: the informer puts the older
\* version back.  History: an owned one, after its owner was removed and before
\* the pass lists the owned applications.
OlderEvent(a) ==
    /\ late[a] # <<>> /\ late[a] # <<cache[a]>>
    /\ Spend("older")
    /\ \E old \in {late[a][1]} :
         /\ cache' = [cache EXCEPT ![a] = old]
         /\ queue' = (queue \/ (cache[a] # NoApp /\ ShouldRequeue(cache[a], old)))
         /\ wake' = IF api[a] # NoApp /\ ShouldRequeue(old, api[a]) THEN wake \cup {a} ELSE wake
         /\ blame' = IF pass.down /\ old.owned THEN blame \cup {<<"returned", a>>} ELSE blame
    /\ late' = [b \in Apps |-> <<>>]
    /\ UNCHANGED <<src, api, live, entry, later, pass, appset, good>>

\* The object is gone or being deleted: the client drops it from the cache.
Evict(a) ==
    /\ cache' = [cache EXCEPT ![a] = NoApp]
    /\ wake' = wake \ {a}
    /\ UNCHANGED late

\* The copy needs no patch.
UpToDate(a) ==
    cache[a] # NoApp /\ cache[a].spec = pass.spec /\ (a \in pass.sync => cache[a].op)

\* History: a new spec arrives while the status still says Synced, or when no
\* operation of this turn will apply it.
OutOfTurn(a, new) ==
    IF api[a] # NoApp /\ new.spec # api[a].spec
         /\ \/ api[a].sync = "Synced"
            \/ entry[a] # NoEntry /\ entry[a].st # "Waiting" /\ (new.op => new.opNew)
    THEN {<<"respec", a>>} ELSE {}

\* History: an application is created anew after this pass, or one whose
\* status could not be written, evaluated its predecessor.
Reborn(a, new) ==
    IF api[a] = NoApp /\ new # NoApp /\ entry[a] # NoEntry THEN {<<"reborn", a>>} ELSE {}

\* CreateOrUpdate for one application of the pass; it reads the cache.
CreateOrUpdate(a) ==
    LET copy == cache[a]
        op == a \in pass.sync
    IN
    /\ pass.on /\ a \in pass.todo
    /\ \/ /\ copy = NoApp /\ api[a] = NoApp
          /\ WriteBack(a, [NewApp EXCEPT !.spec = pass.spec, !.op = op])
          /\ good' = [good EXCEPT ![a] = {}]
          /\ pass' = [pass EXCEPT !.todo = @ \ {a}]
       \/ /\ copy = NoApp /\ api[a] # NoApp              \* already exists
          /\ pass' = [pass EXCEPT !.todo = @ \ {a}, !.failed = TRUE]
          /\ UNCHANGED <<api, cache, wake, late, good>>
       \/ /\ copy # NoApp /\ api[a] # NoApp
          /\ ~UpToDate(a)
          /\ WriteBack(a, [api[a] EXCEPT
                !.spec = IF copy.spec = pass.spec THEN @ ELSE pass.spec,
                !.op = IF op /\ ~copy.op THEN TRUE ELSE @])
          /\ pass' = [pass EXCEPT !.todo = @ \ {a}]
          /\ UNCHANGED good
       \/ /\ copy # NoApp /\ api[a] = NoApp              \* not found
          /\ ~UpToDate(a)
          /\ Evict(a)
          /\ pass' = [pass EXCEPT !.todo = @ \ {a}, !.failed = TRUE]
          /\ UNCHANGED <<api, good>>
    /\ blame' = (blame \cup OutOfTurn(a, api'[a]) \cup Reborn(a, api'[a]))
                  \ {<<"dropped", b>> : b \in {b \in {a} : api[a] = NoApp}}
    /\ UNCHANGED <<plan, src, live, entry, queue, later, appset>>

\* One application cannot be written: the others still are.
WriteFails(a) ==
    /\ pass.on /\ a \in pass.todo
    /\ Spend("write")
    /\ pass' = [pass EXCEPT !.todo = @ \ {a}, !.failed = TRUE]
    /\ UNCHANGED <<src, api, cache, wake, late, live, entry, queue, later, appset,
                   good, blame>>

AllowDelete == plan.policy = "sync"

\* Delete on the API server: the object stays until its finalizers are done.
Deleted(apps, dead) ==
    [a \in Apps |-> IF a \in dead /\ apps[a] # NoApp
                    THEN [apps[a] EXCEPT !.deleting = TRUE] ELSE apps[a]]

\* The pass ends: applications that are no longer generated are deleted,
\* unless an application could not be written, which queues the set again.
FinishPass ==
    LET dead == {a \in Apps \ pass.desired : cache[a] # NoApp} IN
    /\ pass.on /\ \A a \in pass.todo : UpToDate(a)
    /\ pass' = Idle
    /\ queue' = (queue \/ pass.failed)
    /\ IF AllowDelete /\ ~pass.failed
       THEN /\ api' = Deleted(api, dead)
            /\ cache' = [a \in Apps |-> IF a \in dead THEN NoApp ELSE cache[a]]
            /\ wake' = wake \ dead
            /\ blame' = blame \cup ({"dropped"} \X dead)
            /\ UNCHANGED late
       ELSE UNCHANGED <<api, cache, wake, late, blame>>
    /\ UNCHANGED <<plan, src, live, entry, later, appset, good>>

\* The controller restarts: the pass is lost, the cache is listed afresh and
\* every set is queued.
Restart ==
    /\ Spend("crash")
    /\ pass' = Idle
    /\ cache' = api
    /\ wake' = {}
    /\ late' = [a \in Apps |-> <<>>]
    /\ queue' = (appset # "gone")
    /\ later' = FALSE
    /\ UNCHANGED <<src, api, live, entry, appset, good, blame>>

-----------------------------------------------------------------------------
(* The set is deleted, its applications in reverse order of their steps.     *)

Owned == {a \in Apps : cache[a] # NoApp /\ cache[a].owned}

\* The applications in done lose their owner; the update goes to the cache too.
RemoveOwner(done) ==
    LET Disowned(apps) ==
            [a \in Apps |-> IF a \in done THEN [apps[a] EXCEPT !.owned = FALSE] ELSE apps[a]]
    IN /\ api' = Disowned(api) /\ cache' = Disowned(cache)
       /\ late' = [a \in Apps |-> IF a \in done THEN Behind(a, Disowned(api)[a]) ELSE late[a]]
       /\ UNCHANGED wake

\* Mutant: a refused update does not end the pass.
DisownRegardless ==
    /\ RemoveOwner({a \in Owned : cache[a] = api[a]})
    /\ queue' = FALSE
    /\ pass' = [Idle EXCEPT !.down = TRUE]

\* removeOwnerReferencesOnDeleteAppSet: a full update of each application,
\* refused if the copy is not current, which ends the pass: the applications
\* before the first refusal are disowned.
Disown ==
    LET stale == {a \in Owned : cache[a] # api[a]} IN
    \E done \in SUBSET (Owned \ stale) :
       /\ stale = {} => done = Owned
       /\ RemoveOwner(done)
       /\ queue' = (stale # {})
       /\ pass' = [Idle EXCEPT !.down = (stale = {})]


\* The selected applications that the cache lists, of the highest step.
NextToDelete ==
    LET selected == {a \in Owned : StepOf(a) # 0}
    IN {a \in selected : \A b \in selected : StepOf(b) <= StepOf(a)}

\* Mutant: the set also waits for the applications no step selects.
RemoveFinalizerLast ==
    /\ NextToDelete = {}
    /\ appset' = IF Owned = {} THEN "gone" ELSE appset
    /\ queue' = FALSE
    /\ UNCHANGED <<api, cache, wake, late, later>>

\* What follows when none is left to delete: the finalizer goes.
RemoveFinalizer ==
    /\ NextToDelete = {}
    /\ appset' = "gone"
    /\ queue' = FALSE
    /\ UNCHANGED <<api, cache, wake, late, later>>

\* PerformReverseDeletion: one application of the last step left is deleted and
\* the set requeued in ten seconds; when none is left, the finalizer goes.
\* (After two minutes of terminating, the pass fails and is retried instead.)
ReverseDelete ==
    \/ \E a \in NextToDelete :
         /\ api' = Deleted(api, {a})
         /\ Evict(a)
         /\ queue' = (pass.down /\ queue) /\ later' = TRUE
         /\ UNCHANGED appset
    \/ RemoveFinalizer

\* A pass over a set that is being deleted.  If the policy does not allow to
\* delete, the owners are removed first; then it lists what is owned and deletes
\* it in reverse order all the same.  History: the pass did not wait for the ten
\* seconds, some event queued it.
DeletePass ==
    /\ queue /\ ~pass.on /\ ~pass.down /\ appset = "deleting"
    /\ IF AllowDelete THEN ReverseDelete /\ UNCHANGED pass
                      ELSE Disown /\ UNCHANGED <<appset, later>>
    /\ blame' = IF later THEN blame \cup {<<"hurried">>} ELSE blame
    /\ UNCHANGED <<plan, src, live, entry, good>>

DeleteOwned ==
    /\ pass.down /\ pass' = Idle
    /\ ReverseDelete
    /\ UNCHANGED <<plan, src, live, entry, good, blame>>

\* Ten seconds have passed, by which time the events have arrived.
Requeue ==
    /\ later /\ cache = api /\ \A a \in Apps : late[a] = <<>>
    /\ queue' = TRUE /\ later' = FALSE
    /\ UNCHANGED <<plan, src, api, cache, wake, late, live, entry, pass, appset, good, blame>>

-----------------------------------------------------------------------------
(* The application controller and the workloads.                             *)

\* History: a new revision comes without an event that queues the set.
Silent(a, new) == IF new.rev # api[a].rev /\ ~ShouldRequeue(api[a], new)
                  THEN {<<"silent", a>>} ELSE {}

\* A refresh compares with the head of Git and persists the outcome.
Refresh(a) ==
    LET now == [api[a] EXCEPT
            !.rev = src.git,
            !.sync = CASE a \in plan.broken -> "Unknown"
                       [] a \notin plan.broken /\ live[a].at = Want(a) -> "Synced"
                       [] a \notin plan.broken /\ live[a].at # Want(a) -> "OutOfSync",
            !.health = live[a].health,
            !.err = a \in plan.broken,
            !.rec = "new"]
    IN
    /\ api[a] # NoApp /\ ~api[a].deleting
    /\ now # api[a]
    /\ AppWrite(a, now)
    /\ good' = IF now.sync = "Synced" /\ now.health = "Healthy"
               THEN [good EXCEPT ![a] = @ \cup {<<now.rev, now.spec>>}] ELSE good
    /\ blame' = (blame \cup Silent(a, now))
                  \ {<<"respec", b>> : b \in {b \in {a} : <<now.rev, src.spec>> \in good'[b]}}
    /\ UNCHANGED <<plan, src, live, entry, later, pass, appset>>

\* A requested operation starts; the revision is resolved at that moment.  Its
\* time is not after LastTransitionTime if both fall into the same second.
StartOperation(a) ==
    /\ api[a] # NoApp /\ ~api[a].deleting
    /\ api[a].op /\ api[a].phase # "running"
    /\ \E after \in BOOLEAN :
         /\ IF after THEN UNCHANGED plan ELSE ~api[a].opNew /\ Spend("second")
         /\ AppWrite(a, [api[a] EXCEPT !.phase = "running", !.opNew = after])
    /\ live' = [live EXCEPT ![a].to = Want(a)]
    /\ UNCHANGED <<src, entry, later, pass, appset, good, blame>>

\* It completes: the request is cleared, and if something new was deployed
\* the workload starts rolling.
FinishOperation(a) ==
    /\ api[a] # NoApp /\ api[a].phase = "running" /\ a \notin plan.broken
    /\ AppWrite(a, [api[a] EXCEPT !.phase = "done", !.op = FALSE])
    /\ live' = [live EXCEPT ![a].at = live[a].to,
                            ![a].to = [gen |-> 0, spec |-> 0],
                            ![a].health = IF live[a].at = live[a].to THEN @ ELSE "Progressing"]
    /\ blame' = blame \ {<<"failed", a>>, <<"outlived", a>>}
    /\ UNCHANGED <<plan, src, entry, later, pass, appset, good>>

\* It fails for good: its own retries are used up.
OperationFails(a) ==
    /\ api[a] # NoApp /\ api[a].phase = "running"
    /\ IF a \in plan.broken THEN UNCHANGED plan ELSE Spend("sync")
    /\ AppWrite(a, [api[a] EXCEPT !.phase = "done", !.op = FALSE])
    /\ live' = [live EXCEPT ![a].to = [gen |-> 0, spec |-> 0]]
    /\ blame' = (blame \ {<<"outlived", a>>}) \cup {<<"failed", a>>}
    /\ UNCHANGED <<src, entry, later, pass, appset, good>>

Recover(a) ==
    /\ live[a].health = "Progressing"
    /\ live' = [live EXCEPT ![a].health = "Healthy"]
    /\ UNCHANGED <<plan, src, api, cache, wake, late, entry, queue, later, pass, appset,
                   good, blame>>

Degrade(a) ==
    /\ api[a] # NoApp /\ live[a].health = "Healthy"
    /\ Spend("degrade")
    /\ live' = [live EXCEPT ![a].health = "Progressing"]
    /\ UNCHANGED <<src, api, cache, wake, late, entry, queue, later, pass, appset,
                   good, blame>>

\* The finalizers of a deleted application are done.
Finalized(a) ==
    /\ api[a] # NoApp /\ api[a].deleting
    /\ api' = [api EXCEPT ![a] = NoApp]
    /\ live' = [live EXCEPT ![a] = [at |-> [gen |-> 0, spec |-> 0],
                                    to |-> [gen |-> 0, spec |-> 0], health |-> "Healthy"]]
    /\ UNCHANGED <<plan, src, cache, wake, late, entry, queue, later, pass, appset, good, blame>>

\* The garbage collector deletes what a vanished set still owns.
GarbageCollect(a) ==
    /\ appset = "gone"
    /\ api[a] # NoApp /\ api[a].owned /\ ~api[a].deleting
    /\ api' = Deleted(api, {a})
    /\ UNCHANGED <<plan, src, cache, wake, late, live, entry, queue, later, pass, appset,
                   good, blame>>

-----------------------------------------------------------------------------
(* The users.                                                                *)

Commit ==
    /\ plan.commits # <<>> /\ appset = "live"
    /\ src' = [src EXCEPT !.git = @ + 1,
                 !.gen = [a \in Apps |-> IF a \in Head(plan.commits)
                                         THEN src.git + 1 ELSE src.gen[a]]]
    /\ plan' = [plan EXCEPT !.commits = Tail(@)]
    /\ UNCHANGED <<api, cache, wake, late, live, entry, queue, later, pass, appset,
                   good, blame>>

ChangeTemplate ==
    /\ plan.templates > 0 /\ appset = "live"
    /\ src' = [src EXCEPT !.spec = @ + 1]
    /\ plan' = [plan EXCEPT !.templates = @ - 1]
    /\ queue' = TRUE
    /\ UNCHANGED <<api, cache, wake, late, live, entry, later, pass, appset, good, blame>>

DropApplication(a) ==
    /\ a \in plan.drop /\ appset = "live"
    /\ src' = [src EXCEPT !.desired = @ \ {a}]
    /\ plan' = [plan EXCEPT !.drop = @ \ {a}]
    /\ queue' = TRUE
    /\ UNCHANGED <<api, cache, wake, late, live, entry, later, pass, appset, good, blame>>

\* A generator brings it back, perhaps while the old one is terminating.
RestoreApplication(a) ==
    /\ a \in plan.restore /\ a \notin src.desired /\ appset = "live"
    /\ src' = [src EXCEPT !.desired = @ \cup {a}]
    /\ plan' = [plan EXCEPT !.restore = @ \ {a}]
    /\ queue' = TRUE
    /\ UNCHANGED <<api, cache, wake, late, live, entry, later, pass, appset, good, blame>>

DeleteSet ==
    /\ plan.delete /\ appset = "live"
    /\ appset' = "deleting"
    /\ queue' = TRUE
    /\ UNCHANGED <<plan, src, api, cache, wake, late, live, entry, later, pass, good, blame>>

Controller ==
    \/ PerformProgressiveSyncs \/ FinishPass \/ DeletePass \/ DeleteOwned \/ Requeue
    \/ \E a \in Apps : CreateOrUpdate(a)

Environment(a) ==
    \/ StartOperation(a) \/ FinishOperation(a) \/ OperationFails(a)
    \/ Recover(a) \/ Finalized(a) \/ GarbageCollect(a)

Disturbance ==
    \/ StatusWriteFails \/ Restart \/ Commit \/ ChangeTemplate \/ DeleteSet
    \/ \E a \in Apps : WriteFails(a) \/ Degrade(a)
                     \/ OlderEvent(a) \/ DropApplication(a) \/ RestoreApplication(a)

Next ==
    \/ Controller \/ Disturbance
    \/ \E a \in Apps : Watch(a) \/ Refresh(a) \/ Environment(a)

Spec == Init /\ [][Next]_vars

\* The work queue hands out a queued set, the informer delivers, the workers
\* of the application controller's two queues and the workloads keep going.
Fairness ==
    /\ WF_vars(Controller)
    /\ WF_vars(\E a \in Apps : Watch(a))
    /\ \A a \in Apps : WF_vars(Refresh(a)) /\ WF_vars(Environment(a))

FairSpec == Spec /\ Fairness

-----------------------------------------------------------------------------
(* Properties.                                                               *)

AppType == [spec : Nat, rev : Nat, sync : {"Unknown", "OutOfSync", "Synced"},
            health : {"Unknown", "Progressing", "Healthy"}, op : BOOLEAN,
            phase : {"none", "running", "done"}, opNew : BOOLEAN,
            rec : {"never", "old", "new"}, err : BOOLEAN, deleting : BOOLEAN,
            owned : BOOLEAN]

\* Promoting an application means that every application of an earlier step
\* has really been synced and healthy at the revision it is known to be at and
\* with the current template, unless its spec changed out of its turn or it
\* replaced an application that had been.
WavesInOrder ==
    [][\A a \in Apps :
         entry'[a] # NoEntry /\ entry'[a].st = "Pending"
           /\ (entry[a] = NoEntry \/ entry[a].st # "Pending") =>
         \A j \in 1..StepOf(a) - 1 : \A b \in InStep(j) :
            /\ cache[b] # NoApp
            /\ \/ <<cache[b].rev, src.spec>> \in good[b]
               \/ {<<"respec", b>>, <<"reborn", b>>} \cap blame' # {}
      ]_vars

Busy(k) ==
    {a \in Apps : StepOf(a) = k /\ api[a] # NoApp
                  /\ \/ api[a].op
                     \/ entry[a] # NoEntry /\ entry[a].st = "Pending"}

\* No more applications of a step are being synced than its maxUpdate allows,
\* not counting an operation that outlives its application's turn: a new change
\* ends the turn, or an operation that was requested twice runs once too often.
AtMostMaxUpdate ==
    \A k \in DOMAIN plan.steps :
        plan.steps[k].max.type # "unset" =>
            Cardinality({a \in Busy(k) : <<"outlived", a>> \notin blame})
                <= MaxUpdateVal(k, Cardinality(Counted(entry, k)))

Rolled(a) ==
    /\ api[a] # NoApp
    /\ live[a].at = Want(a) /\ api[a].spec = src.spec
    /\ entry[a] # NoEntry /\ entry[a].st = "Healthy"

\* Once the changes stop, every application of every step runs the last one,
\* unless a sync failed for good, a spec changed out of turn, an application
\* replaced one that was Healthy, or a new revision came without an event that
\* queues the set.
RolloutCompletes ==
    <>[](\/ appset # "live"
         \/ \E a \in Apps : ({"failed", "respec", "reborn", "silent"} \X {a}) \cap blame # {}
         \/ \A a \in src.desired : StepOf(a) # 0 => Rolled(a))

MarkedBySet(a) ==
    /\ appset = "deleting" /\ api[a] # NoApp /\ ~api[a].deleting
    /\ api'[a] # NoApp /\ api'[a].deleting

\* Gone, or at least going before its turn was over: a pass that some event
\* queued did not wait for it, or it had left the set before.
Cleared(b) ==
    \/ api[b] = NoApp
    \/ api[b].deleting /\ (<<"hurried">> \in blame' \/ <<"dropped", b>> \in blame')


\* A policy that does not allow deletion keeps every application, also when the
\* set is deleted with deletionOrder Reverse, unless an event from before its
\* owner was removed arrives between that update and the listing of the owned
\* applications in the same pass.
PolicyKeepsApplications ==
    ~AllowDelete => \A a \in Apps : api[a] # NoApp /\ api[a].deleting => <<"returned", a>> \in blame

\* A deleted set goes away, and takes its applications with it.
SetIsDeleted ==
    appset = "deleting" ~>
        appset = "gone" /\ (AllowDelete => \A a \in Apps : api[a] = NoApp)

\* What progressive_sync.go:326-327 says of the comparison of the generated
\* with the live spec: it catches changes of generator parameters, so that a
\* new template comes to run in every selected application.
TemplateReachesApplications ==
    <>[](\A a \in src.desired : StepOf(a) # 0 => live[a].at.spec = src.spec)
=============================================================================
