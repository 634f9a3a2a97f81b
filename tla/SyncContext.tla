---------------------------- MODULE SyncContext ----------------------------
(***************************************************************************)
(* One sync of an application by the sync engine (gitops-engine).          *)
(*                                                                         *)
(* A sync is a list of tasks: apply a resource, prune one, run a hook.     *)
(* The engine is called in rounds.  Each round works out from the results  *)
(* recorded so far which tasks come next, runs the first wave of them, and *)
(* returns; the caller records the results and calls again while the phase *)
(* is Running.  In between, objects become healthy or fail, deletions      *)
(* finish, and the engine's view of the cluster, a cache, catches up.      *)
(*                                                                         *)
(* A round is one step: nothing in it waits for the cluster.               *)
(***************************************************************************)
EXTENDS Integers, FiniteSetsExt

CONSTANTS
    Plans   \* the syncs: their tasks (info), those the API server refuses (bad), those
            \* left out because ApplyOutOfSyncOnly is set (inSync), prunes that may
            \* delete (prune), whether the cache catches up between rounds (fresh),
            \* attempts at most, retries included (attempts), and the kinds of faults
            \* and how many of them at most (left); "dryRun" marks a dry run

VARIABLES
    obj,       \* the objects in the cluster
    seen,      \* the objects as the cache has them
    res,       \* the recorded result of every task
    phase,     \* the phase of the operation
    confirmed, \* whether pruning was confirmed
    term,      \* whether the operation is terminating
    ours,      \* history: tasks the attempt applied
    good,      \* history: those whose object was healthy since the last time
    turn,      \* history: flips with every round of the engine
    attempts,  \* attempts so far
    plan       \* the sync, and the faults that may still happen

vars == <<obj, seen, res, phase, confirmed, term, ours, good, turn, attempts, plan>>

\* Per task: obj, phase, wave, kind, policies (of a hook), last and confirm
\* (whether a prune comes last, needs approval).
Info == plan.info
Tasks == DOMAIN Info
Bad == plan.bad
InSync == plan.inSync
Prune == plan.prune
Fresh == plan.fresh

Obj(t) == Info[t].obj
Objs == {Obj(t) : t \in Tasks}

isHook(t) == Info[t].kind = "hook"
isPrune(t) == Info[t].kind = "prune"
isNamespace(t) == Info[t].kind = "namespace"
SyncFailTasks == {t \in Tasks : Info[t].phase = "SyncFail"}

PhaseOrder == [PreSync |-> 1, Sync |-> 2, PostSync |-> 3, SyncFail |-> 4]

DryRun == "dryRun" \in plan.kinds

Absent == [health |-> "none", fin |-> FALSE, del |-> FALSE]
Present == [health : {"Progressing", "Healthy", "Degraded"},
            fin : BOOLEAN, del : BOOLEAN]

Completed(op) == op \in {"Succeeded", "Failed", "Error"}
NoRes == [status |-> "", op |-> ""]

-----------------------------------------------------------------------------
(* The order of tasks                                                      *)

\* A prune task exists as long as the cache has the object.
Current == {t \in Tasks : isPrune(t) => seen[Obj(t)] # Absent}

\* Mutation: prunes keep the wave they are created in.
Waves_NotReversed == [t \in Current |-> Info[t].wave]

\* Prunes swap waves symmetrically, the first with the last and so on.
Mirror(ws) ==
    [w \in ws |-> CHOOSE x \in ws :
                      Cardinality({y \in ws : y > x}) = Cardinality({y \in ws : y < w})]

Swapped(mirror) ==
    [t \in Current |-> IF isPrune(t) THEN mirror[Info[t].wave] ELSE Info[t].wave]

\* A prune that comes last gets a wave after all of Sync.
PrunesLast(waves) ==
    [t \in Current |->
        IF isPrune(t) /\ Info[t].last
        THEN 1 + Max({0} \cup {waves[u] : u \in {v \in Current : Info[v].phase = "Sync"}})
        ELSE waves[t]]

Waves == PrunesLast(Swapped(Mirror({Info[t].wave : t \in {u \in Current : isPrune(u)}})))

Less(a, b) == a.phase < b.phase \/ (a.phase = b.phase /\ a.wave < b.wave)

Sorted(waves) ==
    [t \in Current |-> [phase |-> PhaseOrder[Info[t].phase], wave |-> waves[t]]]

First(places) == CHOOSE p \in places : \A q \in places : ~Less(q, p)

\* The namespace moves up to the first task that is to be created in it.
NamespaceFirst(places) ==
    [t \in Current |->
        IF isNamespace(t)
        THEN First({places[u] : u \in {v \in Current : ~isPrune(v) /\ ~isNamespace(v)} \cup {t}})
        ELSE places[t]]

\* The phase and wave of every task.
Places == NamespaceFirst(Sorted(Waves))

multiStep(places) == \E t, u \in Current : Less(places[t], places[u])

\* The tasks of the first phase and wave in a set.
Earliest(T, places) == {t \in T : \A u \in T : ~Less(places[u], places[t])}

FirstWave(T) == Earliest(T, Places)

-----------------------------------------------------------------------------
(* The steps of a round work on a record w of the results and the objects  *)
(* in the cluster.  A set F names the calls to the API server that fail:   *)
(* pairs of a task and a kind of call.                                     *)

Live(t) == seen[Obj(t)]
Pending(w, t) == w.res[t].op = ""
Running(w, t) == w.res[t].op = "Running"

SetResult(w, T, status, op) ==
    [w EXCEPT !.res = [t \in Tasks |->
        IF t \in T THEN [status |-> status, op |-> op] ELSE @[t]]]

SetPhase(w, T, op) ==
    [w EXCEPT !.res = [t \in Tasks |->
        IF t \in T THEN [@[t] EXCEPT !.op = op] ELSE @[t]]]

\* Change the objects of the tasks in T that are there.
Update(w, T, Change(_)) ==
    [w EXCEPT !.obj = [o \in Objs |->
        IF @[o] # Absent /\ \E t \in T : Obj(t) = o THEN Change(@[o]) ELSE @[o]]]

Failing(T, kind, F) == {t \in T : <<t, kind>> \in F}

WithoutFinalizer(x) == [x EXCEPT !.fin = FALSE]
Deleting(x) == [x EXCEPT !.del = TRUE]

\* Mutation: hooks keep their finalizer.
removeHookFinalizer_Forgotten(w, T, F) == w

\* removeHookFinalizer: nothing to do if the cached object has no finalizer; a
\* conflict is retried on the object itself, so the cached one need not be
\* the latest.
removeHookFinalizer(w, T, F) ==
    LET due == {t \in T : Live(t).fin}
        bad == Failing(due, "finalizer", F)
    IN  SetPhase(Update(w, due \ bad, WithoutFinalizer), bad, "Error")

deleteHooks(w, T, F) ==
    LET bad == Failing(T, "delete", F)
    IN  SetPhase(Update(w, T \ bad, Deleting), bad, "Error")

\* The health of a live object: one that is going away is progressing, unless
\* it is a hook the engine still holds.
GetResourceHealth(x) == IF x.del /\ ~x.fin THEN "Progressing" ELSE x.health

getOperationPhase(x) ==
    CASE GetResourceHealth(x) = "Progressing" -> "Running"
      [] GetResourceHealth(x) = "Healthy"     -> "Succeeded"
      [] GetResourceHealth(x) = "Degraded"    -> "Failed"

-----------------------------------------------------------------------------
(* runTasks: the finalizers of hooks left by an earlier sync, then prunes,  *)
(* then deletions before creation, then creations.  A stage that fails or   *)
(* has to wait ends the run.  The value is w with its run state.            *)

Outcome(w, state) == [w EXCEPT !.state = state]

deleteBeforeCreation(w, t) ==
    /\ isHook(t) /\ Pending(w, t) /\ Live(t) # Absent
    /\ "BeforeHookCreation" \in Info[t].policies

\* pruneObject.  An object the cache shows as deleting is not deleted again; one
\* that is gone without the cache knowing is an error.
pruneTasks(w, T, dry, F) ==
    LET wet  == {t \in T \cap Prune : ~dry /\ ~Live(t).del}
        bad  == {t \in wet : w.obj[Obj(t)] = Absent \/ <<t, "prune">> \in F}
        done == IF dry /\ ~DryRun THEN {} ELSE T \ bad
    IN  Outcome(SetResult(SetResult(SetResult(Update(w, wet \ bad, Deleting),
                                              bad, "SyncFailed", "Failed"),
                                    done \cap Prune, "Pruned", "Succeeded"),
                          done \ Prune, "PruneSkipped", "Succeeded"),
                IF bad = {} THEN "successful" ELSE "failed")

\* The API server refuses a new finalizer on an object that is being deleted.
Refused(w, t) ==
    LET x == w.obj[Obj(t)] IN isHook(t) /\ x.del /\ ~x.fin

Applied(x, t) == [health |-> "Progressing", fin |-> isHook(t), del |-> x.del]

Apply(w, T) ==
    [w EXCEPT !.obj = [o \in Objs |->
                  IF \E t \in T : Obj(t) = o
                  THEN Applied(@[o], CHOOSE t \in T : Obj(t) = o) ELSE @[o]],
              !.applied = @ \cup T]

processCreateTasks(w, T, dry, F) ==
    LET bad  == {t \in T : t \in Bad \/ (~dry /\ (<<t, "apply">> \in F \/ Refused(w, t)))}
        done == IF dry /\ ~DryRun THEN {} ELSE T \ bad
    IN  Outcome(SetResult(SetResult(Apply(w, IF dry THEN {} ELSE done),
                                    bad, "SyncFailed", "Failed"),
                          done, "Synced", IF DryRun THEN "Succeeded" ELSE "Running"),
                IF bad = {} THEN "successful" ELSE "failed")

\* Hooks to be deleted first; one that is gone by now needs no deletion.
deleteAndCreate(w, T, dry, F) ==
    LET old == {t \in T : deleteBeforeCreation(w, t) /\ w.obj[Obj(t)] # Absent}
    IN  IF dry \/ old = {} THEN processCreateTasks(w, T, dry, F)
        ELSE Outcome(deleteHooks(w, old, F),
                     IF Failing(old, "delete", F) = {} THEN "pending" ELSE "failed")

pruneFirst(w, T, dry, F) ==
    LET prunes == {t \in T : isPrune(t)}
        next(v) == IF v.state = "failed" THEN v ELSE deleteAndCreate(v, T \ prunes, dry, F)
    IN  IF ~confirmed /\ \E t \in prunes : Info[t].confirm THEN Outcome(w, "pending")
        ELSE next(pruneTasks(w, prunes, dry, F))

\* Mutation: only the validation is dry.
runTasks_Wet(w, T, dryRun, F) ==
    LET dry      == dryRun
        existing == {t \in T : isHook(t) /\ Pending(w, t) /\ Live(t) # Absent}
        next(v)  == IF \E t \in existing : ~Pending(v, t) THEN Outcome(v, "failed")
                    ELSE pruneFirst(v, T, dry, F)
    IN  next(removeHookFinalizer(w, IF dry THEN {} ELSE existing, F))

runTasks(w, T, dryRun, F) ==
    LET dry      == dryRun \/ DryRun
        existing == {t \in T : isHook(t) /\ Pending(w, t) /\ Live(t) # Absent}
        next(v)  == IF \E t \in existing : ~Pending(v, t) THEN Outcome(v, "failed")
                    ELSE pruneFirst(v, T, dry, F)
    IN  next(removeHookFinalizer(w, IF dry THEN {} ELSE existing, F))

-----------------------------------------------------------------------------
(* The rounds                                                              *)

Work == [res |-> res, obj |-> obj, applied |-> {}, state |-> "successful"]

\* The calls to the API server that a task makes.
Calls(t) ==
    CASE isHook(t)  -> {"apply", "delete", "finalizer", "get"}
      [] isPrune(t) -> {"prune"}
      [] OTHER      -> {"apply", "get"}

\* At most one call of a round fails.
FaultSets ==
    {{}} \cup (IF plan.left > 0
               THEN UNION {{{<<t, c>>} : c \in Calls(t) \cap plan.kinds} : t \in Current}
               ELSE {})

\* A round ends: its results are recorded, or lost if the controller stops first.
EndRound(w, ph, F) ==
    /\ obj' = w.obj
    /\ turn' = ~turn
    /\ ours' = ours \cup w.applied
    /\ good' = good \ w.applied
    /\ \/ /\ res' = w.res
          /\ phase' = ph
          /\ plan' = [plan EXCEPT !.left = @ - Cardinality(F)]
       \/ /\ "crash" \in plan.kinds /\ F = {} /\ plan.left > 0
          /\ plan' = [plan EXCEPT !.left = @ - 1]
          /\ UNCHANGED <<res, phase>>
    /\ UNCHANGED <<seen, confirmed, term, attempts>>

Round == phase = "Running" /\ ~term /\ (Fresh => seen = obj)

started == \E t \in Tasks : res[t] # NoRes

\* Mutation: a resource is left out though it is not there.
filterOutOfSyncTasks_Missing(T) == T \ InSync

filterOutOfSyncTasks(T) == {t \in T : ~(t \in InSync /\ Live(t) # Absent)}

NamespaceTasks == {t \in Current : isNamespace(t) /\ Live(t) = Absent}

\* The results of running tasks follow the health of their live objects.
Refresh(w) ==
    [w EXCEPT !.res = [t \in Tasks |->
        IF t \in Current /\ @[t].op = "Running" /\ Live(t) # Absent
           /\ (isHook(t) \/ getOperationPhase(Live(t)) # "Running")
        THEN [@[t] EXCEPT !.op = getOperationPhase(Live(t))] ELSE @[t]]]

\* The first round creates the namespace and validates everything else.
Validate(w) ==
    IF w.state = "failed" THEN w
    ELSE runTasks(w, filterOutOfSyncTasks(Current \ NamespaceTasks), TRUE, {})

Prepare(F) ==
    LET refresh(w) == IF w.state = "failed" THEN w ELSE Refresh(w)
    IN  IF started THEN Refresh(Work)
        ELSE refresh(Validate(runTasks(Work, NamespaceTasks, FALSE, F)))

\* Mutation: only hooks are waited for.
runningTasks_Hooks(w) == {t \in Current : Running(w, t) /\ isHook(t)}

runningTasks(w) == {t \in Current : Running(w, t) /\ (isHook(t) \/ multiStep(Places))}

prunedTasksPendingDelete(w) ==
    {t \in Current : w.res[t].status = "Pruned" /\ Live(t).del}

Idle(w) == runningTasks(w) = {} /\ prunedTasksPendingDelete(w) = {}

hooksPendingDeletion(w, policy) ==
    {t \in Current : /\ isHook(t) /\ Live(t) # Absent /\ ~Running(w, t)
                     /\ policy \in Info[t].policies}

\* The finalizers of completed hooks are removed before anything else is run.
Unlock(w, F) ==
    removeHookFinalizer(w, {t \in Current : isHook(t) /\ Completed(w.res[t].op)}, F)

\* Regular tasks run until one of them fails, the tasks for failure then.
Regular == Current \ SyncFailTasks

Unsuccessful(w) ==
    \E t \in Regular : Completed(w.res[t].op) /\ w.res[t].op # "Succeeded"

Remaining(w) == filterOutOfSyncTasks({t \in Regular : Pending(w, t)})

\* Mutation: an object left by an earlier sync counts as done.
SyncFailDone_Leftover(w) ==
    \A t \in SyncFailTasks : Completed(w.res[t].op) \/ Live(t).health = "Healthy"

SyncFailDone(w) == \A t \in SyncFailTasks : Completed(w.res[t].op)

executeSyncFailPhase(w, F) ==
    IF SyncFailDone(w) THEN w
    ELSE runTasks(w, {t \in SyncFailTasks : Pending(w, t)}, FALSE, F)

\* A task is not valid: its kind is unknown to the API server or not permitted.
SyncInvalid ==
    /\ Round
    /\ "invalid" \in plan.kinds /\ plan.left > 0
    /\ \E t \in Current :
          EndRound(SetResult(Work, {t}, "SyncFailed", ""), "Failed", {<<t, "invalid">>})

SyncRefused ==
    /\ Round
    /\ \E F \in FaultSets : \E w \in {Prepare(F)} :
          /\ w.state = "failed"
          /\ EndRound(w, "Failed", F)

\* A running task whose object is missing has failed.
SyncWaits ==
    /\ Round
    /\ \E F \in FaultSets : \E w \in {Prepare(F)} :
          LET unseen  == {t \in runningTasks(w) : Live(t) = Absent}
              unknown == Failing(unseen, "get", F)
              missing == {t \in unseen \ unknown : w.obj[Obj(t)] = Absent}
          IN  /\ w.state # "failed"
              /\ runningTasks(w) # {}
              /\ EndRound(SetPhase(SetResult(w, missing, "SyncFailed", "Error"), unknown, "Error"),
                          "Running", F)

SyncAwaitsDeletion ==
    /\ Round
    /\ \E w \in {Prepare({})} :
          /\ w.state # "failed"
          /\ runningTasks(w) = {}
          /\ prunedTasksPendingDelete(w) # {}
          /\ EndRound(w, "Running", {})

\* What the round goes on with once nothing is running or being pruned.
Advance(F) ==
    {Unlock(w, F) : w \in {v \in {Prepare(F)} : v.state # "failed" /\ Idle(v)}}

SyncUnsuccessful ==
    /\ Round
    /\ \E F \in FaultSets : \E u \in Advance(F) :
       \E w \in {deleteHooks(u, hooksPendingDeletion(u, "HookFailed"), F)} :
          /\ Unsuccessful(u)
          /\ EndRound(executeSyncFailPhase(w, F),
                      IF SyncFailDone(w) THEN "Failed" ELSE "Running", F)

SyncNoMoreTasks ==
    /\ Round
    /\ \E F \in FaultSets : \E u \in Advance(F) :
          /\ ~Unsuccessful(u)
          /\ Remaining(u) = {}
          /\ EndRound(deleteHooks(u, hooksPendingDeletion(u, "HookSucceeded"), F),
                      "Succeeded", F)

\* The next wave runs.  The sync is over if nothing remains after it and no hook
\* has to be waited for.
SyncWaveRuns ==
    /\ Round
    /\ \E F \in FaultSets : \E u \in Advance(F) : \E wave \in {FirstWave(Remaining(u))} :
       \E w \in {runTasks(u, wave, FALSE, F)} :
          LET over == /\ w.state = "successful"
                      /\ Remaining(u) = wave /\ \A t \in wave : ~isHook(t)
              done == hooksPendingDeletion(u, "HookSucceeded")
          IN  /\ ~Unsuccessful(u)
              /\ wave # {}
              /\ w.state # "failed"
              /\ \/ over /\ EndRound(deleteHooks(w, done, F), "Succeeded", F)
                 \/ ~over /\ EndRound(w, "Running", F)

\* The hooks to delete are the ones collected before the wave ran.
SyncWaveFails ==
    /\ Round
    /\ \E F \in FaultSets : \E u \in Advance(F) : \E wave \in {FirstWave(Remaining(u))} :
       \E w \in {runTasks(u, wave, FALSE, F)} :
          LET over == SyncFailDone(w) /\ \A t \in wave : ~Running(w, t)
              done == hooksPendingDeletion(u, "HookFailed")
          IN  /\ ~Unsuccessful(u)
              /\ w.state = "failed"
              /\ \/ over /\ EndRound(deleteHooks(w, done, F), "Failed", F)
                 \/ ~over /\ EndRound(executeSyncFailPhase(w, F), "Running", F)

\* Mutation: running hooks are left alone.
terminateHooksPreemptively_Skipped(w, F) == Outcome(w, "successful")

\* Running hooks are stopped: their finalizer is removed, and they are deleted
\* unless they have ended and stay after a failure.
terminateHooksPreemptively(w, F) ==
    LET running == {t \in Current : isHook(t) /\ Running(w, t)}
        unknown == Failing({t \in running : Live(t) = Absent}, "get", F)
        live    == [t \in running |-> IF Live(t) = Absent THEN w.obj[Obj(t)] ELSE Live(t)]
        gone    == {t \in running \ unknown : live[t] = Absent}
        there   == running \ (unknown \cup gone)
        held    == Failing({t \in there : live[t].fin}, "finalizer", F)
        ended   == [t \in there |-> getOperationPhase(live[t])]
        doomed  == {t \in there \ held : ended[t] = "Running" \/ "HookFailed" \in Info[t].policies}
        kept    == Failing(doomed, "delete", F)
        op(t)   == CASE t \in unknown \cup held -> "Error"
                     [] t \in gone -> "Succeeded"
                     [] t \in kept -> "Failed"
                     [] OTHER -> IF ended[t] = "Succeeded" THEN "Succeeded" ELSE "Failed"
        w1      == Update(w, {t \in there \ held : live[t].fin}, WithoutFinalizer)
        w2      == Update(w1, doomed \ kept, Deleting)
        res2    == [t \in Tasks |->
                       IF t \in running THEN [w.res[t] EXCEPT !.op = op(t)] ELSE w.res[t]]
    IN  Outcome([w2 EXCEPT !.res = res2],
                IF unknown \cup held \cup kept = {} THEN "successful" ELSE "failed")

\* A hook found not valid is no longer known to be running.
Terminate ==
    /\ phase = "Running" /\ term /\ (Fresh => seen = obj)
    /\ \E F \in FaultSets \cup (IF "invalid" \in plan.kinds /\ plan.left > 0
                                THEN {{<<t, "invalid">>} : t \in Current} ELSE {}) :
          LET w0   == SetResult(Work, Failing(Current, "invalid", F), "SyncFailed", "")
              done == {t \in Current : isHook(t) /\ Completed(w0.res[t].op)}
              w    == terminateHooksPreemptively(removeHookFinalizer(w0, done, F), F)
          IN  EndRound(w, IF w.state = "successful" THEN "Failed" ELSE "Error", F)

\* The operation's retry: a new attempt starts without results.
Retry ==
    /\ phase \in {"Failed", "Error"} /\ ~term /\ attempts < plan.attempts
    /\ attempts' = attempts + 1
    /\ phase' = "Running"
    /\ res' = [t \in Tasks |-> NoRes]
    /\ ours' = {} /\ good' = {}
    /\ UNCHANGED <<obj, seen, confirmed, term, turn, plan>>

-----------------------------------------------------------------------------
(* The users and the cluster                                               *)

RequestTermination ==
    /\ "terminate" \in plan.kinds /\ phase = "Running" /\ ~term
    /\ term' = TRUE
    /\ UNCHANGED <<obj, seen, res, phase, confirmed, ours, good, turn, attempts, plan>>

ConfirmPruning ==
    /\ ~confirmed /\ \E t \in Tasks : Info[t].confirm
    /\ confirmed' = TRUE
    /\ UNCHANGED <<obj, seen, res, phase, term, ours, good, turn, attempts, plan>>

\* A workload settles.
Settle(o) ==
    /\ obj[o] # Absent /\ obj[o].health = "Progressing"
    /\ \/ obj' = [obj EXCEPT ![o].health = "Healthy"] /\ good' = good \cup {t \in ours : Obj(t) = o}
       \/ obj' = [obj EXCEPT ![o].health = "Degraded"] /\ UNCHANGED good
    /\ UNCHANGED <<seen, res, phase, confirmed, term, ours, turn, attempts, plan>>

DeletionEnds(o) ==
    /\ obj[o].del /\ ~obj[o].fin
    /\ obj' = [obj EXCEPT ![o] = Absent]
    /\ UNCHANGED <<seen, res, phase, confirmed, term, ours, good, turn, attempts, plan>>

UserDeletes(o) ==
    /\ "userDelete" \in plan.kinds /\ plan.left > 0
    /\ obj[o] # Absent /\ ~obj[o].del
    /\ obj' = [obj EXCEPT ![o] = Deleting(@)]
    /\ plan' = [plan EXCEPT !.left = @ - 1]
    /\ UNCHANGED <<seen, res, phase, confirmed, term, ours, good, turn, attempts>>

WatchEvent(o) ==
    /\ seen[o] # obj[o]
    /\ seen' = [seen EXCEPT ![o] = obj[o]]
    /\ UNCHANGED <<obj, res, phase, confirmed, term, ours, good, turn, attempts, plan>>

-----------------------------------------------------------------------------
\* What an earlier sync may have left: hooks done or given up, resources applied.
Settled == [health |-> "Healthy", fin |-> FALSE, del |-> FALSE]
GivenUp == [health |-> "Degraded", fin |-> TRUE, del |-> FALSE]

Leftovers(t) ==
    CASE isHook(t)  -> {Absent, Settled, GivenUp}
      [] isPrune(t) -> {Settled}
      [] OTHER      -> {Absent, Settled}

Init ==
    /\ plan \in Plans
    /\ obj \in [Objs -> {Absent, Settled, GivenUp}]
    /\ \A t \in Tasks : obj[Obj(t)] \in Leftovers(t)
    /\ seen = obj
    /\ res = [t \in Tasks |-> NoRes]
    /\ phase = "Running"
    /\ confirmed = FALSE
    /\ term = FALSE
    /\ ours = {} /\ good = {}
    /\ turn = FALSE
    /\ attempts = 1

Sync ==
    \/ SyncInvalid \/ SyncRefused \/ SyncWaits \/ SyncAwaitsDeletion
    \/ SyncUnsuccessful \/ SyncNoMoreTasks \/ SyncWaveRuns \/ SyncWaveFails

Done == Completed(phase) /\ UNCHANGED vars

Cluster == \E o \in Objs : Settle(o) \/ DeletionEnds(o) \/ UserDeletes(o) \/ WatchEvent(o)

Next == Sync \/ Terminate \/ Retry \/ RequestTermination \/ ConfirmPruning \/ Cluster \/ Done

Spec == Init /\ [][Next]_vars

\* The operation queue calls the engine again and again while the operation is
\* running; workloads settle, deletions end, watch events arrive, and someone
\* approves the pruning.  The first is weak fairness of Sync \/ Terminate, which
\* Callable enables and which turn shows.
Callable == phase = "Running" /\ (Fresh => seen = obj)

FairSpec ==
    /\ Spec
    /\ []<>(~Callable) \/ []<><<turn' # turn>>_vars
    /\ WF_vars(ConfirmPruning)
    /\ \A o \in UNION {{p.info[t].obj : t \in DOMAIN p.info} : p \in Plans} :
          /\ WF_vars(o \in Objs /\ Settle(o))
          /\ WF_vars(o \in Objs /\ DeletionEnds(o))
          /\ WF_vars(o \in Objs /\ WatchEvent(o))

-----------------------------------------------------------------------------
(* Properties                                                              *)

\* The round that is being taken runs task t.
Runs(t) ==
    /\ res[t].op = "" /\ res'[t].status \in {"Synced", "Pruned"}
    /\ res'[t].op # ""

\* A phase or wave starts only when every object of the earlier ones has been
\* healthy since this sync applied it, and everything pruned in them is gone
\* (the waiting part of Sync), if the rounds see the objects as they are.  The
\* namespace is created ahead of all waves.
EarlierWavesAreHealthy ==
    [][\A t \in Tasks \ SyncFailTasks : Fresh /\ Runs(t) /\ ~isNamespace(t) =>
          \A places \in {Places}, u \in Current \ (SyncFailTasks \cup InSync) :
              Less(places[u], places[t]) =>
                  IF isPrune(u) THEN u \notin Prune ELSE u \in good]_vars

\* Prunes happen in the reverse of the declared wave order (the symmetric swap
\* of getSyncTasks, made anew each round for the prunes that are left): when an
\* object is pruned, no prunable object of a higher wave is still there.
PrunesAreReversed ==
    [][\A t, u \in Prune :
          Runs(t) /\ Info[u].wave > Info[t].wave /\ Info[u].last = Info[t].last
              /\ ~Info[u].last
          => obj[Obj(u)] = Absent]_vars

\* A sync reported as Succeeded has run everything: every hook that belongs to a
\* success was healthy since it was applied, every resource was applied, or is
\* there and left out as in sync, and nothing is left to prune.  A round that
\* sees outdated objects may take a hook of an earlier sync for its own.
SuccessMeansDone ==
    Fresh /\ phase = "Succeeded" => \A t \in Tasks \ SyncFailTasks :
        CASE isHook(t)  -> t \in good
          [] isPrune(t) -> t \in Prune => obj[Obj(t)] = Absent \/ obj[Obj(t)].del
          [] OTHER      -> res[t].status = "Synced" \/ (t \in InSync /\ obj[Obj(t)] # Absent)

\* The SyncFail hooks run when a sync fails, and are finished before it is
\* reported as Failed (executeSyncFailPhase), unless a user terminated it.  It
\* is stated of syncs that are not refused: their manifests and tasks are valid
\* and they create no namespace.
FailureRunsSyncFail ==
    phase = "Failed" /\ ~term /\ "invalid" \notin plan.kinds => \A t \in SyncFailTasks :
        Completed(res[t].op) /\ res[t].status \in {"Synced", "SyncFailed"}

\* When a sync is reported as Succeeded or Failed, a hook it ran is no longer
\* held by the engine's finalizer, and has ended or is being deleted: nothing
\* of a sync that is over keeps working in the cluster, if its rounds saw the
\* objects as they are.
HooksAreReleased ==
    Fresh /\ phase \in {"Succeeded", "Failed"} => \A t \in Tasks :
        isHook(t) /\ t \in ours =>
            LET x == obj[Obj(t)] IN ~x.fin /\ (x.del \/ x.health # "Progressing")

\* A dry run creates nothing and leaves resources alone: only hooks that it
\* finds in the cluster are released or deleted.
DryRunSparesResources ==
    [][DryRun /\ turn' # turn =>
          \A o \in Objs : obj'[o] # obj[o] =>
              obj[o] # Absent /\ \E t \in Tasks : isHook(t) /\ Obj(t) = o]_vars

\* If the validation of any manifest fails, the sync is refused: nothing is
\* applied or pruned.
InvalidIsRefused ==
    Bad # {} => \A t \in Tasks : res[t].status \notin {"Synced", "Pruned"}

\* A sync ends: the engine never waits for something that will not happen.
SyncEnds == <>[](Completed(phase))
=============================================================================
