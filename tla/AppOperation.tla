---------------------------- MODULE AppOperation ----------------------------
(***************************************************************************)
(* The life of a sync operation of one Application.                        *)
(*                                                                         *)
(* The Application object lives in the Kubernetes API server.  Its field   *)
(* operation asks for a sync, its field status.operationState tells how    *)
(* far the sync has got.  Three parties write the two fields:              *)
(*   - whoever starts a sync: the API server and auto-sync through         *)
(*     SetAppOperation, the ApplicationSet controller directly;            *)
(*   - TerminateOperation of the API server;                               *)
(*   - the one worker of the application controller that holds the key of  *)
(*     the application (the work queue never hands a key to two workers).  *)
(* The worker reads the object once, works on its own copy for as long as  *)
(* the sync takes, and writes the copy back with a JSON merge patch that   *)
(* carries no resource version.  Everything here is about what the other   *)
(* two parties, a lost response or a restart do between its steps.         *)
(***************************************************************************)
EXTENDS Integers

CONSTANTS
    MaxOps,       \* bound: operations ever requested
    Limits,       \* the retry limits operations may carry (-1: no limit)
    MaxRetries,   \* bound: retries of an operation without a limit
    FaultKinds,   \* the faults that happen: a subset of {"get", "lost", "crash"}
    MaxFaults,    \* bound: number of faults
    SyncTimeout,  \* whether the controller runs with a sync timeout
    RollingSync   \* whether an ApplicationSet rolls this application out

ASSUME OperationConstants ==
    /\ MaxOps \in Nat
    /\ Limits \subseteq Int
    /\ MaxRetries \in Nat
    /\ MaxFaults \in Nat
    /\ SyncTimeout \in BOOLEAN
    /\ RollingSync \in BOOLEAN

VARIABLES
    app,       \* the stored object: its operation and its operationState
    requested, \* how many operations were accepted so far
    inf,       \* whether the informer's copy has an operation
    behind,    \* whether watch events are still on their way to the informer
    queued,    \* whether the key is on the operation queue
    pc,        \* where the worker is in processRequestedAppOperation
    wapp,      \* the worker's copy of the object, as read
    wst,       \* the operation state the worker builds
    wdirty,    \* whether the message or the task results in wst are new
    timedOut,  \* whether the sync timeout has passed since startedAt
    retryDue,  \* whether the backoff of the last failure has passed
    faults,    \* how many faults happened
    fails      \* per operation: rounds that failed without being terminated

vars == <<app, requested, inf, behind, queued, pc, wapp, wst, wdirty,
          timedOut, retryDue, faults, fails>>
worker == <<wapp, wst, wdirty>>
clocks == <<timedOut, retryDue>>

-----------------------------------------------------------------------------
(* Operations and operation states                                         *)

CompletedPhases == {"Succeeded", "Failed", "Error"}
Phases == {"Running", "Terminating"} \cup CompletedPhases

OpIds == 1 .. MaxOps
Operations == [id : OpIds, limit : Limits, backoffOK : BOOLEAN]
NoOp == [id |-> 0, limit |-> 0, backoffOK |-> FALSE]

\* A sync result is told apart by the attempt that produced it: the operation
\* and the number of retries before it.
NoResult == <<0, 0>>
Results == {NoResult} \cup (OpIds \X Nat)

States == [op : Operations, phase : Phases, retryCount : Nat,
           finished : BOOLEAN, result : Results]
NoState == [op |-> NoOp, phase |-> "none", retryCount |-> 0,
            finished |-> FALSE, result |-> NoResult]

NewOperationState(o) ==
    [op |-> o, phase |-> "Running", retryCount |-> 0,
     finished |-> FALSE, result |-> NoResult]

Completed(st) == st.phase \in CompletedPhases
InProgress(st) == st # NoState /\ ~Completed(st)

\* SyncAppState starts a result only if the state carries none.
WithResult(st) ==
    IF st.result = NoResult
    THEN [st EXCEPT !.result = <<st.op.id, st.retryCount>>]
    ELSE st

\* Mutation: the operation is cleared as soon as there is a completion time.
MergePatch_ClearsWhenFinished(stored, read, st) ==
    [op |-> IF st.finished THEN NoOp ELSE stored.op, st |-> st]

\* What the stored object becomes when the patch of setOperationState reaches
\* it.  Fields that are empty in st are left out of the patch, so the stored
\* ones survive; finishedAt alone is removed by an explicit null, and only if
\* the copy the worker read had one.
MergePatch(stored, read, st) ==
    [op |-> IF Completed(st) THEN NoOp ELSE stored.op,
     st |-> [op         |-> st.op,
             phase      |-> st.phase,
             retryCount |-> IF st.retryCount = 0 THEN stored.st.retryCount
                                                 ELSE st.retryCount,
             finished   |-> st.finished \/ (stored.st.finished
                                            /\ ~read.st.finished),
             result     |-> IF st.result = NoResult THEN stored.st.result
                                                    ELSE st.result]]

-----------------------------------------------------------------------------
Init ==
    /\ app = [op |-> NoOp, st |-> NoState]
    /\ requested = 0
    /\ inf = FALSE
    /\ behind = FALSE
    /\ queued = FALSE
    /\ pc = "idle"
    /\ wapp = [op |-> NoOp, st |-> NoState]
    /\ wst = NoState
    /\ wdirty = FALSE
    /\ timedOut = FALSE
    /\ retryDue = TRUE
    /\ faults = 0
    /\ fails = [i \in OpIds |-> 0]

(* The API server and the ApplicationSet controller                        *)

\* Mutation: an operation in progress is not noticed.
SetAppOperation_NoGuard(o) ==
    /\ requested < MaxOps
    /\ o.id = requested + 1
    /\ app' = [op |-> o, st |-> NoState]
    /\ requested' = requested + 1
    /\ behind' = TRUE
    /\ UNCHANGED <<inf, queued, pc, worker, clocks, faults, fails>>

\* Mutation: the operation state of the operation before is left in place.
SetAppOperation_KeepsState(o) ==
    /\ requested < MaxOps
    /\ o.id = requested + 1
    /\ app.op = NoOp
    /\ app' = [app EXCEPT !.op = o]
    /\ requested' = requested + 1
    /\ behind' = TRUE
    /\ UNCHANGED <<inf, queued, pc, worker, clocks, faults, fails>>

\* cd.SetAppOperation: read, refuse if there is an operation, update; the
\* update is refused when the object changed in between, and the loop starts
\* over, so it is one step.
SetAppOperation(o) ==
    /\ requested < MaxOps
    /\ o.id = requested + 1
    /\ app.op = NoOp
    /\ app' = [op |-> o, st |-> NoState]
    /\ requested' = requested + 1
    /\ behind' = TRUE
    /\ UNCHANGED <<inf, queued, pc, worker, clocks, faults, fails>>

\* RollingSync writes the operation it wants into the object it found, with a
\* merge patch: the operation state stays, and an operation that was there is
\* replaced.
RollingSyncOperation(o) ==
    /\ RollingSync
    /\ requested < MaxOps
    /\ o.id = requested + 1
    /\ app' = [app EXCEPT !.op = o]
    /\ requested' = requested + 1
    /\ behind' = TRUE
    /\ UNCHANGED <<inf, queued, pc, worker, clocks, faults, fails>>

\* TerminateOperation: update with a resource version, retried on conflict.  An
\* update that changes nothing is none.
TerminateOperation ==
    /\ app.op # NoOp
    /\ app.st # NoState
    /\ app.st.phase # "Terminating"
    /\ app' = [app EXCEPT !.st.phase = "Terminating"]
    /\ behind' = TRUE
    /\ UNCHANGED <<requested, inf, queued, pc, worker, clocks, faults, fails>>

-----------------------------------------------------------------------------
(* The informer of the controller.  Its copy decides only whether the key  *)
(* is worth processing, so the model keeps whether the copy has an         *)
(* operation.  A write-back can be followed by older watch events.         *)

UpdateFunc(hasOp) ==
    /\ inf' = hasOp
    /\ queued' = (queued \/ hasOp)
    /\ UNCHANGED <<app, requested, pc, worker, clocks, faults, fails>>

WatchEvent ==
    /\ behind
    /\ \/ UpdateFunc(app.op # NoOp) /\ behind' = FALSE
       \/ \E old \in BOOLEAN : UpdateFunc(old) /\ UNCHANGED behind

\* The informer hands every object to the handler again now and then.
Resync == UpdateFunc(inf) /\ UNCHANGED behind

-----------------------------------------------------------------------------
(* The worker: processAppOperationQueueItem                                *)

Fault(kind) ==
    /\ kind \in FaultKinds
    /\ faults < MaxFaults
    /\ faults' = faults + 1

Dequeue ==
    /\ pc = "idle"
    /\ queued
    /\ queued' = FALSE
    /\ pc' = IF inf THEN "get" ELSE "idle"
    /\ UNCHANGED <<app, requested, inf, behind, worker, clocks, faults, fails>>

GetFails ==
    /\ pc = "get"
    /\ Fault("get")
    /\ pc' = "idle"
    /\ UNCHANGED <<app, requested, inf, behind, queued, worker, clocks, fails>>

GetNoOperation ==
    /\ pc = "get"
    /\ app.op = NoOp
    /\ pc' = "idle"
    /\ UNCHANGED <<app, requested, inf, behind, queued, worker, clocks,
                   faults, fails>>

(* processRequestedAppOperation, up to SyncAppState: one action per case   *)

Begin(st, next) ==
    /\ pc = "get"
    /\ app.op # NoOp
    /\ wapp' = app
    /\ wst' = st
    /\ wdirty' = FALSE
    /\ pc' = next
    /\ UNCHANGED <<app, requested, inf, behind, queued, retryDue, faults, fails>>

BeginNew ==
    /\ ~InProgress(app.st)
    /\ Begin(NewOperationState(app.op), "patch1")
    /\ timedOut' = FALSE

ResumeTerminating ==
    /\ app.st.phase = "Terminating"
    /\ Begin(app.st, "sync")
    /\ UNCHANGED timedOut

AwaitingRetry(st) == st.phase = "Running" /\ st.finished

\* Mutation: the timeout is enforced between attempts only.
BeginTimeout_BetweenAttempts ==
    /\ AwaitingRetry(app.st)
    /\ timedOut
    /\ Begin([app.st EXCEPT !.phase = "Terminating"], "patch1")
    /\ UNCHANGED timedOut

BeginTimeout ==
    /\ app.st.phase = "Running"
    /\ timedOut
    /\ Begin([app.st EXCEPT !.phase = "Terminating"], "patch1")
    /\ UNCHANGED timedOut

BeginRetry ==
    /\ AwaitingRetry(app.st)
    /\ ~timedOut
    /\ retryDue
    /\ Begin([app.st EXCEPT !.finished = FALSE, !.result = NoResult], "patch1")
    /\ UNCHANGED timedOut

\* The backoff has not passed: put the key back for when it has.  (The branch
\* for a backoff that does not parse is never taken: the same backoff was
\* parsed when the retry was scheduled.)
RetryNotDue ==
    /\ pc = "get"
    /\ app.op # NoOp
    /\ AwaitingRetry(app.st)
    /\ ~timedOut
    /\ ~retryDue
    /\ pc' = "idle"
    /\ queued' = TRUE
    /\ UNCHANGED <<app, requested, inf, behind, worker, clocks, faults, fails>>

ResumeRunning ==
    /\ app.st.phase = "Running"
    /\ ~app.st.finished
    /\ ~timedOut
    /\ Begin(app.st, "sync")
    /\ UNCHANGED timedOut

(* SyncAppState and what the caller makes of the phase it leaves           *)

EndSync(st, next) ==
    /\ pc = "sync"
    /\ wst' = st
    /\ pc' = next
    /\ UNCHANGED <<app, requested, inf, behind, queued, wapp, timedOut, faults>>

\* Tasks are still running, or a sync window or a failed settings lookup made
\* SyncAppState return early; the message or the results may have changed.
SyncStillRunning ==
    /\ wst.phase = "Running"
    /\ EndSync(WithResult(wst), "fresh")
    /\ wdirty' \in BOOLEAN
    /\ UNCHANGED <<retryDue, fails>>

SyncSucceeds ==
    /\ wst.phase = "Running"
    /\ EndSync([WithResult(wst) EXCEPT !.phase = "Succeeded",
                                       !.finished = TRUE], "patch2")
    /\ UNCHANGED <<wdirty, retryDue, fails>>

\* A closed sync window keeps an operation that is terminating as it is.
SyncStillTerminating ==
    /\ wst.phase = "Terminating"
    /\ EndSync(WithResult(wst), "patch2")
    /\ UNCHANGED <<wdirty, retryDue, fails>>

\* Mutation: a termination that fails is tried again like any failed sync.
SyncTerminated_Retried ==
    /\ wst.phase = "Terminating"
    /\ EndSync([WithResult(wst) EXCEPT !.phase = "Running", !.finished = TRUE],
               "patch2")
    /\ UNCHANGED <<wdirty, retryDue, fails>>

\* Terminate always leaves the phase Failed or Error, and so does a project
\* that cannot be loaded; neither is retried.
SyncTerminated ==
    /\ wst.phase = "Terminating"
    /\ \E ph \in {"Failed", "Error"}, st \in {wst, WithResult(wst)} :
          EndSync([st EXCEPT !.phase = ph, !.finished = TRUE], "patch2")
    /\ UNCHANGED <<wdirty, retryDue, fails>>

RetryAllowed(st) == st.retryCount < st.op.limit \/ st.op.limit < 0

\* The round failed.  The result may be missing: a project that cannot be
\* loaded fails the round before there is one.
SyncFails ==
    /\ wst.phase = "Running"
    /\ fails' = [fails EXCEPT ![wst.op.id] = @ + 1]
    /\ \E ph \in {"Failed", "Error"}, st \in {wst, WithResult(wst)} :
       \/ /\ RetryAllowed(st)
          /\ st.op.backoffOK
          /\ st.op.limit < 0 => st.retryCount < MaxRetries
          /\ EndSync([st EXCEPT !.finished = TRUE,
                                !.retryCount = @ + 1], "patch2")
          /\ retryDue' = FALSE
       \/ /\ RetryAllowed(st)
          /\ ~st.op.backoffOK
          /\ EndSync([st EXCEPT !.phase = "Error", !.finished = TRUE], "patch2")
          /\ UNCHANGED retryDue
       \/ /\ ~RetryAllowed(st)
          /\ EndSync([st EXCEPT !.phase = ph, !.finished = TRUE], "patch2")
          /\ UNCHANGED retryDue
    /\ UNCHANGED wdirty

\* A panic is recovered from by completing the operation, retries or not.
SyncPanics ==
    /\ \E st \in {wst, WithResult(wst)} :
          EndSync([st EXCEPT !.phase = "Error", !.finished = TRUE], "patchErr")
    /\ UNCHANGED <<wdirty, retryDue, fails>>

\* "It's possible for an app to be terminated while we were operating on it."
FreshCheck ==
    /\ pc = "fresh"
    /\ pc' = "patch2"
    /\ wst' = IF app.st.phase = "Terminating"
              THEN [wst EXCEPT !.phase = "Terminating"] ELSE wst
    /\ UNCHANGED <<app, requested, inf, behind, queued, wapp, wdirty, clocks,
                   faults, fails>>

FreshCheckFails ==
    /\ pc = "fresh"
    /\ Fault("get")
    /\ pc' = "patch2"
    /\ UNCHANGED <<app, requested, inf, behind, queued, worker, clocks, fails>>

(* setOperationState                                                       *)

\* The worker is at a call of setOperationState whose state differs from the
\* one it read.
PatchDue ==
    /\ pc \in {"patch1", "patch2", "patchErr"}
    /\ pc = "patch2" => (wst # wapp.st \/ wdirty)

\* Deferred: the key goes back on the queue when the function returns.
Return ==
    /\ pc' = IF pc = "patch1" THEN "sync" ELSE "idle"
    /\ queued' = (queued \/ pc # "patch1")

PatchApplied ==
    /\ PatchDue
    /\ app' = MergePatch(app, wapp, wst)
    /\ inf' = (app'.op # NoOp)
    /\ behind' = TRUE
    /\ Return
    /\ UNCHANGED <<requested, worker, clocks, faults, fails>>

\* The patch is applied but its response is lost: RetryUntilSucceed sends it
\* again.
PatchResponseLost ==
    /\ PatchDue
    /\ Fault("lost")
    /\ app' = MergePatch(app, wapp, wst)
    /\ behind' = TRUE
    /\ UNCHANGED <<requested, inf, queued, pc, worker, clocks, fails>>

PatchSkipped ==
    /\ pc = "patch2"
    /\ ~PatchDue
    /\ Return
    /\ UNCHANGED <<app, requested, inf, behind, worker, clocks, faults, fails>>

-----------------------------------------------------------------------------
(* Time, and a restart of the controller: a fresh list fills the informer, *)
(* AddFunc puts the key on the refresh queue only.                         *)

SyncTimeoutElapses ==
    /\ SyncTimeout
    /\ InProgress(app.st)
    /\ ~timedOut
    /\ timedOut' = TRUE
    /\ UNCHANGED <<app, requested, inf, behind, queued, pc, worker, retryDue,
                   faults, fails>>

BackoffElapses ==
    /\ ~retryDue
    /\ retryDue' = TRUE
    /\ UNCHANGED <<app, requested, inf, behind, queued, pc, worker, timedOut,
                   faults, fails>>

Crash ==
    /\ Fault("crash")
    /\ pc' = "idle"
    /\ wapp' = [op |-> NoOp, st |-> NoState]
    /\ wst' = NoState
    /\ wdirty' = FALSE
    /\ inf' = (app.op # NoOp)
    /\ behind' = FALSE
    /\ queued' = FALSE
    /\ UNCHANGED <<app, requested, clocks, fails>>

-----------------------------------------------------------------------------
Request == \E o \in Operations : SetAppOperation(o) \/ RollingSyncOperation(o)

GetAndBegin ==
    \/ GetNoOperation \/ BeginNew \/ ResumeTerminating \/ BeginTimeout
    \/ BeginRetry \/ RetryNotDue \/ ResumeRunning

SyncRound ==
    \/ SyncStillRunning \/ SyncSucceeds \/ SyncStillTerminating
    \/ SyncTerminated \/ SyncFails \/ SyncPanics

Patch == PatchApplied \/ PatchSkipped

Next ==
    \/ Request \/ TerminateOperation
    \/ WatchEvent \/ Resync
    \/ Dequeue \/ GetFails \/ GetAndBegin
    \/ SyncRound \/ FreshCheck \/ FreshCheckFails
    \/ Patch \/ PatchResponseLost
    \/ SyncTimeoutElapses \/ BackoffElapses \/ Crash

Spec == Init /\ [][Next]_vars

-----------------------------------------------------------------------------
(* Safety                                                                  *)

Objects == [op : Operations \cup {NoOp}, st : States \cup {NoState}]

TypeOK ==
    /\ app \in Objects
    /\ requested \in 0 .. MaxOps
    /\ inf \in BOOLEAN /\ behind \in BOOLEAN /\ queued \in BOOLEAN
    /\ pc \in {"idle", "get", "patch1", "sync", "fresh", "patch2", "patchErr"}
    /\ wapp \in Objects
    /\ wst \in States \cup {NoState}
    /\ wdirty \in BOOLEAN
    /\ timedOut \in BOOLEAN /\ retryDue \in BOOLEAN
    /\ faults \in 0 .. MaxFaults
    /\ fails \in [OpIds -> Nat]

\* The operation queue only looks at objects with an operation
\* (shouldProcessOperation), so an operation state that is in progress on an
\* object without one would stay in progress for ever.  Whatever response is
\* lost and wherever the controller is restarted, there is none.
NoOrphanedProgress == app.op = NoOp => ~InProgress(app.st)

\* The state in progress is that of the operation asked for: the worker never
\* records the progress of one operation on an object that asks for another
\* (operations started through SetAppOperation only).
ProgressBelongsToOperation == InProgress(app.st) => app.st.op = app.op

\* retryCount stays within the limit, and counts rounds that really failed: no
\* restart and no repeated patch uses up a retry, or grants one too many.
RetryAccounting ==
    app.st # NoState =>
        /\ app.st.retryCount <= fails[app.st.op.id]
        /\ app.st.op.limit >= 0 => app.st.retryCount <= app.st.op.limit

\* An operation whose round fails is given up only when it failed more often
\* than its retry limit, and never if it has none.
RetryBudgetHonoured ==
    [][ (/\ pc = "sync" /\ pc' = "patch2"
         /\ wst.phase = "Running" /\ wst.op.backoffOK
         /\ wst'.phase \in {"Failed", "Error"})
        => wst.op.limit >= 0 /\ fails'[wst.op.id] > wst.op.limit ]_vars

\* The outcome of a completed operation stays on record until the next
\* operation is accepted.
OutcomeIsFinal ==
    [][ Completed(app.st) /\ app'.st # app.st => requested' > requested ]_vars

\* A stored Terminating phase goes back to Running only at the hands of a round
\* that began before the termination: a worker that has seen the termination
\* ends the operation or leaves it terminating.
SeenTerminationIsKept ==
    [][ app.st.phase = "Terminating" /\ app'.st.phase = "Running"
        => wapp.st.phase # "Terminating" ]_vars

\* Operations are accepted one at a time, and each is completed once, under its
\* own name, whatever reads fail and wherever the controller is restarted.
Slot == INSTANCE OperationSlot WITH
    current <- app.op,
    outcome <- IF Completed(app.st) THEN <<app.st.op, app.st.phase>>
                                    ELSE <<NoOp, "none">>,
    NoOutcome <- <<NoOp, "none">>

ImplementsSlot == Slot!SlotSpec

-----------------------------------------------------------------------------
(* Liveness.  The worker loop, the informer and the clocks never stop.  A  *)
(* sync may stay in progress for as long as it likes, but an operation     *)
(* that is terminating does not find the sync window closed every time.    *)

Fairness ==
    /\ WF_vars(behind /\ UpdateFunc(app.op # NoOp) /\ behind' = FALSE)
    /\ WF_vars(Resync) /\ WF_vars(Dequeue) /\ WF_vars(GetAndBegin)
    /\ WF_vars(SyncRound) /\ WF_vars(FreshCheck) /\ WF_vars(Patch)
    /\ WF_vars(SyncTimeoutElapses) /\ WF_vars(BackoffElapses)
    /\ SF_vars(SyncTerminated)

FairSpec == Spec /\ Fairness

\* With a sync timeout every operation accepted is completed, even if a
\* termination is overwritten, the sync never ends or the controller restarts.
OperationCompletes == \A i \in OpIds : (app.op.id = i) ~> (app.op.id # i)

=============================================================================
