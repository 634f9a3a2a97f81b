------------------------- MODULE AppOperationProofs -------------------------
(***************************************************************************)
(* Theorems about AppOperation, for any number of operations, any set of   *)
(* retry limits and any number of faults.                                  *)
(***************************************************************************)
EXTENDS AppOperation, TLAPS

-----------------------------------------------------------------------------
(* Typing.  Past the read of the object the worker holds a proper state.   *)

WorkerTyped == pc \notin {"idle", "get"} => wst \in States

TypeInv == TypeOK /\ WorkerTyped

LEMMA NoOpIsNone == NoOp \notin Operations
BY OperationConstants DEF NoOp, Operations, OpIds

LEMMA NoStateIsNone == NoState \notin States
BY DEF NoState, States, Phases, CompletedPhases

\* The state SyncAppState leaves has a result.
LEMMA WithResultTyped ==
    ASSUME NEW st \in States
    PROVE  /\ WithResult(st) \in States
           /\ WithResult(st).op = st.op
           /\ WithResult(st).phase = st.phase
           /\ WithResult(st).retryCount = st.retryCount
           /\ WithResult(st).finished = st.finished
BY DEF WithResult, States, Results, Operations, NoResult

\* A patch turns an object into an object.
LEMMA MergePatchTyped ==
    ASSUME NEW stored \in Objects, NEW read \in Objects, NEW st \in States
    PROVE  MergePatch(stored, read, st) \in [op : Operations \cup {NoOp}, st : States]
BY DEF MergePatch, Objects, States, NoState, NoResult, Results

LEMMA StartTyped ==
    ASSUME NEW o \in Operations
    PROVE  NewOperationState(o) \in States
BY DEF NewOperationState, States, Phases, CompletedPhases, Results

LEMMA InitTyped == Init => TypeInv
<1> SUFFICES ASSUME Init PROVE TypeInv
  OBVIOUS
<1>1. /\ inf \in BOOLEAN /\ behind \in BOOLEAN /\ queued \in BOOLEAN
      /\ wdirty \in BOOLEAN /\ timedOut \in BOOLEAN /\ retryDue \in BOOLEAN
  BY ZenonT(60) DEF Init
<1>2. requested \in 0 .. MaxOps /\ faults \in 0 .. MaxFaults
  BY OperationConstants DEF Init
<1>3. app \in Objects /\ wapp \in Objects /\ wst \in States \cup {NoState}
  BY DEF Init, Objects
<1>4. fails \in [OpIds -> Nat]
  BY DEF Init
<1>5. pc = "idle"
  BY DEF Init
<1> QED
  BY <1>1, <1>2, <1>3, <1>4, <1>5 DEF TypeInv, TypeOK, WorkerTyped

\* The flags, set apart because the provers treat truth values separately.
Flags ==
    /\ inf \in BOOLEAN /\ behind \in BOOLEAN /\ queued \in BOOLEAN
    /\ wdirty \in BOOLEAN /\ timedOut \in BOOLEAN /\ retryDue \in BOOLEAN

LEMMA FlagsStep == Flags /\ [Next]_vars => Flags'
<1> SUFFICES ASSUME Flags, [Next]_vars PROVE Flags'
  OBVIOUS
<1> USE DEF Flags
<1>1. CASE Request
  BY <1>1, ZenonT(60) DEF Request, SetAppOperation, RollingSyncOperation, worker, clocks
<1>2. CASE TerminateOperation
  BY <1>2, ZenonT(60) DEF TerminateOperation, worker, clocks
<1>3. CASE WatchEvent \/ Resync
  BY <1>3, ZenonT(60) DEF WatchEvent, Resync, UpdateFunc, worker, clocks
<1>4. CASE Dequeue \/ GetFails
  BY <1>4, ZenonT(60) DEF Dequeue, GetFails, worker, clocks
<1>5. CASE GetAndBegin
  BY <1>5, ZenonT(60) DEF GetAndBegin, GetNoOperation, BeginNew, ResumeTerminating,
     BeginTimeout, BeginRetry, RetryNotDue, ResumeRunning, Begin, worker, clocks
<1>6. CASE SyncRound
  <2>1. CASE SyncStillRunning \/ SyncPanics
    BY <2>1, ZenonT(60) DEF SyncStillRunning, SyncPanics, EndSync
  <2>2. CASE SyncSucceeds \/ SyncStillTerminating
    BY <2>2, ZenonT(60) DEF SyncSucceeds, SyncStillTerminating, EndSync
  <2>3. CASE SyncTerminated
    BY <2>3, ZenonT(60) DEF SyncTerminated, EndSync
  <2>4. CASE SyncFails
    BY <2>4, ZenonT(60) DEF SyncFails, EndSync
  <2> QED
    BY <1>6, <2>1, <2>2, <2>3, <2>4, ZenonT(60) DEF SyncRound
<1>7. CASE FreshCheck \/ FreshCheckFails
  BY <1>7, ZenonT(60) DEF FreshCheck, FreshCheckFails, worker, clocks
<1>8. CASE Patch \/ PatchResponseLost
  BY <1>8, ZenonT(60) DEF Patch, PatchApplied, PatchSkipped, PatchResponseLost,
     Return, worker, clocks
<1>9. CASE SyncTimeoutElapses \/ BackoffElapses
  BY <1>9, ZenonT(60) DEF SyncTimeoutElapses, BackoffElapses, worker
<1>10. CASE Crash
  BY <1>10, ZenonT(60) DEF Crash, clocks
<1>11. CASE UNCHANGED vars
  BY <1>11, ZenonT(60) DEF vars
<1> QED
  BY <1>1, <1>2, <1>3, <1>4, <1>5, <1>6, <1>7, <1>8, <1>9, <1>10, <1>11 DEF Next

Pcs == {"idle", "get", "patch1", "sync", "fresh", "patch2", "patchErr"}

\* Everything else TypeInv says.
Data ==
    /\ app \in Objects /\ wapp \in Objects
    /\ wst \in States \cup {NoState}
    /\ requested \in 0 .. MaxOps /\ faults \in 0 .. MaxFaults
    /\ pc \in Pcs
    /\ fails \in [OpIds -> Nat]
    /\ WorkerTyped

LEMMA TypeInvIsFlagsAndData ==
    /\ TypeInv <=> Flags /\ Data
    /\ TypeInv' <=> Flags' /\ Data'
BY DEF TypeInv, TypeOK, Flags, Data, Pcs

LEMMA DataStep == Data /\ [Next]_vars => Data'
<1> SUFFICES ASSUME Data, [Next]_vars PROVE Data'
  OBVIOUS
<1> USE OperationConstants DEF Data, WorkerTyped
<1>1. CASE Request
  BY <1>1 DEF Request, SetAppOperation, RollingSyncOperation, worker, Objects
<1>2. CASE TerminateOperation
  BY <1>2 DEF TerminateOperation, worker, Objects, States, Phases
<1>3. CASE WatchEvent \/ Resync
  BY <1>3 DEF WatchEvent, Resync, UpdateFunc, worker
<1>4. CASE Dequeue \/ GetFails
  BY <1>4 DEF Dequeue, GetFails, Fault, worker, Pcs
<1>5. CASE GetAndBegin
  <2>1. CASE GetNoOperation \/ RetryNotDue
    BY <1>5, <2>1 DEF GetNoOperation, RetryNotDue, worker, Pcs
  <2>2. ASSUME NEW st \in States, NEW next \in Pcs, Begin(st, next) PROVE Data'
    BY <2>2 DEF Begin
  <2>3. CASE BeginNew
    <3>1. NewOperationState(app.op) \in States
      BY <2>3, StartTyped DEF BeginNew, Begin, Objects
    <3> QED
      BY <2>2, <2>3, <3>1 DEF BeginNew, Pcs
  <2>4. app.st.phase \in {"Running", "Terminating"} => app.st \in States
    BY DEF Objects, NoState
  <2>5. CASE ResumeTerminating \/ ResumeRunning
    BY <2>2, <2>4, <2>5 DEF ResumeTerminating, ResumeRunning, Pcs
  <2>6. CASE BeginTimeout
    <3>1. [app.st EXCEPT !.phase = "Terminating"] \in States
      BY <2>4, <2>6 DEF BeginTimeout, States, Phases
    <3> QED
      BY <2>2, <2>6, <3>1 DEF BeginTimeout, Pcs
  <2>7. CASE BeginRetry
    <3>1. [app.st EXCEPT !.finished = FALSE, !.result = NoResult] \in States
      BY <2>4, <2>7, ZenonT(60) DEF BeginRetry, AwaitingRetry, States, Results
    <3> QED
      BY <2>2, <2>7, <3>1 DEF BeginRetry, Pcs
  <2> QED
    BY <1>5, <2>1, <2>3, <2>5, <2>6, <2>7 DEF GetAndBegin
<1>6. CASE SyncRound
  <2>1. pc = "sync" /\ wst \in States
    BY <1>6 DEF SyncRound, SyncStillRunning, SyncSucceeds, SyncStillTerminating,
       SyncTerminated, SyncFails, SyncPanics, EndSync
  <2>2. ASSUME NEW st \in States, NEW next \in Pcs, EndSync(st, next),
               fails' \in [OpIds -> Nat]
        PROVE  Data'
    BY <2>2 DEF EndSync
  <2>3. \A st \in States, ph \in Phases :
           [st EXCEPT !.phase = ph, !.finished = TRUE] \in States
    BY ZenonT(60) DEF States
  <2>4. WithResult(wst) \in States
    BY <2>1, WithResultTyped
  <2>5. CASE SyncStillRunning \/ SyncStillTerminating
    BY <2>2, <2>4, <2>5 DEF SyncStillRunning, SyncStillTerminating, Pcs
  <2>6. CASE SyncSucceeds
    BY <2>2, <2>3, <2>4, <2>6, ZenonT(60) DEF SyncSucceeds, Pcs, Phases, CompletedPhases
  <2>7. CASE SyncTerminated
    BY <2>1, <2>2, <2>3, <2>4, <2>7, ZenonT(60) DEF SyncTerminated, Pcs, Phases, CompletedPhases
  <2>8. CASE SyncPanics
    BY <2>1, <2>2, <2>3, <2>4, <2>8, ZenonT(60) DEF SyncPanics, Pcs, Phases, CompletedPhases
  <2>9. CASE SyncFails
    <3>1. fails' \in [OpIds -> Nat]
      BY <2>1, <2>9 DEF SyncFails, States, Operations
    <3>2. ASSUME NEW st \in States
          PROVE  [st EXCEPT !.finished = TRUE, !.retryCount = @ + 1] \in States
      <4>1. st.retryCount + 1 \in Nat
        BY DEF States
      <4> QED
        BY <4>1, ZenonT(60) DEF States
    <3> QED
      BY <2>1, <2>2, <2>3, <2>4, <2>9, <3>1, <3>2, ZenonT(60)
         DEF SyncFails, Pcs, Phases, CompletedPhases
  <2> QED
    BY <1>6, <2>5, <2>6, <2>7, <2>8, <2>9 DEF SyncRound
<1>7. CASE FreshCheck \/ FreshCheckFails
  <2>1. [wst EXCEPT !.phase = "Terminating"] \in States
    BY <1>7 DEF FreshCheck, FreshCheckFails, States, Phases
  <2> QED
    BY <1>7, <2>1 DEF FreshCheck, FreshCheckFails, Fault, worker, Pcs
<1>8. CASE Patch \/ PatchResponseLost
  <2>1. PatchDue => MergePatch(app, wapp, wst) \in Objects
    BY MergePatchTyped DEF PatchDue, Objects
  <2> QED
    BY <1>8, <2>1 DEF Patch, PatchApplied, PatchSkipped, PatchResponseLost,
       PatchDue, Return, Fault, worker, Pcs
<1>9. CASE SyncTimeoutElapses \/ BackoffElapses
  BY <1>9 DEF SyncTimeoutElapses, BackoffElapses, worker
<1>10. CASE Crash
  BY <1>10 DEF Crash, Fault, Objects, Pcs
<1>11. CASE UNCHANGED vars
  BY <1>11 DEF vars
<1> QED
  BY <1>1, <1>2, <1>3, <1>4, <1>5, <1>6, <1>7, <1>8, <1>9, <1>10, <1>11 DEF Next

\* Type correctness, with the worker's state proper whenever it works on one.
THEOREM TypeCorrect == Spec => []TypeInv
<1>1. Init => TypeInv
  BY InitTyped
<1>2. TypeInv /\ [Next]_vars => TypeInv'
  BY FlagsStep, DataStep, TypeInvIsFlagsAndData
<1> QED
  BY <1>1, <1>2, PTL DEF Spec

-----------------------------------------------------------------------------
(* No progress without an operation.  The invariant is not inductive by    *)
(* itself: it needs that the operation is still there whenever the worker  *)
(* is about to store a state that is not completed.                        *)

Working == pc \notin {"idle", "get"}

\* The worker holds a state that it has not completed.
Busy == Working /\ ~Completed(wst)

WorkerPhases ==
    /\ pc \in {"patch1", "sync"} => wst.phase \in {"Running", "Terminating"}
    /\ pc = "fresh" => wst.phase = "Running"
    /\ pc = "patchErr" => Completed(wst)

OrphanInv ==
    /\ NoOrphanedProgress
    /\ WorkerPhases
    /\ Busy => app.op # NoOp

\* How one round changes the worker's state: the operation it works for and
\* the retries it had stay, and the phases follow the table of SyncAppState.
LEMMA RoundEffect ==
    ASSUME TypeInv, WorkerPhases, SyncRound
    PROVE  /\ pc = "sync" /\ wst \in States
           /\ app' = app /\ wapp' = wapp
           /\ wst'.op = wst.op
           /\ pc' \in {"fresh", "patch2", "patchErr"}
           /\ pc' = "fresh" => wst'.phase = "Running"
           /\ pc' = "patchErr" => Completed(wst')
           /\ wst.phase = "Terminating" => wst'.phase # "Running"
           /\ wst'.retryCount = wst.retryCount
              \/ /\ RetryAllowed(wst)
                 /\ wst'.retryCount = wst.retryCount + 1
                 /\ fails' = [fails EXCEPT ![wst.op.id] = @ + 1]
           /\ fails' = fails \/ fails' = [fails EXCEPT ![wst.op.id] = @ + 1]
<1>1. pc = "sync" /\ wst \in States
  BY DEF SyncRound, SyncStillRunning, SyncSucceeds, SyncStillTerminating,
     SyncTerminated, SyncFails, SyncPanics, EndSync, TypeInv, WorkerTyped
<1> DEFINE r == WithResult(wst)
<1>2. /\ r \in States /\ r.op = wst.op /\ r.phase = wst.phase
      /\ r.retryCount = wst.retryCount
  BY <1>1, WithResultTyped
<1>3. \A st \in States, ph \in Phases :
         LET e == [st EXCEPT !.phase = ph, !.finished = TRUE]
         IN  e.op = st.op /\ e.phase = ph /\ e.retryCount = st.retryCount
  BY DEF States
<1>4. \A st \in States :
         LET e == [st EXCEPT !.finished = TRUE, !.retryCount = @ + 1]
         IN  e.op = st.op /\ e.phase = st.phase
             /\ e.retryCount = st.retryCount + 1
  BY DEF States
<1> HIDE DEF r
<1> USE DEF EndSync, Phases, CompletedPhases
<1>5. CASE SyncStillRunning
  BY <1>1, <1>2, <1>5 DEF SyncStillRunning, r
<1>6. CASE SyncSucceeds
  BY <1>1, <1>2, <1>3, <1>6 DEF SyncSucceeds, r
<1>7. CASE SyncStillTerminating
  BY <1>1, <1>2, <1>7 DEF SyncStillTerminating, r
<1>8. CASE SyncTerminated
  BY <1>1, <1>2, <1>3, <1>8 DEF SyncTerminated, r
<1>9. CASE SyncFails
  <2>1. /\ wst.phase = "Running"
        /\ fails' = [fails EXCEPT ![wst.op.id] = @ + 1]
    BY <1>9 DEF SyncFails
  <2>2. PICK ph \in {"Failed", "Error"}, st \in {wst, r} :
           \/ /\ RetryAllowed(st)
              /\ EndSync([st EXCEPT !.finished = TRUE, !.retryCount = @ + 1],
                         "patch2")
           \/ EndSync([st EXCEPT !.phase = "Error", !.finished = TRUE], "patch2")
           \/ EndSync([st EXCEPT !.phase = ph, !.finished = TRUE], "patch2")
    BY <1>9, ZenonT(60) DEF SyncFails, r
  <2>3. /\ st \in States /\ st.op = wst.op /\ st.phase = wst.phase
        /\ st.retryCount = wst.retryCount
    BY <1>1, <1>2
  <2>4. RetryAllowed(st) <=> RetryAllowed(wst)
    BY <2>3 DEF RetryAllowed
  <2>5. CASE /\ RetryAllowed(st)
             /\ EndSync([st EXCEPT !.finished = TRUE, !.retryCount = @ + 1],
                        "patch2")
    <3> DEFINE e == [st EXCEPT !.finished = TRUE, !.retryCount = @ + 1]
    <3>1. e.op = wst.op /\ e.phase = "Running"
          /\ e.retryCount = wst.retryCount + 1
      BY <1>4, <2>1, <2>3
    <3>2. wst' = e /\ pc' = "patch2" /\ app' = app /\ wapp' = wapp
      BY <2>5
    <3> HIDE DEF e
    <3> QED
      BY <1>1, <2>1, <2>4, <2>5, <3>1, <3>2, ZenonT(60)
  <2>6. ASSUME NEW q \in {"Failed", "Error"},
               EndSync([st EXCEPT !.phase = q, !.finished = TRUE], "patch2")
        PROVE  /\ app' = app /\ wapp' = wapp /\ wst'.op = wst.op
               /\ pc' = "patch2" /\ wst'.phase = q
               /\ wst'.retryCount = wst.retryCount
    BY <1>3, <2>3, <2>6
  <2> QED
    BY <1>1, <2>1, <2>2, <2>5, <2>6, ZenonT(60)
<1>10. CASE SyncPanics
  BY <1>1, <1>2, <1>3, <1>10 DEF SyncPanics, Completed, r
<1> QED
  BY <1>5, <1>6, <1>7, <1>8, <1>9, <1>10 DEF SyncRound

\* How a round begins: with a new state if there is none in progress, else
\* with the stored one, whose termination and retry count it takes over.
LEMMA BeginEffect ==
    ASSUME TypeInv, GetAndBegin
    PROVE  /\ pc = "get" /\ app' = app /\ fails' = fails
           /\ \/ pc' = "idle" /\ wst' = wst /\ wapp' = wapp
              \/ /\ pc' \in {"patch1", "sync"}
                 /\ app.op \in Operations
                 /\ wapp' = app
                 /\ \/ /\ ~InProgress(app.st)
                       /\ wst' = NewOperationState(app.op)
                    \/ /\ InProgress(app.st)
                       /\ wst'.op = app.st.op
                       /\ wst'.retryCount = app.st.retryCount
                       /\ wst'.phase \in {"Running", "Terminating"}
                       /\ app.st.phase = "Terminating"
                          => wst'.phase = "Terminating"
<1>1. CASE GetNoOperation \/ RetryNotDue
  BY <1>1 DEF GetNoOperation, RetryNotDue, worker
<1>2. app \in Objects
  BY DEF TypeInv, TypeOK
<1>3. app.op # NoOp => app.op \in Operations
  BY <1>2 DEF Objects
<1>4. CASE BeginNew
  BY <1>3, <1>4 DEF BeginNew, Begin
<1>5. app.st.phase \in {"Running", "Terminating"} =>
         app.st \in States /\ InProgress(app.st)
  BY <1>2, NoStateIsNone DEF Objects, NoState, InProgress, Completed, CompletedPhases
<1>6. CASE ResumeTerminating \/ ResumeRunning
  BY <1>3, <1>5, <1>6 DEF ResumeTerminating, ResumeRunning, Begin
<1>7. CASE BeginTimeout
  <2>1. LET e == [app.st EXCEPT !.phase = "Terminating"]
        IN  e.op = app.st.op /\ e.retryCount = app.st.retryCount
            /\ e.phase = "Terminating"
    BY <1>5, <1>7 DEF BeginTimeout, States
  <2> QED
    BY <1>3, <1>5, <1>7, <2>1 DEF BeginTimeout, Begin
<1>8. CASE BeginRetry
  <2>1. LET e == [app.st EXCEPT !.finished = FALSE, !.result = NoResult]
        IN  e.op = app.st.op /\ e.retryCount = app.st.retryCount
            /\ e.phase = "Running"
    BY <1>5, <1>8 DEF BeginRetry, AwaitingRetry, States
  <2> QED
    BY <1>3, <1>5, <1>8, <2>1 DEF BeginRetry, AwaitingRetry, Begin
<1> QED
  BY <1>1, <1>4, <1>6, <1>7, <1>8 DEF GetAndBegin

\* What a patch that reaches the object leaves there.
LEMMA PatchEffect ==
    ASSUME TypeInv, PatchApplied \/ PatchResponseLost
    PROVE  /\ pc \in {"patch1", "patch2", "patchErr"} /\ wst \in States
           /\ wst' = wst /\ wapp' = wapp /\ fails' = fails
           /\ pc' \in {pc, IF pc = "patch1" THEN "sync" ELSE "idle"}
           /\ app'.op = IF Completed(wst) THEN NoOp ELSE app.op
           /\ app'.st \in States
           /\ app'.st.op = wst.op
           /\ app'.st.phase = wst.phase
           /\ app'.st.retryCount = IF wst.retryCount = 0
                                   THEN app.st.retryCount ELSE wst.retryCount
<1>1. /\ pc \in {"patch1", "patch2", "patchErr"} /\ wst \in States
      /\ wst' = wst /\ wapp' = wapp /\ fails' = fails
      /\ pc' \in {pc, IF pc = "patch1" THEN "sync" ELSE "idle"}
      /\ app' = MergePatch(app, wapp, wst)
  BY DEF PatchApplied, PatchResponseLost, PatchDue, Return, worker, TypeInv, WorkerTyped
<1>2. app'.st \in States
  BY <1>1, MergePatchTyped DEF TypeInv, TypeOK
<1> QED
  BY <1>1, <1>2 DEF MergePatch

\* The steps that leave the object and the worker's state alone.
LEMMA QuietEffect ==
    ASSUME TypeInv,
           \/ WatchEvent \/ Resync \/ Dequeue \/ GetFails \/ FreshCheckFails
           \/ PatchSkipped \/ SyncTimeoutElapses \/ BackoffElapses
           \/ UNCHANGED vars
    PROVE  /\ app' = app /\ wst' = wst /\ wapp' = wapp /\ fails' = fails
           /\ \/ pc' \in {pc, "idle", "get"}
              \/ (pc = "fresh" /\ pc' = "patch2")
<1>1. CASE WatchEvent \/ Resync
  BY <1>1, ZenonT(60) DEF WatchEvent, Resync, UpdateFunc, worker
<1>2. CASE Dequeue \/ GetFails \/ FreshCheckFails
  BY <1>2 DEF Dequeue, GetFails, FreshCheckFails, worker
<1>3. CASE PatchSkipped
  BY <1>3 DEF PatchSkipped, Return, worker
<1>4. CASE SyncTimeoutElapses \/ BackoffElapses \/ UNCHANGED vars
  BY <1>4, ZenonT(60) DEF SyncTimeoutElapses, BackoffElapses, worker, vars
<1> QED
  BY <1>1, <1>2, <1>3, <1>4

LEMMA OrphanStep == TypeInv /\ OrphanInv /\ [Next]_vars => OrphanInv'
<1> SUFFICES ASSUME TypeInv, OrphanInv, [Next]_vars PROVE OrphanInv'
  OBVIOUS
<1> USE DEF OrphanInv, NoOrphanedProgress, WorkerPhases, Busy, Working
<1>1. CASE Request
  <2>1. app \in Objects
    BY DEF TypeInv, TypeOK
  <2>2. app'.op # NoOp /\ UNCHANGED <<pc, wst>>
    BY <1>1, <2>1, NoOpIsNone
       DEF Request, SetAppOperation, RollingSyncOperation, worker, Objects
  <2> QED
    BY <2>2 DEF Completed
<1>2. CASE TerminateOperation
  <2>1. app'.op = app.op /\ app.op # NoOp /\ UNCHANGED <<pc, wst>>
    BY <1>2 DEF TerminateOperation, worker
  <2> QED
    BY <2>1 DEF Completed
<1>3. CASE \/ WatchEvent \/ Resync \/ Dequeue \/ GetFails \/ FreshCheckFails
           \/ PatchSkipped \/ SyncTimeoutElapses \/ BackoffElapses
           \/ UNCHANGED vars
  BY <1>3, QuietEffect DEF InProgress, Completed
<1>4. CASE GetAndBegin
  BY <1>4, BeginEffect, NoOpIsNone DEF InProgress, Completed, CompletedPhases,
     NewOperationState
<1>5. CASE SyncRound
  BY <1>5, RoundEffect DEF InProgress, Completed, CompletedPhases
<1>6. CASE FreshCheck
  <2>1. /\ app' = app /\ pc' = "patch2" /\ pc = "fresh"
    BY <1>6 DEF FreshCheck
  <2>2. app.op # NoOp
    BY <2>1 DEF Completed, CompletedPhases
  <2> QED
    BY <2>1, <2>2 DEF InProgress, Completed
<1>7. CASE PatchApplied \/ PatchResponseLost
  BY <1>7, PatchEffect DEF InProgress, Completed, CompletedPhases
<1>8. CASE Crash
  BY <1>8 DEF Crash, InProgress, Completed
<1> QED
  BY <1>1, <1>2, <1>3, <1>4, <1>5, <1>6, <1>7, <1>8 DEF Next, Patch

LEMMA Orphans == Spec => []OrphanInv
<1>1. Init => OrphanInv
  BY DEF Init, OrphanInv, NoOrphanedProgress, WorkerPhases, Busy, Working,
     InProgress, NoState, Completed, CompletedPhases
<1> QED
  BY <1>1, TypeCorrect, OrphanStep, PTL DEF Spec

\* An operation state in progress always has an operation, so the operation
\* queue keeps coming back to it: with any faults, and whoever starts operations.
THEOREM ProgressIsNeverOrphaned == Spec => []NoOrphanedProgress
<1>1. OrphanInv => NoOrphanedProgress
  BY DEF OrphanInv
<1> QED
  BY <1>1, Orphans, PTL

-----------------------------------------------------------------------------
(* A termination the worker has read is kept.                              *)

SeenInv == Working /\ wapp.st.phase = "Terminating" => wst.phase # "Running"

LEMMA SeenStep ==
    TypeInv /\ OrphanInv /\ SeenInv /\ [Next]_vars
        => /\ SeenInv'
           /\ app.st.phase = "Terminating" /\ app'.st.phase = "Running"
              => wapp.st.phase # "Terminating"
<1> SUFFICES ASSUME TypeInv, OrphanInv, SeenInv, [Next]_vars
             PROVE  /\ SeenInv'
                    /\ app.st.phase = "Terminating" /\ app'.st.phase = "Running"
                       => wapp.st.phase # "Terminating"
  OBVIOUS
<1> USE DEF SeenInv, Working
<1>1. app \in Objects /\ WorkerPhases
  BY DEF TypeInv, TypeOK, OrphanInv
<1>2. CASE Request
  BY <1>1, <1>2 DEF Request, SetAppOperation, RollingSyncOperation, worker,
     Objects, NoState
<1>3. CASE TerminateOperation
  <2>1. app'.st.phase = "Terminating" /\ UNCHANGED <<pc, wst, wapp>>
    BY <1>1, <1>3 DEF TerminateOperation, worker, Objects, States, NoState
  <2> QED
    BY <2>1
<1>4. CASE \/ WatchEvent \/ Resync \/ Dequeue \/ GetFails \/ FreshCheckFails
           \/ PatchSkipped \/ SyncTimeoutElapses \/ BackoffElapses
           \/ UNCHANGED vars
  BY <1>4, QuietEffect
<1>5. CASE GetAndBegin
  BY <1>1, <1>5, BeginEffect, NoStateIsNone
     DEF InProgress, Completed, CompletedPhases, Objects, NoState
<1>6. CASE SyncRound
  BY <1>1, <1>6, RoundEffect DEF WorkerPhases
<1>7. CASE FreshCheck
  <2>1. /\ app' = app /\ wapp' = wapp /\ pc = "fresh" /\ wst \in States
        /\ wst'.phase \in {wst.phase, "Terminating"}
    BY <1>7 DEF FreshCheck, TypeInv, WorkerTyped, States
  <2> QED
    BY <2>1
<1>8. CASE PatchApplied \/ PatchResponseLost
  BY <1>8, PatchEffect
<1>9. CASE Crash
  BY <1>9 DEF Crash
<1> QED
  BY <1>2, <1>3, <1>4, <1>5, <1>6, <1>7, <1>8, <1>9 DEF Next, Patch

\* A worker that has read a termination never turns it back into Running, also
\* if an ApplicationSet writes operations, responses are lost or reads fail.
THEOREM SeenTerminationStays == Spec => SeenTerminationIsKept
<1>1. Init => SeenInv
  BY DEF Init, SeenInv, Working
<1>2. /\ TypeInv /\ OrphanInv /\ SeenInv /\ [Next]_vars => SeenInv'
      /\ TypeInv /\ OrphanInv /\ SeenInv /\ [Next]_vars
         => [ app.st.phase = "Terminating" /\ app'.st.phase = "Running"
              => wapp.st.phase # "Terminating" ]_vars
  BY SeenStep
<1> QED
  BY <1>1, <1>2, TypeCorrect, Orphans, PTL DEF Spec, SeenTerminationIsKept

-----------------------------------------------------------------------------
(* From here on no ApplicationSet writes operations into the object.  The  *)
(* state in progress then is that of the operation asked for: an accepted  *)
(* operation finds no state of another, and the operation stays until the  *)
(* worker that took it completes it.                                       *)

OwnInv ==
    /\ ProgressBelongsToOperation
    /\ app.op # NoOp => ~Completed(app.st)
    /\ Busy => wst.op = app.op
    /\ Working => app.st = NoState \/ app.st.op = wst.op

LEMMA OwnStep ==
    ASSUME ~RollingSync, TypeInv, OrphanInv, OwnInv, [Next]_vars
    PROVE  OwnInv'
<1> USE DEF OwnInv, ProgressBelongsToOperation, Busy, Working
<1>1. app \in Objects /\ WorkerPhases /\ (Busy => app.op # NoOp)
  BY DEF TypeInv, TypeOK, OrphanInv
<1>2. CASE Request
  <2>1. /\ app.op = NoOp /\ app'.st = NoState
        /\ UNCHANGED <<pc, wst>>
    BY <1>2 DEF Request, SetAppOperation, RollingSyncOperation, worker
  <2>2. ~InProgress(NoState) /\ ~Completed(NoState)
    BY DEF InProgress, Completed, NoState, CompletedPhases
  <2> QED
    BY <1>1, <2>1, <2>2 DEF Completed, InProgress
<1>3. CASE TerminateOperation
  <2>1. /\ app.op # NoOp /\ app.st # NoState /\ app'.op = app.op
        /\ app'.st.phase = "Terminating" /\ app'.st.op = app.st.op
        /\ UNCHANGED <<pc, wst>>
    BY <1>1, <1>3 DEF TerminateOperation, worker, Objects, States, NoState
  <2> QED
    BY <1>1, <2>1 DEF Completed, InProgress, CompletedPhases
<1>4. CASE \/ WatchEvent \/ Resync \/ Dequeue \/ GetFails \/ FreshCheckFails
           \/ PatchSkipped \/ SyncTimeoutElapses \/ BackoffElapses
           \/ UNCHANGED vars
  BY <1>4, QuietEffect DEF InProgress, Completed
<1>5. CASE GetAndBegin
  <2>1. NewOperationState(app.op).op = app.op
    BY DEF NewOperationState
  <2>2. app.op \in Operations /\ ~InProgress(app.st) => app.st = NoState
    BY NoOpIsNone DEF InProgress
  <2> QED
    BY <1>5, <2>1, <2>2, BeginEffect DEF InProgress, Completed
<1>6. CASE SyncRound
  BY <1>1, <1>6, RoundEffect DEF InProgress, Completed, WorkerPhases, CompletedPhases
<1>7. CASE FreshCheck
  <2>1. /\ app' = app /\ pc = "fresh" /\ wst.phase = "Running"
        /\ wst'.op = wst.op
    BY <1>1, <1>7 DEF FreshCheck, TypeInv, WorkerTyped, States, WorkerPhases
  <2> QED
    BY <2>1 DEF InProgress, Completed, CompletedPhases
<1>8. CASE PatchApplied \/ PatchResponseLost
  BY <1>1, <1>8, PatchEffect DEF InProgress, Completed
<1>9. CASE Crash
  BY <1>9 DEF Crash, InProgress, Completed
<1> QED
  BY <1>2, <1>3, <1>4, <1>5, <1>6, <1>7, <1>8, <1>9 DEF Next, Patch

LEMMA Ownership == ~RollingSync => (Spec => []OwnInv)
<1> SUFFICES ASSUME ~RollingSync PROVE Spec => []OwnInv
  OBVIOUS
<1>1. Init => OwnInv
  BY DEF Init, OwnInv, ProgressBelongsToOperation, Busy, Working, InProgress
<1>2. TypeInv /\ OrphanInv /\ OwnInv /\ [Next]_vars => OwnInv'
  BY OwnStep
<1> QED
  BY <1>1, <1>2, TypeCorrect, Orphans, PTL DEF Spec

\* The worker never records the progress of one operation on an object that
\* asks for another, whatever is lost, fails or restarts.
THEOREM ProgressIsOwn == ~RollingSync => (Spec => []ProgressBelongsToOperation)
<1> SUFFICES ASSUME ~RollingSync PROVE Spec => []ProgressBelongsToOperation
  OBVIOUS
<1>1. OwnInv => ProgressBelongsToOperation
  BY DEF OwnInv
<1> QED
  BY <1>1, Ownership, PTL

-----------------------------------------------------------------------------
(* Retries.  The count of a state is bounded by the failed rounds of its   *)
(* operation and by the limit; the worker's copy has to be as well.        *)

Counted(st) ==
    /\ st.retryCount <= fails[st.op.id]
    /\ st.op.limit >= 0 => st.retryCount <= st.op.limit

RetryInv ==
    /\ app.st # NoState => Counted(app.st)
    /\ Working => Counted(wst)

\* Failed rounds are only ever added.
LEMMA FailsGrow ==
    ASSUME TypeInv, NEW o \in Operations,
           fails' = [fails EXCEPT ![o.id] = @ + 1]
    PROVE  /\ \A q \in Operations : fails[q.id] <= fails'[q.id]
           /\ fails'[o.id] = fails[o.id] + 1
BY DEF TypeInv, TypeOK, Operations

LEMMA RetryStep ==
    ASSUME ~RollingSync, TypeInv, OrphanInv, OwnInv, RetryInv, [Next]_vars
    PROVE  RetryInv'
<1> USE DEF RetryInv, Working
<1>1. app \in Objects /\ WorkerPhases /\ fails \in [OpIds -> Nat]
  BY DEF TypeInv, TypeOK, OrphanInv
<1>2. app.st # NoState => app.st \in States
  BY <1>1 DEF Objects
<1>3. Limits \subseteq Int
  BY OperationConstants
<1>4. CASE Request
  <2>1. app'.st = NoState /\ UNCHANGED <<pc, wst, fails>>
    BY <1>4 DEF Request, SetAppOperation, RollingSyncOperation, worker
  <2> QED
    BY <2>1 DEF Counted
<1>5. CASE TerminateOperation
  <2>1. /\ app.st # NoState
        /\ app'.st.retryCount = app.st.retryCount /\ app'.st.op = app.st.op
        /\ UNCHANGED <<pc, wst, fails>>
    BY <1>2, <1>1, <1>5 DEF TerminateOperation, worker, Objects, States
  <2> QED
    BY <2>1 DEF Counted
<1>6. CASE \/ WatchEvent \/ Resync \/ Dequeue \/ GetFails \/ FreshCheckFails
           \/ PatchSkipped \/ SyncTimeoutElapses \/ BackoffElapses
           \/ UNCHANGED vars
  BY <1>6, QuietEffect DEF Counted
<1>7. CASE GetAndBegin
  <2>1. app.op \in Operations => /\ NewOperationState(app.op).retryCount = 0
                                 /\ NewOperationState(app.op).op = app.op
                                 /\ fails[app.op.id] \in Nat
    BY <1>1 DEF NewOperationState, Operations
  <2> QED
    BY <1>7, <2>1, BeginEffect DEF Counted, InProgress
<1>8. CASE SyncRound
  <2>1. wst \in States /\ pc = "sync" /\ app' = app /\ wst'.op = wst.op
    BY <1>1, <1>8, RoundEffect
  <2>2. wst.op \in Operations /\ wst.op.id \in OpIds
        /\ wst.retryCount \in Nat /\ wst.op.limit \in Int
    BY <1>3, <2>1, ZenonT(60) DEF States, Operations
  <2>3. \A q \in Operations : fails[q.id] \in Nat /\ fails'[q.id] \in Nat
                              /\ fails[q.id] <= fails'[q.id]
    BY <1>1, <1>8, <2>2, RoundEffect, FailsGrow DEF Operations
  <2>4. app.st # NoState => Counted(app.st)'
    BY <1>2, <2>1, <2>3, SMTT(60) DEF Counted, States
  <2>5. CASE wst'.retryCount = wst.retryCount
    BY <2>1, <2>2, <2>3, <2>4, <2>5 DEF Counted
  <2>6. CASE /\ RetryAllowed(wst)
             /\ wst'.retryCount = wst.retryCount + 1
             /\ fails' = [fails EXCEPT ![wst.op.id] = @ + 1]
    BY <1>1, <2>1, <2>2, <2>4, <2>6, FailsGrow, SMTT(60) DEF Counted, RetryAllowed
  <2> QED
    BY <1>1, <1>8, <2>5, <2>6, RoundEffect
<1>9. CASE FreshCheck
  <2>1. /\ app' = app /\ pc = "fresh" /\ fails' = fails
        /\ wst'.op = wst.op /\ wst'.retryCount = wst.retryCount
    BY <1>1, <1>9 DEF FreshCheck, TypeInv, WorkerTyped, States
  <2> QED
    BY <2>1 DEF Counted
<1>10. CASE PatchApplied \/ PatchResponseLost
  <2>1. NoState.retryCount = 0
    BY DEF NoState
  <2> QED
    BY <1>10, <2>1, PatchEffect DEF Counted, OwnInv
<1>11. CASE Crash
  BY <1>11 DEF Crash, Counted
<1> QED
  BY <1>4, <1>5, <1>6, <1>7, <1>8, <1>9, <1>10, <1>11 DEF Next, Patch

LEMMA Retries == ~RollingSync => (Spec => []RetryInv)
<1> SUFFICES ASSUME ~RollingSync PROVE Spec => []RetryInv
  OBVIOUS
<1>1. Init => RetryInv
  BY DEF Init, RetryInv, Working
<1>2. TypeInv /\ OrphanInv /\ OwnInv /\ RetryInv /\ [Next]_vars => RetryInv'
  BY RetryStep
<1> QED
  BY <1>1, <1>2, TypeCorrect, Orphans, Ownership, PTL DEF Spec

\* No restart, failed read or repeated patch uses up a retry or grants one
\* more than the limit.
THEOREM RetriesAreCounted == ~RollingSync => (Spec => []RetryAccounting)
<1> SUFFICES ASSUME ~RollingSync PROVE Spec => []RetryAccounting
  OBVIOUS
<1>1. RetryInv => RetryAccounting
  BY DEF RetryInv, Counted, RetryAccounting
<1> QED
  BY <1>1, Retries, PTL

\* A round that is given up has no retry left, and is counted as failed.
LEMMA GivenUpEffect ==
    ASSUME TypeInv, WorkerPhases, [Next]_vars,
           pc = "sync", pc' = "patch2", wst.phase = "Running",
           wst.op.backoffOK, wst'.phase \in {"Failed", "Error"}
    PROVE  /\ wst \in States
           /\ ~RetryAllowed(wst)
           /\ fails' = [fails EXCEPT ![wst.op.id] = @ + 1]
<1>1. wst \in States
  BY DEF TypeInv, WorkerTyped
<1> DEFINE r == WithResult(wst)
<1>2. /\ r \in States /\ r.op = wst.op /\ r.phase = wst.phase
      /\ r.retryCount = wst.retryCount
  BY <1>1, WithResultTyped
<1> HIDE DEF r
<1>3. SyncRound
  BY DEF Next, Request, SetAppOperation, RollingSyncOperation, TerminateOperation,
     WatchEvent, Resync, UpdateFunc, Dequeue, GetFails, GetAndBegin, GetNoOperation,
     BeginNew, ResumeTerminating, BeginTimeout, BeginRetry, RetryNotDue,
     ResumeRunning, Begin, FreshCheck, FreshCheckFails, Patch, PatchApplied,
     PatchSkipped, PatchResponseLost, PatchDue, SyncTimeoutElapses,
     BackoffElapses, Crash, vars
<1>4. SyncFails
  <2>1. ~SyncStillRunning /\ ~SyncPanics /\ ~SyncStillTerminating /\ ~SyncTerminated
    BY DEF SyncStillRunning, SyncPanics, SyncStillTerminating, SyncTerminated, EndSync
  <2>2. ~SyncSucceeds
    BY <1>2, ZenonT(60) DEF SyncSucceeds, EndSync, r, States
  <2> QED
    BY <1>3, <2>1, <2>2 DEF SyncRound
<1>5. PICK st \in {wst, r} :
         \/ EndSync([st EXCEPT !.finished = TRUE, !.retryCount = @ + 1], "patch2")
         \/ ~st.op.backoffOK
         \/ ~RetryAllowed(st)
  BY <1>4, ZenonT(60) DEF SyncFails, r
<1>6. ~EndSync([st EXCEPT !.finished = TRUE, !.retryCount = @ + 1], "patch2")
  BY <1>1, <1>2, ZenonT(60) DEF EndSync, States
<1>7. ~RetryAllowed(wst)
  BY <1>2, <1>5, <1>6 DEF RetryAllowed
<1> QED
  BY <1>1, <1>4, <1>7 DEF SyncFails

\* A round that fails ends the operation only after more failures than the
\* limit, and never if there is no limit.
THEOREM BudgetIsHonoured == ~RollingSync => (Spec => RetryBudgetHonoured)
<1> SUFFICES ASSUME ~RollingSync PROVE Spec => RetryBudgetHonoured
  OBVIOUS
<1> DEFINE GivenUp == /\ pc = "sync" /\ pc' = "patch2"
                      /\ wst.phase = "Running" /\ wst.op.backoffOK
                      /\ wst'.phase \in {"Failed", "Error"}
           Spent == wst.op.limit >= 0 /\ fails'[wst.op.id] > wst.op.limit
<1>1. ASSUME TypeInv, OrphanInv, RetryInv, [Next]_vars, GivenUp PROVE Spent
  <2>1. /\ wst \in States /\ ~RetryAllowed(wst) /\ Counted(wst)
        /\ fails' = [fails EXCEPT ![wst.op.id] = @ + 1]
    BY <1>1, GivenUpEffect DEF OrphanInv, RetryInv, Working
  <2>2. wst.op \in Operations /\ wst.retryCount \in Nat /\ wst.op.limit \in Int
        /\ fails[wst.op.id] \in Nat
    BY <1>1, <2>1, OperationConstants, ZenonT(60) DEF States, Operations, TypeInv, TypeOK
  <2>3. fails'[wst.op.id] = fails[wst.op.id] + 1
    BY <1>1, <2>1, <2>2, FailsGrow, ZenonT(60)
  <2> QED
    BY <2>1, <2>2, <2>3 DEF RetryAllowed, Counted
<1>2. TypeInv /\ OrphanInv /\ RetryInv /\ [Next]_vars => [GivenUp => Spent]_vars
  BY <1>1
<1> QED
  BY <1>2, TypeCorrect, Orphans, Retries, PTL DEF Spec, RetryBudgetHonoured

-----------------------------------------------------------------------------
(* Outcomes.  A patch may reach the object twice, and then finds what it   *)
(* left: no other outcome can have been recorded in between.               *)

LEMMA PatchTwice ==
    ASSUME NEW stored \in Objects, NEW read \in Objects, NEW st \in States
    PROVE  MergePatch(MergePatch(stored, read, st), read, st).st
              = MergePatch(stored, read, st).st
<1> DEFINE m == MergePatch(stored, read, st).st
           n == MergePatch(MergePatch(stored, read, st), read, st).st
<1>1. stored.st.finished \in BOOLEAN /\ read.st.finished \in BOOLEAN
      /\ st.finished \in BOOLEAN
  <2>1. stored.st \in States \cup {NoState} /\ read.st \in States \cup {NoState}
    BY DEF Objects
  <2>2. \A s \in States : s.finished \in BOOLEAN
    BY ZenonT(60) DEF States
  <2>3. NoState.finished \in BOOLEAN
    BY ZenonT(60) DEF NoState
  <2> QED
    BY <2>1, <2>2, <2>3, ZenonT(60)
<1>2. n.finished = m.finished
  BY <1>1, ZenonT(60) DEF MergePatch
<1>3. /\ n.op = m.op /\ n.phase = m.phase
      /\ n.retryCount = m.retryCount /\ n.result = m.result
  BY ZenonT(60) DEF MergePatch
<1>4. /\ n = [op |-> n.op, phase |-> n.phase, retryCount |-> n.retryCount,
              finished |-> n.finished, result |-> n.result]
      /\ m = [op |-> m.op, phase |-> m.phase, retryCount |-> m.retryCount,
              finished |-> m.finished, result |-> m.result]
  BY ZenonT(60) DEF MergePatch
<1> HIDE DEF m, n
<1> QED
  BY <1>2, <1>3, <1>4, SMTT(60) DEF m, n

OutcomeInv ==
    Working /\ Completed(app.st) => MergePatch(app, wapp, wst).st = app.st

LEMMA OutcomeStep ==
    ASSUME ~RollingSync, TypeInv, OrphanInv, OwnInv, OutcomeInv, [Next]_vars
    PROVE  /\ OutcomeInv'
           /\ Completed(app.st) /\ app'.st # app.st => requested' > requested
<1> USE DEF OutcomeInv, Working
<1>1. /\ app \in Objects /\ wapp \in Objects /\ WorkerPhases
      /\ requested \in 0 .. MaxOps
      /\ app.op # NoOp => ~Completed(app.st)
      /\ Busy => app.op # NoOp
  BY DEF TypeInv, TypeOK, OrphanInv, OwnInv
<1>2. CASE Request
  <2>1. app'.st = NoState /\ requested' = requested + 1
    BY <1>2 DEF Request, SetAppOperation, RollingSyncOperation
  <2> QED
    BY <1>1, <2>1, OperationConstants, SMTT(60) DEF Completed, NoState, CompletedPhases
<1>3. CASE TerminateOperation
  <2>1. ~Completed(app.st) /\ app'.st.phase = "Terminating"
    BY <1>1, <1>3 DEF TerminateOperation, Objects, States, NoState
  <2> QED
    BY <2>1, SMTT(60) DEF Completed, CompletedPhases
<1>4. CASE \/ WatchEvent \/ Resync \/ Dequeue \/ GetFails \/ FreshCheckFails
           \/ PatchSkipped \/ SyncTimeoutElapses \/ BackoffElapses
           \/ UNCHANGED vars
  BY <1>4, QuietEffect DEF Completed
<1>5. CASE GetAndBegin
  BY <1>1, <1>5, BeginEffect, NoOpIsNone, SMTT(60) DEF Completed
<1>6. CASE SyncRound
  <2>1. app' = app /\ ~Completed(app.st)
    BY <1>1, <1>6, RoundEffect, SMTT(60)
       DEF Busy, WorkerPhases, Completed, CompletedPhases
  <2> QED
    BY <2>1 DEF Completed
<1>7. CASE FreshCheck
  <2>1. app' = app /\ ~Completed(app.st)
    BY <1>1, <1>7 DEF FreshCheck, Busy, WorkerPhases, Completed, CompletedPhases
  <2> QED
    BY <2>1 DEF Completed
<1>8. CASE PatchApplied \/ PatchResponseLost
  <2>1. /\ app' = MergePatch(app, wapp, wst) /\ wst \in States
        /\ UNCHANGED <<wapp, wst, requested>> /\ Working
    BY <1>8, SMTT(60) DEF PatchApplied, PatchResponseLost, PatchDue, worker,
       TypeInv, WorkerTyped
  <2>2. MergePatch(app', wapp', wst').st = app'.st
    BY <1>1, <2>1, PatchTwice
  <2> QED
    BY <2>1, <2>2
<1>9. CASE Crash
  BY <1>9, SMTT(60) DEF Crash, Completed
<1> QED
  BY <1>2, <1>3, <1>4, <1>5, <1>6, <1>7, <1>8, <1>9, ZenonT(60) DEF Next, Patch

\* The outcome of an operation stays on record until another operation is
\* accepted, even if the patch that recorded it is sent again.
THEOREM OutcomesAreFinal == ~RollingSync => (Spec => OutcomeIsFinal)
<1> SUFFICES ASSUME ~RollingSync PROVE Spec => OutcomeIsFinal
  OBVIOUS
<1>1. Init => OutcomeInv
  BY DEF Init, OutcomeInv, Working
<1>2. TypeInv /\ OrphanInv /\ OwnInv /\ OutcomeInv /\ [Next]_vars => OutcomeInv'
  BY OutcomeStep
<1>3. TypeInv /\ OrphanInv /\ OwnInv /\ OutcomeInv /\ [Next]_vars
        => [Completed(app.st) /\ app'.st # app.st => requested' > requested]_vars
  BY OutcomeStep
<1> QED
  BY <1>1, <1>2, <1>3, TypeCorrect, Orphans, Ownership, PTL
     DEF Spec, OutcomeIsFinal

-----------------------------------------------------------------------------
(* Refinement.  If no response is lost, the worker at work always holds    *)
(* the operation of the object; hence the patch that completes an          *)
(* operation completes that one.                                           *)

HeldInv == Working => app.op # NoOp /\ wst.op = app.op

LEMMA HeldStep ==
    ASSUME ~RollingSync, "lost" \notin FaultKinds,
           TypeInv, OrphanInv, OwnInv, HeldInv, [Next]_vars
    PROVE  HeldInv'
<1> USE DEF HeldInv, Working
<1>1. app \in Objects /\ WorkerPhases /\ ProgressBelongsToOperation
  BY DEF TypeInv, TypeOK, OrphanInv, OwnInv
<1>2. CASE Request
  BY <1>2 DEF Request, SetAppOperation, RollingSyncOperation, worker
<1>3. CASE TerminateOperation
  BY <1>1, <1>3 DEF TerminateOperation, worker, Objects
<1>4. CASE \/ WatchEvent \/ Resync \/ Dequeue \/ GetFails \/ FreshCheckFails
           \/ PatchSkipped \/ SyncTimeoutElapses \/ BackoffElapses
           \/ UNCHANGED vars
  BY <1>4, QuietEffect
<1>5. CASE GetAndBegin
  BY <1>1, <1>5, BeginEffect, NoOpIsNone, SMTT(60)
     DEF NewOperationState, ProgressBelongsToOperation
<1>6. CASE SyncRound
  BY <1>1, <1>6, RoundEffect
<1>7. CASE FreshCheck
  BY <1>7 DEF FreshCheck, TypeInv, WorkerTyped, States
<1>8. CASE PatchApplied
  <2>1. (pc = "patch1" /\ pc' = "sync") \/ pc' = "idle"
    BY <1>8 DEF PatchApplied, Return
  <2> QED
    BY <1>1, <1>8, <2>1, PatchEffect DEF WorkerPhases, Completed, CompletedPhases
<1>9. CASE PatchResponseLost
  BY <1>9 DEF PatchResponseLost, Fault
<1>10. CASE Crash
  BY <1>10 DEF Crash
<1> QED
  BY <1>2, <1>3, <1>4, <1>5, <1>6, <1>7, <1>8, <1>9, <1>10 DEF Next, Patch

SlotOutcome == IF Completed(app.st) THEN <<app.st.op, app.st.phase>>
                                    ELSE <<NoOp, "none">>

\* A step of the controller or the API server is a step of the slot, or none.
LEMMA SlotStep ==
    ASSUME ~RollingSync, TypeInv, OrphanInv, OwnInv, HeldInv, [Next]_vars
    PROVE  [Slot!SlotNext]_<<app.op, SlotOutcome>>
<1>1. app \in Objects /\ (app.op # NoOp => ~Completed(app.st))
  BY DEF TypeInv, TypeOK, OwnInv
<1>2. CASE Request
  <2>1. app.op = NoOp /\ app'.op \in Operations /\ app'.st = NoState
    BY <1>2 DEF Request, SetAppOperation, RollingSyncOperation
  <2>2. SlotOutcome' = <<NoOp, "none">>
    BY <2>1 DEF SlotOutcome, Completed, CompletedPhases, NoState
  <2> QED
    BY <2>1, <2>2, SMTT(60) DEF Slot!SlotNext, Slot!Accept, SlotOutcome
<1>3. CASE TerminateOperation
  <2>1. /\ ~Completed(app.st) /\ app'.st.phase = "Terminating"
        /\ app'.op = app.op
    BY <1>1, <1>3 DEF TerminateOperation, Objects, States, NoState
  <2> QED
    BY <2>1 DEF SlotOutcome, Completed, CompletedPhases
<1>4. CASE app' = app
  BY <1>4 DEF SlotOutcome, Completed
<1>5. CASE PatchApplied \/ PatchResponseLost
  <2>1. Working /\ wst \in States
    BY <1>5, PatchEffect DEF Working
  <2>2. app.op # NoOp /\ wst.op = app.op /\ ~Completed(app.st)
    BY <1>1, <2>1 DEF HeldInv
  <2>3. CASE Completed(wst)
    <3>1. /\ app'.op = NoOp /\ Completed(app.st)'
          /\ app'.st.op = app.op /\ app'.st.phase \in CompletedPhases
      BY <1>5, <2>2, <2>3, PatchEffect DEF Completed
    <3> QED
      BY <2>2, <3>1 DEF Slot!SlotNext, Slot!Complete, SlotOutcome, CompletedPhases
  <2>4. CASE ~Completed(wst)
    BY <1>5, <2>2, <2>4, PatchEffect DEF SlotOutcome, Completed
  <2> QED
    BY <2>3, <2>4
<1>6. CASE \/ WatchEvent \/ Resync \/ Dequeue \/ GetFails \/ FreshCheckFails
           \/ PatchSkipped \/ SyncTimeoutElapses \/ BackoffElapses
           \/ UNCHANGED vars
  BY <1>4, <1>6, QuietEffect
<1>7. CASE GetAndBegin
  BY <1>4, <1>7, BeginEffect
<1>8. CASE SyncRound \/ FreshCheck \/ Crash
  BY <1>4, <1>8, RoundEffect DEF OrphanInv, FreshCheck, Crash
<1> QED
  BY <1>2, <1>3, <1>5, <1>6, <1>7, <1>8 DEF Next, Patch

\* The API server and the controller implement the one-operation slot: each
\* operation accepted is completed at most once, under its own name, and the
\* next one is accepted only after that.
THEOREM OperationImplementsSlot ==
    ~RollingSync /\ "lost" \notin FaultKinds => (Spec => ImplementsSlot)
<1> SUFFICES ASSUME ~RollingSync, "lost" \notin FaultKinds
             PROVE  Spec => ImplementsSlot
  OBVIOUS
<1>1. Init => Slot!SlotInit
  BY SMTT(60) DEF Init, Slot!SlotInit, NoState, Completed, CompletedPhases
<1>2. Init => HeldInv
  BY DEF Init, HeldInv, Working
<1>3. TypeInv /\ OrphanInv /\ OwnInv /\ HeldInv /\ [Next]_vars => HeldInv'
  BY HeldStep
<1>4. TypeInv /\ OrphanInv /\ OwnInv /\ HeldInv /\ [Next]_vars
        => [Slot!SlotNext]_(Slot!slotVars)
  BY SlotStep DEF Slot!slotVars, SlotOutcome
<1> QED
  BY <1>1, <1>2, <1>3, <1>4, TypeCorrect, Orphans, Ownership, PTL
     DEF Spec, ImplementsSlot, Slot!SlotSpec
=============================================================================
