--------------------------- MODULE AppDeletionProofs ---------------------------
(***************************************************************************)
(* Proofs about AppDeletion: what a deletion guarantees, for any number of *)
(* objects, hooks and waves and for every plan.                            *)
(***************************************************************************)
EXTENDS AppDeletion, TLAPS

-----------------------------------------------------------------------------
(* The inductive invariants. *)

States == {"absent", "terminating", "progressing", "live", "healthy", "degraded", "suspended"}
IsView(view) == view \in [Objects -> States] /\ \A h \in Hooks : view[h] \in ObjectStates(h)
RequestType == [pc : {"idle", "patch", "delete", "done"}, old : SUBSET Finalizers, fin : SUBSET Finalizers]
WorkerType == [pc : {"idle", "branch", "relist", "patch", "patchPre", "strip"},
               old : SUBSET Finalizers, fin : SUBSET Finalizers, approved : BOOLEAN]
RefreshType == [pc : {"idle", "autosync", "pre", "post", "persist"},
                copy : [deleting : BOOLEAN, op : BOOLEAN, fin : SUBSET Finalizers],
                fin : SUBSET Finalizers, hooks : SUBSET HookKinds]

\* The types of the variables.
TypeInv ==
    /\ app \in Applications /\ cached \in Applications
    /\ api \in [Requests -> RequestType] /\ worker \in WorkerType /\ refresh \in RefreshType
    /\ IsView(live) /\ IsView(seen)
    /\ git \subseteq HookKinds

\* What holds whatever goes wrong: no actor is ahead of the API, the worker only works on an
\* application that is being deleted, and a request changes the cascade finalizer alone.
ControlInv ==
    /\ cached.deleting /\ app.alive => app.deleting
    /\ refresh.copy.deleting /\ app.alive => app.deleting
    /\ ~cached.alive \/ proj = "gone" => ~app.alive
    /\ worker.pc # "idle" => app.deleting \/ ~app.alive
    /\ worker.pc = "strip" => worker.fin = {}
    /\ ~app.alive => ~app.deleting /\ app.fin = {}
    /\ "live" \notin lag => seen = live
    /\ \A r \in Requests : api[r].pc = "patch" =>
         \/ r = "cascade" /\ api[r].fin = api[r].old \cup {"cascade"}
         \/ r = "orphan" /\ api[r].fin = api[r].old \ {"cascade"}
    /\ "cascade" \in refresh.copy.fin <=> "cascade" \in refresh.fin

-----------------------------------------------------------------------------
(* How a step changes the application. *)

AppKept == app'.alive = app.alive /\ app'.deleting = app.deleting /\ app'.fin = app.fin

\* A reconciliation's patch that was accepted.
RefreshPatches(kind) ==
    LET fin == WithHookFinalizers(kind, refresh.fin)
    IN /\ refresh.pc = kind /\ HookFinalizersDiffer(kind) /\ PatchAccepted(fin)
       /\ app' = Patched(fin)
       /\ excuses' = AfterPatch(refresh.copy.fin, fin) \cup (IF app.deleting THEN {"lateUnset"} ELSE {})
       /\ refresh' = [refresh EXCEPT !.pc = IF kind = "pre" THEN "post" ELSE "persist", !.fin = fin]
       /\ UNCHANGED <<api, worker, live, git, proj, status, lag, commits, due, ran>>

WorkerPatches == FinalizerPatch /\ PatchAccepted(worker.fin) /\ app' = Patched(worker.fin)
RequestPatches(r) == ApiPatch(r) /\ PatchAccepted(api[r].fin) /\ app' = Patched(api[r].fin)
Deletes(r) == ApiDelete(r) /\ app.alive /\ ~app.deleting

AppStep ==
    \/ AppKept /\ due' = due
    \/ \E r \in Requests : RequestPatches(r) \/ Deletes(r)
    \/ WorkerPatches
    \/ \E kind \in HookKinds : RefreshPatches(kind)

LEMMA PatchedEffect ==
    ASSUME app \in Applications, NEW fin \in SUBSET Finalizers, app' = Patched(fin), PatchAccepted(fin)
    PROVE  /\ app' \in Applications /\ app'.fin = fin
           /\ app.alive /\ (app.deleting => fin \subseteq app.fin)
           /\ app'.deleting <=> app.deleting /\ fin # {}
           /\ app'.alive <=> ~(app.deleting /\ fin = {})
<1>1. CASE app.deleting /\ fin = {}
  BY <1>1, ZenonT(60) DEF Patched, PatchAccepted, Gone, Applications
<1>2. CASE ~(app.deleting /\ fin = {})
  BY <1>2 DEF Patched, PatchAccepted, Applications
<1>3. QED
  BY <1>1, <1>2

LEMMA DeletesEffect ==
    ASSUME app \in Applications, NEW r \in Requests, Deletes(r)
    PROVE  /\ app' \in Applications /\ app'.fin = app.fin
           /\ app'.deleting <=> app.fin # {}
           /\ app'.alive <=> app.fin # {}
           /\ due' = app.fin \cup (IF r = "cascade" THEN {"cascade"} ELSE {})
<1>1. CASE app.fin = {}
  BY <1>1, ZenonT(60) DEF Deletes, ApiDelete, Gone, Applications
<1>2. CASE app.fin # {}
  BY <1>2, ZenonT(60) DEF Deletes, ApiDelete, Applications
<1>3. QED
  BY <1>1, <1>2

LEMMA RefreshFinalizersEffect ==
    ASSUME refresh \in RefreshType, NEW kind \in HookKinds, RefreshFinalizers(kind)
    PROVE  \/ RefreshPatches(kind)
           \/ UNCHANGED <<app, due>>
  BY ZenonT(60) DEF RefreshFinalizers, RefreshPatches

LEMMA AppSteps ==
    ASSUME TypeInv, [Next]_vars
    PROVE  app' \in Applications /\ AppStep
<1> USE DEF TypeInv
<1>1. CASE UNCHANGED vars
  BY <1>1 DEF vars, AppStep, AppKept
<1>2. ASSUME NEW r \in Requests, ApiRead(r) \/ ApiPatch(r) \/ ApiDelete(r)
      PROVE  app' \in Applications /\ AppStep
  <2>1. CASE ApiRead(r)
    BY <2>1 DEF ApiRead, ghosts, AppStep, AppKept
  <2>2. CASE ApiPatch(r)
    <3>1. CASE PatchAccepted(api[r].fin)
      <4>1. api[r].fin \in SUBSET Finalizers /\ app' = Patched(api[r].fin)
        BY <2>2, <3>1 DEF ApiPatch, RequestType
      <4>2. QED
        BY <2>2, <3>1, <4>1, PatchedEffect DEF RequestPatches, AppStep
    <3>2. CASE ~PatchAccepted(api[r].fin)
      BY <2>2, <3>2 DEF ApiPatch, AppStep, AppKept
    <3>3. QED
      BY <3>1, <3>2
  <2>3. CASE ApiDelete(r)
    <3>1. CASE app.alive /\ ~app.deleting
      BY <2>3, <3>1, DeletesEffect DEF Deletes, AppStep
    <3>2. CASE ~(app.alive /\ ~app.deleting)
      BY <2>3, <3>2 DEF ApiDelete, AppStep, AppKept
    <3>3. QED
      BY <3>1, <3>2
  <2>4. QED
    BY <1>2, <2>1, <2>2, <2>3
<1>3. CASE ApproveDeletion
  BY <1>3, ZenonT(60) DEF ApproveDeletion, Applications, ghosts, AppStep, AppKept
<1>4. CASE RunOperation
  BY <1>4, ZenonT(60) DEF RunOperation, Applications, AppStep, AppKept
<1>5. CASE FinalizerPatch
  <2>1. CASE PatchAccepted(worker.fin) /\ proj # "gone"
    <3>1. worker.fin \in SUBSET Finalizers /\ app' = Patched(worker.fin)
      BY <1>5, <2>1 DEF FinalizerPatch, WorkerType
    <3>2. QED
      BY <1>5, <2>1, <3>1, PatchedEffect DEF WorkerPatches, AppStep
  <2>2. CASE ~(PatchAccepted(worker.fin) /\ proj # "gone")
    BY <1>5, <2>2 DEF FinalizerPatch, AppStep, AppKept
  <2>3. QED
    BY <2>1, <2>2
<1>6. ASSUME NEW kind \in HookKinds, RefreshFinalizers(kind)
      PROVE  app' \in Applications /\ AppStep
  <2>1. CASE RefreshPatches(kind)
    <3>1. WithHookFinalizers(kind, refresh.fin) \in SUBSET Finalizers
      BY <1>6 DEF WithHookFinalizers, RefreshType, Finalizers
    <3>2. QED
      BY <1>6, <2>1, <3>1, PatchedEffect, ZenonT(60) DEF RefreshPatches, AppStep
  <2>2. CASE UNCHANGED <<app, due>>
    BY <2>2 DEF AppStep, AppKept
  <2>3. QED
    BY <1>6, <2>1, <2>2, RefreshFinalizersEffect
<1>7. CASE AutoSync
  BY <1>7, ZenonT(60) DEF AutoSync, Applications, ghosts, AppStep, AppKept
<1>8. CASE UNCHANGED <<app, due>>
  BY <1>8 DEF AppStep, AppKept
<1>9. CASE \/ FinalizeApplicationDeletion \/ PreDeleteHooks \/ DeleteWave \/ CascadeDone \/ PostDeleteHooks
           \/ \E kind \in HookKinds : CleanupHooks(kind) \/ HooksFail(kind) \/ Commit(kind)
           \/ UnknownCluster \/ PassFails \/ DeleteWaveFails \/ RefreshStart \/ FinalizeProjectDeletion
           \/ \E o \in Objects : Vanish(o) \/ WatchObject(o)
           \/ \E h \in Hooks, outcome \in HookOutcomes : HookFinishes(h, outcome)
           \/ RefreshPersist \/ Restart \/ WatchApplication
  <2>1. UNCHANGED <<app, due>>
    BY <1>9, ZenonT(60) DEF FinalizeApplicationDeletion, PreDeleteHooks, DeleteWave, CascadeDone, PostDeleteHooks,
         CleanupHooks, HooksFail, Commit, UnknownCluster, PassFails, DeleteWaveFails, RefreshStart,
         FinalizeProjectDeletion, Vanish, WatchObject, HookFinishes, RefreshPersist, Restart,
         WatchApplication, ghosts
  <2>2. QED
    BY <1>8, <2>1
<1>10. QED
  BY <1>1, <1>2, <1>3, <1>4, <1>5, <1>6, <1>7, <1>9 DEF Next, Step, WorkerPass

\* The caches show what was or what is.
CachesStep ==
    /\ cached' = cached \/ cached' = app'
    /\ \A o \in Objects : seen'[o] = seen[o] \/ seen'[o] = live'[o]

LEMMA CachesSteps ==
    ASSUME TypeInv, [Next]_vars, IsView(live')
    PROVE  CachesStep /\ IsView(seen') /\ ("live" \notin lag /\ seen = live => seen' = live') /\ lag' = lag
<1> USE DEF TypeInv, CachesStep
<1>1. CASE UNCHANGED vars
  BY <1>1 DEF vars
<1>2. CASE Step /\ Caches
  <2>1. lag' = lag
    BY <1>2, ZenonT(60) DEF Step, WorkerPass, ApiRead, ApiPatch, ApiDelete, ApproveDeletion, RunOperation,
         FinalizeApplicationDeletion, PreDeleteHooks, DeleteWave, CascadeDone, PostDeleteHooks,
         CleanupHooks, FinalizerPatch, HooksFail, Commit, UnknownCluster, PassFails, DeleteWaveFails,
         RefreshStart, RefreshFinalizers, FinalizeProjectDeletion, Vanish, HookFinishes
  <2>2. QED
    BY <1>2, <2>1 DEF Caches
<1>3. CASE AutoSync
  BY <1>3 DEF AutoSync
<1>4. CASE RefreshPersist
  BY <1>4 DEF RefreshPersist
<1>5. CASE Restart
  BY <1>5 DEF Restart
<1>6. CASE WatchApplication
  BY <1>6 DEF WatchApplication
<1>7. ASSUME NEW o \in Objects, WatchObject(o)
      PROVE  /\ CachesStep /\ IsView(seen') /\ lag' = lag
             /\ "live" \notin lag /\ seen = live => seen' = live'
  BY <1>7 DEF WatchObject, IsView, Hooks, Objects
<1>8. QED
  BY <1>1, <1>2, <1>3, <1>4, <1>5, <1>6, <1>7 DEF Next

-----------------------------------------------------------------------------
(* How a step changes the objects, and the history. *)

Starts(h) == \E kind \in HookKinds : At(kind) /\ h \in Created(kind) /\ UNCHANGED <<app, due, excuses>>

ObjectStep(o) ==
    \/ live'[o] = live[o]
    \/ RunOperation /\ o \in Resources
    \/ live[o] # "absent" /\ live'[o] = "terminating"
    \/ live[o] = "terminating" /\ live'[o] = "absent"
    \/ o \in Hooks /\ live[o] = "absent" /\ live'[o] = "progressing" /\ Starts(o)
    \/ o \in Hooks /\ live[o] = "progressing" /\ live'[o] \in HookOutcomes /\ (live'[o] = "healthy" => o \in ran')

LEMMA TerminatedEffect ==
    ASSUME IsView(live), NEW objs, live' = Terminated(objs)
    PROVE  IsView(live') /\ \A o \in Objects : ObjectStep(o)
  BY DEF IsView, Terminated, ObjectStep, States, ObjectStates, Hooks, Objects

LEMMA StartedEffect ==
    ASSUME IsView(live), NEW kind \in HookKinds, At(kind), NEW hooks \in SUBSET Created(kind),
           live' = Started(hooks), UNCHANGED <<app, due, excuses>>
    PROVE  IsView(live') /\ \A o \in Objects : ObjectStep(o)
<1>1. Created(kind) \subseteq Hooks /\ \A h \in Created(kind) : live[h] = "absent"
  BY DEF Created, Expected, HooksOf, Hooks, HookKinds
<1>2. \A h \in hooks : Starts(h)
  BY DEF Starts
<1>3. \A o \in Objects : live'[o] = IF o \in hooks THEN "progressing" ELSE live[o]
  BY DEF Started
<1>4. live' \in [Objects -> States]
  BY DEF Started, IsView, States
<1>5. \A h \in Hooks : live'[h] \in ObjectStates(h)
  BY <1>3 DEF IsView, ObjectStates, Hooks, Objects
<1>6. QED
  BY <1>1, <1>2, <1>3, <1>4, <1>5 DEF IsView, ObjectStep

LEMMA ExecuteHooksEffect ==
    ASSUME IsView(live), NEW kind \in HookKinds, At(kind), ExecuteHooks(kind), UNCHANGED <<app, due>>
    PROVE  IsView(live') /\ \A o \in Objects : ObjectStep(o)
<1>1. CASE Created(kind) # {}
  BY <1>1, StartedEffect DEF ExecuteHooks
<1>2. CASE Created(kind) = {} /\ Failed(kind) # {}
  BY <1>2, TerminatedEffect DEF ExecuteHooks
<1>3. CASE Created(kind) = {} /\ Failed(kind) = {}
  <2>1. live' = live
    BY <1>3 DEF ExecuteHooks
  <2>2. QED
    BY <2>1 DEF ObjectStep
<1>4. QED
  BY <1>1, <1>2, <1>3

LEMMA ObjectSteps ==
    ASSUME TypeInv, [Next]_vars
    PROVE  IsView(live') /\ \A o \in Objects : ObjectStep(o)
<1> USE DEF TypeInv
<1>1. CASE live' = live
  BY <1>1 DEF ObjectStep
<1>2. CASE RunOperation
  <2>1. \A o \in Objects : live'[o] = IF o \in Resources /\ live[o] = "absent" THEN "live" ELSE live[o]
    BY <1>2 DEF RunOperation
  <2>2. live' \in [Objects -> States]
    BY <1>2 DEF RunOperation, IsView, States
  <2>3. \A h \in Hooks : live'[h] = live[h]
    BY <2>1, DeletionAssumption DEF Hooks, Objects
  <2>4. QED
    BY <1>2, <2>1, <2>2, <2>3 DEF IsView, ObjectStep
<1>3. CASE PreDeleteHooks
  BY <1>3, ExecuteHooksEffect DEF PreDeleteHooks, HookKinds
<1>4. CASE PostDeleteHooks
  BY <1>4, ExecuteHooksEffect DEF PostDeleteHooks, HookKinds
<1>5. CASE DeleteWave \/ DeleteWaveFails
  <2>1. live' = live \/ \E objs : live' = Terminated(objs)
    BY <1>5 DEF DeleteWave, DeleteWaveFails
  <2>2. QED
    BY <1>1, <2>1, TerminatedEffect
<1>6. ASSUME NEW kind \in HookKinds, CleanupHooks(kind)
      PROVE  IsView(live') /\ \A o \in Objects : ObjectStep(o)
  <2>1. live' = live \/ \E objs : live' = Terminated(objs)
    BY <1>6 DEF CleanupHooks
  <2>2. QED
    BY <1>1, <2>1, TerminatedEffect
<1>7. ASSUME NEW kind \in HookKinds, HooksFail(kind)
      PROVE  IsView(live') /\ \A o \in Objects : ObjectStep(o)
  <2>1. \/ \E objs : live' = Terminated(objs)
        \/ At(kind) /\ \E hooks \in SUBSET Created(kind) : live' = Started(hooks)
    BY <1>7 DEF HooksFail
  <2>2. UNCHANGED <<app, due, excuses>>
    BY <1>7 DEF HooksFail, ghosts
  <2>3. QED
    BY <2>1, <2>2, TerminatedEffect, StartedEffect
<1>8. ASSUME NEW o \in Objects, Vanish(o)
      PROVE  IsView(live') /\ \A p \in Objects : ObjectStep(p)
  BY <1>8 DEF Vanish, IsView, ObjectStep, States, ObjectStates, Hooks, Objects
<1>9. ASSUME NEW h \in Hooks, NEW outcome \in HookOutcomes, HookFinishes(h, outcome)
      PROVE  IsView(live') /\ \A p \in Objects : ObjectStep(p)
  <2>1. live[h] = "progressing" /\ (outcome = "healthy" => h \in ran')
    BY <1>9 DEF HookFinishes
  <2>2. \A p \in Objects : live'[p] = IF p = h THEN outcome ELSE live[p]
    BY <1>9 DEF HookFinishes, IsView
  <2>3. live' \in [Objects -> States]
    BY <1>9, DeletionAssumption, ZenonT(60) DEF HookFinishes, IsView, States
  <2>4. \A p \in Hooks : live'[p] \in ObjectStates(p)
    BY <2>2 DEF IsView, ObjectStates, Objects
  <2>5. QED
    BY <2>1, <2>2, <2>3, <2>4 DEF IsView, ObjectStep
<1>10. CASE \/ \E r \in Requests : ApiRead(r) \/ ApiPatch(r) \/ ApiDelete(r)
            \/ ApproveDeletion \/ FinalizeApplicationDeletion \/ CascadeDone \/ FinalizerPatch
            \/ UnknownCluster \/ PassFails \/ RefreshStart \/ FinalizeProjectDeletion
            \/ \E kind \in HookKinds : RefreshFinalizers(kind) \/ Commit(kind)
            \/ AutoSync \/ RefreshPersist \/ Restart \/ WatchApplication
            \/ \E o \in Objects : WatchObject(o)
            \/ UNCHANGED vars
  <2>1. live' = live
    BY <1>10, ZenonT(60) DEF ApiRead, ApiPatch, ApiDelete, ApproveDeletion, FinalizeApplicationDeletion, CascadeDone,
         FinalizerPatch, UnknownCluster, PassFails, RefreshStart, FinalizeProjectDeletion,
         RefreshFinalizers, Commit, AutoSync, RefreshPersist, Restart, WatchApplication, WatchObject, vars
  <2>2. QED
    BY <1>1, <2>1
<1>11. QED
  BY <1>2, <1>3, <1>4, <1>5, <1>6, <1>7, <1>8, <1>9, <1>10 DEF Next, Step, WorkerPass

\* The history grows.
LEMMA HistoryGrows ==
    ASSUME [Next]_vars
    PROVE  ran \subseteq ran' /\ excuses \subseteq excuses'
<1>1. ran \subseteq ran'
  BY ZenonT(60) DEF Next, Step, WorkerPass, ApiRead, ApiPatch, ApiDelete, ApproveDeletion, RunOperation,
         FinalizeApplicationDeletion, PreDeleteHooks, DeleteWave, CascadeDone, PostDeleteHooks,
         CleanupHooks, FinalizerPatch, HooksFail, Commit, UnknownCluster, PassFails, DeleteWaveFails,
         RefreshStart, RefreshFinalizers, FinalizeProjectDeletion, Vanish, HookFinishes, AutoSync,
         RefreshPersist, Restart, WatchApplication, WatchObject, ghosts, vars
<1>2. excuses \subseteq excuses'
  BY ZenonT(60) DEF Next, Step, WorkerPass, ApiRead, ApiPatch, ApiDelete, ApproveDeletion, RunOperation,
         FinalizeApplicationDeletion, PreDeleteHooks, DeleteWave, CascadeDone, PostDeleteHooks,
         CleanupHooks, FinalizerPatch, HooksFail, Commit, UnknownCluster, PassFails, DeleteWaveFails,
         RefreshStart, RefreshFinalizers, FinalizeProjectDeletion, Vanish, HookFinishes, AutoSync,
         RefreshPersist, Restart, WatchApplication, WatchObject, ghosts, vars, ExecuteHooks, AfterHooks,
         AfterPatch
<1>3. QED
  BY <1>1, <1>2

-----------------------------------------------------------------------------
(* How a step changes the workers and the requests. *)

\* A pass that finds its hooks completed, or cleaned up.
HooksDone(kind) ==
    /\ At(kind) /\ Created(kind) = {} /\ Failed(kind) = {}
    /\ \A h \in Running(kind) : ~StillRunning(h)
    /\ worker'.pc \in {"patch", "patchPre"} /\ worker'.fin = worker.fin \ {kind}
    /\ excuses' = AfterHooks(kind)
    /\ UNCHANGED <<app, live, git, due, ran>>
CleanupDone(kind) ==
    /\ At(Cleanup(kind)) /\ CleanedUp(kind) = {}
    /\ worker'.pc = "patch" /\ worker'.fin = worker.fin \ {Cleanup(kind)}
    /\ UNCHANGED <<app, live, git, due, ran, excuses>>
CascadeIsDone ==
    /\ worker.pc = "relist" /\ ShouldBeDeleted(seen) = {}
    /\ worker'.pc = "patch" /\ worker'.fin = worker.fin \ {"cascade"}
    /\ excuses' = IF ShouldBeDeleted(live) = {} THEN excuses ELSE excuses \cup {"stale"}
    /\ UNCHANGED <<app, live, git, due, ran>>

WorkerStep ==
    \/ worker' = worker
    \/ worker' = Idle
    \/ UnknownCluster \/ FinalizeApplicationDeletion
    \/ worker.pc = "branch" /\ worker'.pc = "relist" /\ worker'.fin = worker.fin /\ UNCHANGED <<app, git, due>>
    \/ CascadeIsDone
    \/ \E kind \in HookKinds : HooksDone(kind) \/ CleanupDone(kind)
    \/ WorkerPatches /\ worker.pc = "patchPre" /\ worker'.pc = "branch" /\ worker'.fin = worker.fin

LEMMA UpdateEffect ==
    ASSUME worker \in WorkerType, NEW pc \in {"patch", "patchPre"}, NEW fin \in SUBSET Finalizers,
           UpdateFinalizers(pc, fin)
    PROVE  worker' \in WorkerType /\ worker'.pc = pc /\ worker'.fin = fin
  BY ZenonT(60) DEF UpdateFinalizers, WorkerType

LEMMA IdleType == Idle \in WorkerType
  BY DEF Idle, WorkerType

LEMMA ExecuteHooksDone ==
    ASSUME worker \in WorkerType, NEW kind \in HookKinds, At(kind), ExecuteHooks(kind),
           UNCHANGED <<app, git, due, ran>>
    PROVE  worker' \in WorkerType /\ (worker' = Idle \/ HooksDone(kind))
<1>1. CASE worker' = Idle
  BY <1>1, IdleType
<1>2. CASE /\ Created(kind) = {} /\ Failed(kind) = {} /\ {h \in Running(kind) : StillRunning(h)} = {}
           /\ UpdateFinalizers(IF kind = "pre" THEN "patchPre" ELSE "patch", worker.fin \ {kind})
           /\ excuses' = AfterHooks(kind) /\ live' = live
  <2>1. worker.fin \ {kind} \in SUBSET Finalizers
    BY DEF WorkerType
  <2>2. /\ worker' \in WorkerType /\ worker'.pc \in {"patch", "patchPre"}
        /\ worker'.fin = worker.fin \ {kind}
    BY <1>2, <2>1, UpdateEffect
  <2>3. QED
    BY <1>2, <2>2 DEF HooksDone
<1>3. QED
  BY <1>1, <1>2 DEF ExecuteHooks, Return

LEMMA WorkerSteps ==
    ASSUME TypeInv, [Next]_vars
    PROVE  worker' \in WorkerType /\ WorkerStep
<1> USE DEF TypeInv
<1>1. CASE worker' = worker
  BY <1>1 DEF WorkerStep
<1>2. CASE worker' = Idle
  BY <1>2, IdleType DEF WorkerStep
<1>3. CASE UnknownCluster \/ FinalizeApplicationDeletion
  BY <1>3 DEF UnknownCluster, FinalizeApplicationDeletion, WorkerStep, WorkerType, Applications
<1>4. CASE PreDeleteHooks
  BY <1>4, ExecuteHooksDone DEF PreDeleteHooks, HookKinds, WorkerStep
<1>5. CASE PostDeleteHooks
  BY <1>5, ExecuteHooksDone DEF PostDeleteHooks, HookKinds, WorkerStep
<1>6. CASE DeleteWave
  <2>1. CASE worker' = [worker EXCEPT !.pc = "relist"]
    BY <1>6, <2>1 DEF DeleteWave, At, WorkerType, WorkerStep, ghosts
  <2>2. QED
    BY <1>2, <1>6, <2>1 DEF DeleteWave, Return
<1>7. CASE CascadeDone
  <2>1. CASE ShouldBeDeleted(seen) # {}
    BY <1>2, <1>7, <2>1 DEF CascadeDone, Return
  <2>2. CASE ShouldBeDeleted(seen) = {}
    <3>1. UpdateFinalizers("patch", worker.fin \ {"cascade"}) /\ worker.fin \ {"cascade"} \in SUBSET Finalizers
      BY <1>7, <2>2 DEF CascadeDone, UnSetCascadedDeletion, WorkerType
    <3>2. worker' \in WorkerType /\ worker'.pc = "patch" /\ worker'.fin = worker.fin \ {"cascade"}
      BY <3>1, UpdateEffect
    <3>3. CascadeIsDone
      BY <1>7, <2>2, <3>2 DEF CascadeDone, CascadeIsDone
    <3>4. QED
      BY <3>2, <3>3 DEF WorkerStep
  <2>3. QED
    BY <2>1, <2>2
<1>8. ASSUME NEW kind \in HookKinds, CleanupHooks(kind)
      PROVE  worker' \in WorkerType /\ WorkerStep
  <2>1. CASE CleanedUp(kind) # {}
    BY <1>2, <1>8, <2>1 DEF CleanupHooks, Return
  <2>2. CASE CleanedUp(kind) = {}
    <3>1. /\ UpdateFinalizers("patch", worker.fin \ {Cleanup(kind)})
          /\ worker.fin \ {Cleanup(kind)} \in SUBSET Finalizers
      BY <1>8, <2>2 DEF CleanupHooks, WorkerType
    <3>2. worker' \in WorkerType /\ worker'.pc = "patch" /\ worker'.fin = worker.fin \ {Cleanup(kind)}
      BY <3>1, UpdateEffect
    <3>3. CleanupDone(kind)
      BY <1>8, <2>2, <3>2, ZenonT(60) DEF CleanupHooks, CleanupDone, ghosts
    <3>4. QED
      BY <1>8, <3>2, <3>3 DEF WorkerStep
  <2>3. QED
    BY <2>1, <2>2
<1>9. CASE FinalizerPatch
  <2>1. CASE worker' = [worker EXCEPT !.pc = "branch", !.old = worker.fin] /\ worker.pc = "patchPre"
             /\ PatchAccepted(worker.fin) /\ app' = Patched(worker.fin)
    BY <1>9, <2>1, ZenonT(60) DEF WorkerType, WorkerStep, WorkerPatches
  <2>2. QED
    BY <1>2, <1>9, <2>1 DEF FinalizerPatch, Return
<1>10. CASE PassFails \/ DeleteWaveFails \/ Restart \/ \E kind \in HookKinds : HooksFail(kind)
  BY <1>2, <1>10 DEF PassFails, DeleteWaveFails, Restart, HooksFail, Return
<1>11. CASE \/ \E r \in Requests : ApiRead(r) \/ ApiPatch(r) \/ ApiDelete(r)
            \/ ApproveDeletion \/ RunOperation \/ RefreshStart \/ FinalizeProjectDeletion
            \/ \E kind \in HookKinds : RefreshFinalizers(kind) \/ Commit(kind)
            \/ AutoSync \/ RefreshPersist \/ WatchApplication
            \/ \E o \in Objects : WatchObject(o) \/ Vanish(o)
            \/ \E h \in Hooks, outcome \in HookOutcomes : HookFinishes(h, outcome)
            \/ UNCHANGED vars
  <2>1. worker' = worker
    BY <1>11, ZenonT(60) DEF ApiRead, ApiPatch, ApiDelete, ApproveDeletion, RunOperation, RefreshStart,
         FinalizeProjectDeletion, RefreshFinalizers, Commit, AutoSync, RefreshPersist, WatchApplication,
         WatchObject, Vanish, HookFinishes, vars
  <2>2. QED
    BY <1>1, <2>1
<1>12. QED
  BY <1>3, <1>4, <1>5, <1>6, <1>7, <1>8, <1>9, <1>10, <1>11 DEF Next, Step, WorkerPass

RefreshMoves(kind) ==
    /\ RefreshFinalizers(kind)
    /\ refresh'.pc = IF kind = "pre" THEN "post" ELSE "persist"
    /\ refresh'.hooks = refresh.hooks /\ refresh'.copy = refresh.copy
    /\ refresh'.fin = IF HookFinalizersDiffer(kind) THEN WithHookFinalizers(kind, refresh.fin) ELSE refresh.fin
RefreshStep ==
    \/ refresh' = refresh
    \/ RefreshStart
    \/ AutoSync /\ refresh' = [refresh EXCEPT !.pc = "pre"]
    \/ \E kind \in HookKinds : RefreshMoves(kind)
    \/ refresh' = RefreshIdle /\ (RefreshPersist \/ Restart)

LEMMA WithHookFinalizersType ==
    ASSUME NEW kind \in HookKinds, NEW fin \in SUBSET Finalizers
    PROVE  WithHookFinalizers(kind, fin) \in SUBSET Finalizers
  BY ZenonT(60) DEF WithHookFinalizers, Finalizers

LEMMA RefreshSteps ==
    ASSUME TypeInv, [Next]_vars
    PROVE  refresh' \in RefreshType /\ RefreshStep
<1> USE DEF TypeInv
<1>1. CASE refresh' = refresh
  BY <1>1 DEF RefreshStep
<1>2. CASE RefreshStart
  <2>1. refresh' \in RefreshType
    BY <1>2 DEF RefreshStart, RefreshType, Applications
  <2>2. QED
    BY <1>2, <2>1 DEF RefreshStep
<1>3. CASE AutoSync
  <2>1. refresh' = [refresh EXCEPT !.pc = "pre"]
    BY <1>3 DEF AutoSync
  <2>2. refresh' \in RefreshType
    BY <2>1 DEF RefreshType
  <2>3. QED
    BY <1>3, <2>1, <2>2 DEF RefreshStep
<1>4. ASSUME NEW kind \in HookKinds, RefreshFinalizers(kind)
      PROVE  refresh' \in RefreshType /\ RefreshStep
  <2>1. PICK fin \in SUBSET Finalizers :
          fin = IF HookFinalizersDiffer(kind) THEN WithHookFinalizers(kind, refresh.fin) ELSE refresh.fin
    BY WithHookFinalizersType DEF RefreshType
  <2>2. PICK pc \in {"post", "persist"} : pc = IF kind = "pre" THEN "post" ELSE "persist"
    OBVIOUS
  <2>3. refresh' = [refresh EXCEPT !.pc = pc, !.fin = fin]
    BY <1>4, <2>1, <2>2 DEF RefreshFinalizers
  <2>4. /\ refresh' \in RefreshType /\ refresh'.pc = pc /\ refresh'.fin = fin
        /\ refresh'.hooks = refresh.hooks /\ refresh'.copy = refresh.copy
    BY <2>3, ZenonT(60) DEF RefreshType
  <2>5. RefreshMoves(kind)
    BY <1>4, <2>1, <2>2, <2>4 DEF RefreshMoves
  <2>6. QED
    BY <1>4, <2>4, <2>5 DEF RefreshStep
<1>5. CASE RefreshPersist \/ Restart
  <2>1. refresh' = RefreshIdle
    BY <1>5 DEF RefreshPersist, Restart
  <2>2. RefreshIdle \in RefreshType
    BY DEF RefreshIdle, RefreshType
  <2>3. QED
    BY <1>5, <2>1, <2>2 DEF RefreshStep
<1>6. CASE \/ \E r \in Requests : ApiRead(r) \/ ApiPatch(r) \/ ApiDelete(r)
           \/ ApproveDeletion \/ WorkerPass \/ UnknownCluster \/ PassFails \/ DeleteWaveFails
           \/ FinalizeProjectDeletion \/ WatchApplication
           \/ \E kind \in HookKinds : Commit(kind) \/ HooksFail(kind)
           \/ \E o \in Objects : WatchObject(o) \/ Vanish(o)
           \/ \E h \in Hooks, outcome \in HookOutcomes : HookFinishes(h, outcome)
           \/ UNCHANGED vars
  <2>1. refresh' = refresh
    BY <1>6, ZenonT(60) DEF ApiRead, ApiPatch, ApiDelete, ApproveDeletion, WorkerPass, RunOperation,
         FinalizeApplicationDeletion, PreDeleteHooks, DeleteWave, CascadeDone, PostDeleteHooks,
         CleanupHooks, FinalizerPatch, UnknownCluster, PassFails, DeleteWaveFails,
         FinalizeProjectDeletion, WatchApplication, Commit, HooksFail, WatchObject, Vanish,
         HookFinishes, vars
  <2>2. QED
    BY <1>1, <2>1
<1>7. QED
  BY <1>2, <1>3, <1>4, <1>5, <1>6 DEF Next, Step

\* A request patches the list it read with the cascade finalizer added or removed.
RequestWrites(r) ==
    \/ r = "cascade" /\ api[r].fin = api[r].old \cup {"cascade"}
    \/ r = "orphan" /\ api[r].fin = api[r].old \ {"cascade"}

RequestReads(r) ==
    /\ ApiRead(r) /\ app' = app
    /\ api'[r].pc \in {"patch", "delete"}
    /\ api'[r].pc = "patch" => RequestWrites(r)'
    /\ api'[r].pc = "delete" /\ r = "cascade" => app.deleting \/ "cascade" \in app.fin
    /\ api'[r].old = app.fin
    /\ api'[r].fin \subseteq app.fin \cup {"cascade"} /\ app.fin \ api'[r].fin \subseteq {"cascade"}
ApiMoves(r) ==
    /\ \A q \in Requests \ {r} : api'[q] = api[q]
    /\ \/ RequestReads(r)
       \/ api'[r].pc = "delete" /\ api'[r].fin = api[r].fin /\ RequestPatches(r)
       \/ api'[r].pc = "done" /\ api'[r].fin = {}
ApiStep == api' = api \/ \E r \in Requests : ApiMoves(r)

LEMMA ApiReadEffect ==
    ASSUME TypeInv, NEW r \in Requests, ApiRead(r)
    PROVE  api' \in [Requests -> RequestType] /\ ApiStep
<1> USE DEF TypeInv
<1>1. PICK fin : fin = CASE r = "cascade" /\ ~app.deleting -> SetCascadedDeletion(app.fin)
                         [] r = "orphan" -> UnSetCascadedDeletion(app.fin)
                         [] OTHER -> app.fin
  OBVIOUS
<1>2. PICK pc : pc = IF fin # app.fin THEN "patch" ELSE "delete"
  OBVIOUS
<1>3. /\ api' = [api EXCEPT ![r] = IF app.alive THEN [pc |-> pc, old |-> app.fin, fin |-> fin]
                                   ELSE NewRequest("done")]
      /\ app' = app
  BY <1>1, <1>2 DEF ApiRead
<1>4. app.fin \subseteq Finalizers /\ "cascade" \in Finalizers
  BY DEF Applications, Finalizers
<1>5. CASE ~app.alive
  <2>1. NewRequest("done") \in RequestType /\ NewRequest("done").pc = "done" /\ NewRequest("done").fin = {}
    BY DEF NewRequest, RequestType
  <2>2. api'[r] = NewRequest("done") /\ \A q \in Requests \ {r} : api'[q] = api[q]
    BY <1>3, <1>5
  <2>3. api' \in [Requests -> RequestType]
    BY <1>3, <1>5, <2>1
  <2>4. ApiMoves(r)
    BY <2>1, <2>2 DEF ApiMoves
  <2>5. QED
    BY <2>3, <2>4 DEF ApiStep
<1>6. CASE app.alive
  <2>1. /\ fin \in SUBSET Finalizers /\ pc \in {"patch", "delete"}
        /\ fin \subseteq app.fin \cup {"cascade"} /\ app.fin \ fin \subseteq {"cascade"}
        /\ pc = "patch" => \/ r = "cascade" /\ fin = app.fin \cup {"cascade"}
                           \/ r = "orphan" /\ fin = app.fin \ {"cascade"}
        /\ pc = "delete" /\ r = "cascade" => app.deleting \/ "cascade" \in app.fin
    <3>1. CASE r = "cascade" /\ ~app.deleting
      <4>1. fin = app.fin \cup {"cascade"}
        BY <1>1, <3>1 DEF SetCascadedDeletion
      <4>2. QED
        BY <1>2, <1>4, <3>1, <4>1
    <3>2. CASE r = "orphan"
      <4>1. fin = app.fin \ {"cascade"}
        BY <1>1, <3>2 DEF UnSetCascadedDeletion
      <4>2. QED
        BY <1>2, <1>4, <3>2, <4>1
    <3>3. CASE ~(r = "cascade" /\ ~app.deleting) /\ r # "orphan"
      <4>1. fin = app.fin
        BY <1>1, <3>3
      <4>2. QED
        BY <1>2, <1>4, <3>3, <4>1
    <3>4. QED
      BY <3>1, <3>2, <3>3
  <2>2. api' \in [Requests -> RequestType]
    BY <1>3, <1>4, <1>6, <2>1 DEF RequestType
  <2>3. /\ api'[r].pc = pc /\ api'[r].old = app.fin /\ api'[r].fin = fin
        /\ \A q \in Requests \ {r} : api'[q] = api[q]
    BY <1>3, <1>6
  <2>4. pc = "patch" => RequestWrites(r)'
    BY <2>1, <2>3 DEF RequestWrites
  <2>5. RequestReads(r)
    BY <1>3, <2>1, <2>3, <2>4, ZenonT(60) DEF RequestReads
  <2>6. ApiMoves(r)
    BY <2>3, <2>5 DEF ApiMoves
  <2>7. QED
    BY <2>2, <2>6 DEF ApiStep
<1>7. QED
  BY <1>5, <1>6

LEMMA ApiSteps ==
    ASSUME TypeInv, [Next]_vars
    PROVE  api' \in [Requests -> RequestType] /\ ApiStep
<1> USE DEF TypeInv
<1>1. CASE api' = api
  BY <1>1 DEF ApiStep
<1>2. ASSUME NEW r \in Requests, ApiRead(r)
      PROVE  api' \in [Requests -> RequestType] /\ ApiStep
  BY <1>2, ApiReadEffect
<1>3. ASSUME NEW r \in Requests, api' = [api EXCEPT ![r] = NewRequest("done")]
      PROVE  api' \in [Requests -> RequestType] /\ ApiStep
  <2>1. NewRequest("done") \in RequestType /\ NewRequest("done").pc = "done" /\ NewRequest("done").fin = {}
    BY DEF NewRequest, RequestType
  <2>2. QED
    BY <1>3, <2>1 DEF ApiStep, ApiMoves
<1>4. ASSUME NEW r \in Requests, ApiPatch(r)
      PROVE  api' \in [Requests -> RequestType] /\ ApiStep
  <2>1. CASE PatchAccepted(api[r].fin)
    <3>1. api' = [api EXCEPT ![r].pc = "delete"] /\ RequestPatches(r)
      BY <1>4, <2>1 DEF ApiPatch, RequestPatches
    <3>2. /\ api' \in [Requests -> RequestType] /\ api'[r].pc = "delete" /\ api'[r].fin = api[r].fin
          /\ \A q \in Requests \ {r} : api'[q] = api[q]
      BY <3>1 DEF RequestType
    <3>3. QED
      BY <3>1, <3>2 DEF ApiStep, ApiMoves
  <2>2. CASE ~PatchAccepted(api[r].fin)
    BY <1>3, <1>4, <2>2 DEF ApiPatch
  <2>3. QED
    BY <2>1, <2>2
<1>5. ASSUME NEW r \in Requests, ApiDelete(r)
      PROVE  api' \in [Requests -> RequestType] /\ ApiStep
  BY <1>3, <1>5, ZenonT(60) DEF ApiDelete
<1>6. CASE \/ ApproveDeletion \/ WorkerPass \/ UnknownCluster \/ PassFails \/ DeleteWaveFails
           \/ RefreshStart \/ FinalizeProjectDeletion \/ WatchApplication
           \/ \E kind \in HookKinds : Commit(kind) \/ HooksFail(kind) \/ RefreshFinalizers(kind)
           \/ \E o \in Objects : WatchObject(o) \/ Vanish(o)
           \/ \E h \in Hooks, outcome \in HookOutcomes : HookFinishes(h, outcome)
           \/ AutoSync \/ RefreshPersist \/ Restart \/ UNCHANGED vars
  <2>1. api' = api
    BY <1>6, ZenonT(60) DEF ApproveDeletion, WorkerPass, RunOperation,
         FinalizeApplicationDeletion, PreDeleteHooks, DeleteWave, CascadeDone, PostDeleteHooks,
         CleanupHooks, FinalizerPatch, UnknownCluster, PassFails, DeleteWaveFails, RefreshStart,
         FinalizeProjectDeletion, WatchApplication, Commit, HooksFail, RefreshFinalizers, WatchObject,
         Vanish, HookFinishes, AutoSync, RefreshPersist, Restart, vars
  <2>2. QED
    BY <1>1, <2>1
<1>7. QED
  BY <1>2, <1>4, <1>5, <1>6 DEF Next, Step

-----------------------------------------------------------------------------
(* Types and control. *)

LEMMA TypeInit == Init => TypeInv
<1> SUFFICES ASSUME Init PROVE TypeInv
  OBVIOUS
<1>1. PICK plan \in Plans :
        /\ app = [alive |-> TRUE, deleting |-> FALSE, fin |-> plan.declared, op |-> FALSE, approved |-> FALSE]
        /\ api = [r \in Requests |-> NewRequest(IF r \in plan.requests THEN "idle" ELSE "done")]
        /\ git = plan.git
  BY ZenonT(60) DEF Init
<1>2. plan.declared \subseteq Finalizers /\ plan.git \subseteq HookKinds
  BY DeletionAssumption DEF PlanType, Finalizers
<1>3. app \in Applications /\ cached \in Applications /\ git \subseteq HookKinds
  BY <1>1, <1>2 DEF Init, Applications
<1>4. api \in [Requests -> RequestType]
  BY <1>1 DEF NewRequest, RequestType
<1>5. worker \in WorkerType
  BY IdleType DEF Init
<1>6. refresh \in RefreshType
  BY ZenonT(60) DEF Init, RefreshIdle, RefreshType
<1>7. live \in [Objects -> States] /\ seen = live
  BY DEF Init, States
<1>8. \A h \in Hooks : live[h] = "absent"
  BY DeletionAssumption, ZenonT(60) DEF Init, Hooks, Objects
<1>9. QED
  BY <1>3, <1>4, <1>5, <1>6, <1>7, <1>8 DEF TypeInv, IsView, ObjectStates

LEMMA TypeStep ==
    ASSUME TypeInv, [Next]_vars
    PROVE  TypeInv'
<1>1. app' \in Applications /\ IsView(live') /\ worker' \in WorkerType /\ refresh' \in RefreshType
      /\ api' \in [Requests -> RequestType]
  BY AppSteps, ObjectSteps, WorkerSteps, RefreshSteps, ApiSteps
<1>2. cached' \in Applications /\ IsView(seen')
  BY <1>1, CachesSteps DEF CachesStep, TypeInv
<1>3. git' \subseteq HookKinds
  <2>1. CASE \E kind \in HookKinds : Commit(kind)
    BY <2>1 DEF Commit, TypeInv
  <2>2. CASE ~\E kind \in HookKinds : Commit(kind)
    <3>1. git' = git
      BY <2>2, ZenonT(60) DEF Next, Step, WorkerPass, ApiRead, ApiPatch, ApiDelete, ApproveDeletion, RunOperation,
         FinalizeApplicationDeletion, PreDeleteHooks, DeleteWave, CascadeDone, PostDeleteHooks,
         CleanupHooks, FinalizerPatch, HooksFail, UnknownCluster, PassFails, DeleteWaveFails,
         RefreshStart, RefreshFinalizers, FinalizeProjectDeletion, Vanish, HookFinishes, AutoSync,
         RefreshPersist, Restart, WatchApplication, WatchObject, vars
    <3>2. QED
      BY <3>1 DEF TypeInv
  <2>3. QED
    BY <2>1, <2>2
<1>4. QED
  BY <1>1, <1>2, <1>3 DEF TypeInv, IsView, ObjectStates

\* An application that is being deleted stays so until it is gone, and then it stays gone.
LEMMA Onwards ==
    ASSUME TypeInv, [Next]_vars
    PROVE  /\ app'.alive => app.alive
           /\ app.deleting /\ app'.alive => app'.deleting
           /\ (~app.alive => ~app.deleting /\ app.fin = {}) => (~app'.alive => ~app'.deleting /\ app'.fin = {})
<1> USE DEF TypeInv
<1>1. AppStep
  BY AppSteps
<1>2. ASSUME NEW fin \in SUBSET Finalizers, PatchAccepted(fin), app' = Patched(fin)
      PROVE  /\ app'.alive => app.alive
             /\ app.deleting /\ app'.alive => app'.deleting
             /\ ~app'.alive => ~app'.deleting /\ app'.fin = {}
  BY <1>2, PatchedEffect, ZenonT(60)
<1>3. CASE AppKept
  BY <1>3 DEF AppKept
<1>4. ASSUME NEW r \in Requests, RequestPatches(r)
      PROVE  /\ app'.alive => app.alive
             /\ app.deleting /\ app'.alive => app'.deleting
             /\ ~app'.alive => ~app'.deleting /\ app'.fin = {}
  <2>1. api[r].fin \in SUBSET Finalizers
    BY DEF RequestType
  <2>2. QED
    BY <1>2, <1>4, <2>1, ZenonT(60) DEF RequestPatches
<1>5. ASSUME NEW r \in Requests, Deletes(r)
      PROVE  /\ app'.alive => app.alive
             /\ app.deleting /\ app'.alive => app'.deleting
             /\ ~app'.alive => ~app'.deleting /\ app'.fin = {}
  BY <1>5, DeletesEffect DEF Deletes
<1>6. CASE WorkerPatches
  <2>1. worker.fin \in SUBSET Finalizers
    BY DEF WorkerType
  <2>2. QED
    BY <1>2, <1>6, <2>1 DEF WorkerPatches
<1>7. ASSUME NEW kind \in HookKinds, RefreshPatches(kind)
      PROVE  /\ app'.alive => app.alive
             /\ app.deleting /\ app'.alive => app'.deleting
             /\ ~app'.alive => ~app'.deleting /\ app'.fin = {}
  <2>1. WithHookFinalizers(kind, refresh.fin) \in SUBSET Finalizers
    BY WithHookFinalizersType DEF RefreshType
  <2>2. QED
    BY <1>2, <1>7, <2>1 DEF RefreshPatches
<1>8. QED
  BY <1>1, <1>3, <1>4, <1>5, <1>6, <1>7, ZenonT(60) DEF AppStep

LEMMA ControlInit == Init => ControlInv
<1> SUFFICES ASSUME Init PROVE ControlInv
  OBVIOUS
<1>1. PICK plan \in Plans :
        /\ app = [alive |-> TRUE, deleting |-> FALSE, fin |-> plan.declared, op |-> FALSE, approved |-> FALSE]
        /\ api = [r \in Requests |-> NewRequest(IF r \in plan.requests THEN "idle" ELSE "done")]
        /\ proj = plan.proj
  BY ZenonT(60) DEF Init
<1>2. app.alive /\ ~app.deleting /\ cached = app /\ seen = live
  BY <1>1 DEF Init
<1>3. proj # "gone"
  BY <1>1, DeletionAssumption DEF PlanType
<1>4. worker.pc = "idle" /\ ~refresh.copy.deleting /\ refresh.copy.fin = {} /\ refresh.fin = {}
  BY ZenonT(60) DEF Init, Idle, RefreshIdle
<1>5. \A r \in Requests : api[r].pc # "patch"
  BY <1>1, ZenonT(60) DEF NewRequest
<1>6. QED
  BY <1>2, <1>3, <1>4, <1>5, ZenonT(60) DEF ControlInv

\* A worker that is not idle works on an application that is being deleted.
LEMMA WorkerStarts ==
    ASSUME TypeInv, ControlInv, [Next]_vars, worker'.pc # "idle"
    PROVE  /\ app.deleting \/ ~app.alive
           /\ worker'.pc = "strip" => worker'.fin = {}
<1> USE DEF TypeInv
<1>1. WorkerStep
  BY WorkerSteps
<1>2. CASE UnknownCluster \/ FinalizeApplicationDeletion
  <2>1. app.deleting
    BY <1>2, ZenonT(60) DEF UnknownCluster, FinalizeApplicationDeletion, StartsPass, ControlInv
  <2>2. app.fin \subseteq Finalizers
    BY DEF Applications
  <2>3. worker'.pc = "strip" => worker'.fin = {}
    BY <1>2, <2>2, SMTT(60) DEF UnknownCluster, FinalizeApplicationDeletion
  <2>4. QED
    BY <2>1, <2>3
<1>3. CASE worker' = worker
  BY <1>3 DEF ControlInv
<1>4. worker' # Idle
  BY DEF Idle
<1>5. CASE worker.pc = "branch" /\ worker'.pc = "relist"
  BY <1>5 DEF ControlInv
<1>6. CASE CascadeIsDone
  BY <1>6, ZenonT(60) DEF CascadeIsDone, ControlInv
<1>7. ASSUME NEW kind \in HookKinds, HooksDone(kind) \/ CleanupDone(kind)
      PROVE  /\ app.deleting \/ ~app.alive
             /\ worker'.pc = "strip" => worker'.fin = {}
  BY <1>7, ZenonT(60) DEF HooksDone, CleanupDone, At, ControlInv
<1>8. CASE worker.pc = "patchPre" /\ worker'.pc = "branch"
  BY <1>8, ZenonT(60) DEF ControlInv
<1>9. QED
  BY <1>1, <1>2, <1>3, <1>4, <1>5, <1>6, <1>7, <1>8, ZenonT(60) DEF WorkerStep

LEMMA RefreshControl ==
    ASSUME TypeInv, ControlInv, [Next]_vars
    PROVE  /\ refresh'.copy.deleting => refresh.copy.deleting \/ cached.deleting
           /\ "cascade" \in refresh'.copy.fin <=> "cascade" \in refresh'.fin
<1> USE DEF TypeInv
<1>1. RefreshStep
  BY RefreshSteps
<1>2. CASE refresh' = refresh
  BY <1>2, ZenonT(60) DEF ControlInv
<1>3. CASE RefreshStart
  BY <1>3, ZenonT(60) DEF RefreshStart
<1>4. CASE refresh' = [refresh EXCEPT !.pc = "pre"]
  BY <1>4 DEF ControlInv, RefreshType
<1>5. ASSUME NEW kind \in HookKinds, RefreshMoves(kind)
      PROVE  /\ refresh'.copy.deleting => refresh.copy.deleting
             /\ "cascade" \in refresh'.copy.fin <=> "cascade" \in refresh'.fin
  <2>1. "cascade" \in WithHookFinalizers(kind, refresh.fin) <=> "cascade" \in refresh.fin
    BY <1>5 DEF WithHookFinalizers, HookFinalizers, HookKinds, Cleanup
  <2>2. QED
    BY <1>5, <2>1, ZenonT(60) DEF RefreshMoves, ControlInv
<1>6. CASE refresh' = RefreshIdle
  BY <1>6 DEF RefreshIdle
<1>7. QED
  BY <1>1, <1>2, <1>3, <1>4, <1>5, <1>6 DEF RefreshStep

LEMMA ControlStep ==
    ASSUME TypeInv, ControlInv, [Next]_vars
    PROVE  ControlInv'
<1> USE DEF TypeInv
<1>1. /\ app'.alive => app.alive
      /\ app.deleting /\ app'.alive => app'.deleting
      /\ ~app'.alive => ~app'.deleting /\ app'.fin = {}
  BY Onwards, ZenonT(60) DEF ControlInv
<1>2. CachesStep /\ ("live" \notin lag /\ seen = live => seen' = live') /\ lag' = lag
  BY ObjectSteps, CachesSteps
<1>3. /\ cached'.deleting /\ app'.alive => app'.deleting
      /\ ~cached'.alive => ~app'.alive
  BY <1>1, <1>2, ZenonT(60) DEF CachesStep, ControlInv
<1>4. refresh'.copy.deleting /\ app'.alive => app'.deleting
  BY <1>1, RefreshControl, ZenonT(60) DEF ControlInv
<1>5. proj' = "gone" => ~app'.alive
  <2>1. CASE FinalizeProjectDeletion
    BY <1>1, <2>1, ZenonT(60) DEF FinalizeProjectDeletion, ControlInv
  <2>2. CASE ~FinalizeProjectDeletion
    <3>1. proj' = proj
      BY <2>2, ZenonT(60) DEF Next, Step, WorkerPass, ApiRead, ApiPatch, ApiDelete, ApproveDeletion, RunOperation,
         FinalizeApplicationDeletion, PreDeleteHooks, DeleteWave, CascadeDone, PostDeleteHooks,
         CleanupHooks, FinalizerPatch, HooksFail, UnknownCluster, PassFails, DeleteWaveFails,
         RefreshStart, RefreshFinalizers, Commit, Vanish, HookFinishes, AutoSync,
         RefreshPersist, Restart, WatchApplication, WatchObject, vars
    <3>2. QED
      BY <1>1, <3>1, ZenonT(60) DEF ControlInv
  <2>3. QED
    BY <2>1, <2>2
<1>6. /\ worker'.pc # "idle" => app'.deleting \/ ~app'.alive
      /\ worker'.pc = "strip" => worker'.fin = {}
  BY <1>1, WorkerStarts, ZenonT(60)
<1>7. \A r \in Requests : api'[r].pc = "patch" => RequestWrites(r)'
  <2> SUFFICES ASSUME NEW r \in Requests, api'[r].pc = "patch" PROVE RequestWrites(r)'
    OBVIOUS
  <2>1. CASE api'[r] = api[r]
    BY <2>1, ZenonT(60) DEF ControlInv, RequestWrites
  <2>2. CASE ApiMoves(r)
    BY <2>2, ZenonT(60) DEF ApiMoves, RequestReads
  <2>3. QED
    BY <2>1, <2>2, ApiSteps, ZenonT(60) DEF ApiStep, ApiMoves
<1>8. "live" \notin lag' => seen' = live'
  BY <1>2, ZenonT(60) DEF ControlInv
<1>9. QED
  BY <1>1, <1>3, <1>4, <1>5, <1>6, <1>7, <1>8, RefreshControl, ZenonT(60) DEF ControlInv, RequestWrites

-----------------------------------------------------------------------------
(* Nothing outlives a cascaded deletion. *)

Without(set) == excuses \cap set = {}
Busy == worker.pc \in {"branch", "relist", "patch", "patchPre"}
ResourcesGone == ShouldBeDeleted(live) \cap Resources = {}

\* The deletion has begun, and did not end by dropping the finalizers.
Doomed == app.deleting \/ (~app.alive /\ "cluster" \notin excuses)

CascadeExcuses == {"orphan", "overwritten", "lateSync", "stale"}

\* The cascade finalizer stays, in the API and in the worker's copy, until the resources are
\* gone; and a cascading request finds or sets it before it deletes.
CascadeInv ==
    Without(CascadeExcuses) =>
      /\ Doomed /\ "cascade" \in due \ app.fin => ResourcesGone
      /\ Busy /\ "cascade" \in due \ worker.fin => ResourcesGone
      /\ api["cascade"].pc = "delete" /\ app.alive /\ ~app.deleting => "cascade" \in app.fin

LEMMA WithoutBefore ==
    ASSUME [Next]_vars, NEW set, Without(set)'
    PROVE  Without(set)
  BY HistoryGrows DEF Without

\* A pass that goes on neither ended nor met an unknown cluster.
LEMMA StaysBusy ==
    ASSUME Busy'
    PROVE  worker' # Idle /\ ~UnknownCluster
<1>1. worker'.pc # "idle" /\ worker'.pc # "strip"
  BY DEF Busy
<1>2. worker' # Idle
  BY <1>1 DEF Idle
<1>3. ASSUME UnknownCluster
      PROVE  worker'.pc = "strip"
  BY <1>3, ZenonT(60) DEF UnknownCluster
<1>4. QED
  BY <1>1, <1>2, <1>3

LEMMA ResourcesStayGone ==
    ASSUME TypeInv, [Next]_vars, ResourcesGone, ~RunOperation
    PROVE  ResourcesGone'
<1>1. \A o \in Resources : live[o] = "absent" \/ o \in Kept
  BY DEF ResourcesGone, ShouldBeDeleted, Present, Objects
<1>2. \A o \in Objects : live[o] = "absent" /\ o \notin Hooks => live'[o] = "absent"
  BY ObjectSteps DEF ObjectStep
<1>3. \A o \in Resources : live'[o] = "absent" \/ o \in Kept
  BY <1>1, <1>2, DeletionAssumption DEF Objects
<1>4. QED
  BY <1>3 DEF ResourcesGone, ShouldBeDeleted, Present

\* due is fixed once the deletion has begun.
LEMMA DueIsFixed ==
    ASSUME TypeInv, [Next]_vars, app.deleting \/ ~app.alive
    PROVE  due' = due
<1>1. ASSUME NEW r \in Requests, RequestPatches(r)
      PROVE  due' = due
  BY <1>1 DEF RequestPatches, ApiPatch
<1>2. QED
  BY <1>1, AppSteps, ZenonT(60) DEF AppStep, Deletes, WorkerPatches, FinalizerPatch, RefreshPatches

\* A patch that drops a finalizer its writer did not read overwrites it.
LEMMA OverwritesDropped ==
    ASSUME NEW old, NEW fin, NEW f \in app.fin, f \notin fin, f \notin old
    PROVE  "overwritten" \in AfterPatch(old, fin)
  BY DEF AfterPatch, Overwrites

\* An accepted patch of a worker or of a request, by what it does to the cascade finalizer.
LEMMA CascadePatched ==
    ASSUME TypeInv, ControlInv, CascadeInv, [Next]_vars, Without(CascadeExcuses)', Doomed',
           "cascade" \in due' \ app'.fin, ~AppKept \/ due' # due
    PROVE  ResourcesGone /\ live' = live
<1> USE DEF TypeInv
<1>1. Without(CascadeExcuses)
  BY WithoutBefore
<1>2. ASSUME NEW r \in Requests, RequestPatches(r)
      PROVE  FALSE
  <2>1. api[r].fin \in SUBSET Finalizers
    BY DEF RequestType
  <2>2. r = "orphan" => "orphan" \in excuses'
    BY <1>2 DEF RequestPatches, ApiPatch
  <2>3. RequestWrites(r)
    BY <1>2 DEF RequestPatches, ApiPatch, ControlInv, RequestWrites
  <2>4. r = "cascade" /\ "cascade" \in api[r].fin
    BY <2>2, <2>3 DEF RequestWrites, Without, CascadeExcuses
  <2>5. app'.fin = api[r].fin
    BY <1>2, <2>1, PatchedEffect, ZenonT(60) DEF RequestPatches
  <2>6. QED
    BY <2>4, <2>5
<1>3. ASSUME NEW r \in Requests, Deletes(r)
      PROVE  FALSE
  <2>1. "cascade" \in app.fin \/ r = "cascade"
    BY <1>3, DeletesEffect
  <2>2. r = "cascade" => "cascade" \in app.fin
    BY <1>1, <1>3 DEF Deletes, ApiDelete, CascadeInv
  <2>3. QED
    BY <1>3, <2>1, <2>2, DeletesEffect, ZenonT(60)
<1>4. CASE WorkerPatches
  <2>1. worker.fin \in SUBSET Finalizers /\ live' = live /\ due' = due
    BY <1>4 DEF WorkerPatches, FinalizerPatch, WorkerType
  <2>2. app'.fin = worker.fin /\ app.alive /\ (app'.alive <=> ~(app.deleting /\ worker.fin = {}))
        /\ (app'.deleting <=> app.deleting /\ worker.fin # {})
    BY <1>4, <2>1, PatchedEffect, ZenonT(60) DEF WorkerPatches
  <2>3. worker.pc # "strip"
    <3>1. SUFFICES ASSUME worker.pc = "strip" PROVE FALSE
      OBVIOUS
    <3>2. "cluster" \in excuses'
      BY <1>4, <3>1, <2>2 DEF WorkerPatches, FinalizerPatch, ControlInv
    <3>3. worker.fin = {} /\ app.deleting
      BY <2>2, <3>1, ZenonT(60) DEF ControlInv
    <3>4. QED
      BY <2>2, <3>2, <3>3, ZenonT(60) DEF Doomed
  <2>4. Busy
    BY <1>4, <2>3 DEF WorkerPatches, FinalizerPatch, Busy
  <2>5. QED
    BY <1>1, <2>1, <2>2, <2>4, ZenonT(60) DEF CascadeInv
<1>5. ASSUME NEW kind \in HookKinds, RefreshPatches(kind)
      PROVE  ResourcesGone /\ live' = live
  <2>1. PICK fin \in SUBSET Finalizers : fin = WithHookFinalizers(kind, refresh.fin)
    BY WithHookFinalizersType DEF RefreshType
  <2>2. /\ app' = Patched(fin) /\ PatchAccepted(fin) /\ live' = live /\ due' = due
        /\ excuses' = AfterPatch(refresh.copy.fin, fin) \cup (IF app.deleting THEN {"lateUnset"} ELSE {})
    BY <1>5, <2>1 DEF RefreshPatches
  <2>3. app'.fin = fin /\ app.alive /\ (app'.alive <=> ~(app.deleting /\ fin = {}))
        /\ (app'.deleting <=> app.deleting /\ fin # {})
    BY <2>2, PatchedEffect, ZenonT(60)
  <2>4. app.deleting
    BY <2>3, ZenonT(60) DEF Doomed
  <2>5. "cascade" \notin refresh.copy.fin
    BY <2>1, <2>3, ZenonT(60) DEF WithHookFinalizers, HookFinalizers, HookKinds, Cleanup, ControlInv
  <2>6. "cascade" \notin app.fin
    BY <2>2, <2>3, <2>5, OverwritesDropped, ZenonT(60) DEF Without, CascadeExcuses
  <2>7. QED
    BY <1>1, <2>2, <2>4, <2>6, ZenonT(60) DEF CascadeInv, Doomed
<1>6. QED
  BY <1>2, <1>3, <1>4, <1>5, AppSteps, ZenonT(60) DEF AppStep

LEMMA CascadeStep ==
    ASSUME TypeInv, ControlInv, CascadeInv, [Next]_vars
    PROVE  CascadeInv'
<1> USE DEF TypeInv
<1> SUFFICES ASSUME Without(CascadeExcuses)'
             PROVE  /\ Doomed' /\ "cascade" \in due' \ app'.fin => ResourcesGone'
                    /\ Busy' /\ "cascade" \in due' \ worker'.fin => ResourcesGone'
                    /\ api'["cascade"].pc = "delete" /\ app'.alive /\ ~app'.deleting => "cascade" \in app'.fin
  BY ZenonT(60) DEF CascadeInv
<1>1. Without(CascadeExcuses)
  BY WithoutBefore
<1>2. ASSUME Doomed', "cascade" \in due' \ app'.fin
      PROVE  ResourcesGone'
  <2>1. CASE ~AppKept \/ due' # due
    BY <1>2, <2>1, CascadePatched DEF ResourcesGone, ShouldBeDeleted, Present
  <2>2. CASE AppKept /\ due' = due
    <3>1. Doomed
      BY <1>2, <2>2, HistoryGrows DEF AppKept, Doomed
    <3>2. ResourcesGone
      BY <1>1, <1>2, <2>2, <3>1 DEF CascadeInv, AppKept
    <3>3. ~RunOperation
      <4>1. SUFFICES ASSUME RunOperation PROVE FALSE
        OBVIOUS
      <4>2. app.deleting /\ "cascade" \notin app.fin
        BY <1>2, <2>2, <3>1, <4>1 DEF RunOperation, Doomed, AppKept
      <4>3. "lateSync" \in excuses'
        BY <4>1, <4>2 DEF RunOperation
      <4>4. QED
        BY <4>3 DEF Without, CascadeExcuses
    <3>4. QED
      BY <3>2, <3>3, ResourcesStayGone
  <2>3. QED
    BY <2>1, <2>2
<1>3. ASSUME Busy', "cascade" \in due' \ worker'.fin
      PROVE  ResourcesGone'
  <2>1. app.deleting \/ ~app.alive
    BY <1>3, WorkerStarts, ZenonT(60) DEF Busy
  <2>2. due' = due
    BY <2>1, DueIsFixed
  <2>3. ResourcesGone
    <3>1. CASE Busy /\ worker'.fin = worker.fin
      BY <1>1, <1>3, <2>2, <3>1 DEF CascadeInv
    <3>2. CASE FinalizeApplicationDeletion
      <4>1. worker'.fin = app.fin /\ app.alive
        BY <3>2 DEF FinalizeApplicationDeletion, StartsPass
      <4>2. QED
        BY <1>1, <1>3, <2>1, <2>2, <4>1 DEF CascadeInv, Doomed
    <3>3. CASE CascadeIsDone
      <4>1. ShouldBeDeleted(live) = {}
        BY <3>3, ZenonT(60) DEF CascadeIsDone, Without, CascadeExcuses
      <4>2. QED
        BY <4>1 DEF ResourcesGone
    <3>4. ASSUME NEW kind \in HookKinds, HooksDone(kind) \/ CleanupDone(kind)
          PROVE  ResourcesGone
      <4>1. Busy
        BY <3>4, ZenonT(60) DEF HooksDone, CleanupDone, At, Busy
      <4>2. "cascade" \notin worker.fin
        BY <1>3, <3>4, ZenonT(60) DEF HooksDone, CleanupDone, HookKinds, Cleanup
      <4>3. QED
        BY <1>1, <1>3, <2>2, <4>1, <4>2, ZenonT(60) DEF CascadeInv
    <3>5. worker' # Idle /\ ~UnknownCluster
      BY <1>3, StaysBusy
    <3>6. QED
      BY <1>3, <3>1, <3>2, <3>3, <3>4, <3>5, WorkerSteps, ZenonT(60) DEF WorkerStep, Busy
  <2>4. ~RunOperation
    BY <1>3 DEF RunOperation, Busy
  <2>5. QED
    BY <2>3, <2>4, ResourcesStayGone
<1>4. ASSUME api'["cascade"].pc = "delete", app'.alive, ~app'.deleting
      PROVE  "cascade" \in app'.fin
  <2>1. app.alive /\ ~app.deleting
    BY <1>4, Onwards, ZenonT(60)
  <2>2. CASE ApiMoves("cascade")
    <3>1. CASE RequestReads("cascade")
      BY <1>4, <2>1, <3>1 DEF RequestReads
    <3>2. CASE RequestPatches("cascade")
      <4>1. api["cascade"].fin \in SUBSET Finalizers
        BY DEF RequestType, Requests
      <4>2. app'.fin = api["cascade"].fin
        BY <3>2, <4>1, PatchedEffect, ZenonT(60) DEF RequestPatches
      <4>3. RequestWrites("cascade")
        BY <3>2 DEF RequestPatches, ApiPatch, ControlInv, RequestWrites, Requests
      <4>4. QED
        BY <4>2, <4>3 DEF RequestWrites
    <3>3. QED
      BY <1>4, <2>2, <3>1, <3>2, ZenonT(60) DEF ApiMoves
  <2>3. CASE api'["cascade"] = api["cascade"]
    <3>1. "cascade" \in app.fin
      BY <1>1, <1>4, <2>1, <2>3 DEF CascadeInv
    <3>2. CASE AppKept
      BY <3>1, <3>2 DEF AppKept
    <3>3. ASSUME NEW r \in Requests, RequestPatches(r)
          PROVE  "cascade" \in app'.fin
      <4>1. api[r].fin \in SUBSET Finalizers
        BY DEF RequestType
      <4>2. app'.fin = api[r].fin
        BY <3>3, <4>1, PatchedEffect, ZenonT(60) DEF RequestPatches
      <4>3. RequestWrites(r) /\ (r = "orphan" => "orphan" \in excuses')
        BY <3>3 DEF RequestPatches, ApiPatch, ControlInv, RequestWrites
      <4>4. QED
        BY <4>2, <4>3 DEF RequestWrites, Without, CascadeExcuses
    <3>4. ASSUME NEW r \in Requests, Deletes(r)
          PROVE  "cascade" \in app'.fin
      BY <3>1, <3>4, DeletesEffect
    <3>5. CASE WorkerPatches
      BY <2>1, <3>5 DEF WorkerPatches, FinalizerPatch, ControlInv
    <3>6. ASSUME NEW kind \in HookKinds, RefreshPatches(kind)
          PROVE  "cascade" \in app'.fin
      <4>1. PICK fin \in SUBSET Finalizers : fin = WithHookFinalizers(kind, refresh.fin)
        BY WithHookFinalizersType DEF RefreshType
      <4>2. /\ app' = Patched(fin) /\ PatchAccepted(fin)
            /\ excuses' = AfterPatch(refresh.copy.fin, fin) \cup (IF app.deleting THEN {"lateUnset"} ELSE {})
        BY <3>6, <4>1 DEF RefreshPatches
      <4>3. app'.fin = fin
        BY <4>2, PatchedEffect, ZenonT(60)
      <4>4. "cascade" \in fin <=> "cascade" \in refresh.copy.fin
        BY <4>1, ZenonT(60) DEF WithHookFinalizers, HookFinalizers, HookKinds, Cleanup, ControlInv
      <4>5. QED
        BY <3>1, <4>2, <4>3, <4>4, OverwritesDropped, ZenonT(60) DEF Without, CascadeExcuses
    <3>7. QED
      BY <3>2, <3>3, <3>4, <3>5, <3>6, AppSteps, ZenonT(60) DEF AppStep
  <2>4. QED
    BY <2>2, <2>3, ApiSteps, ZenonT(60) DEF ApiStep, ApiMoves, Requests
<1>5. QED
  BY <1>2, <1>3, <1>4, ZenonT(60)

LEMMA CascadeInit == Init => CascadeInv
<1> SUFFICES ASSUME Init PROVE CascadeInv
  OBVIOUS
<1>1. due = {}
  BY ZenonT(60) DEF Init
<1>2. api["cascade"].pc # "delete"
  BY SMTT(60) DEF Init, NewRequest, Requests
<1>3. QED
  BY <1>1, <1>2 DEF CascadeInv

\* Types and control hold in every behaviour.
LEMMA Controlled == Spec => [](TypeInv /\ ControlInv)
<1>1. Init => TypeInv /\ ControlInv
  BY TypeInit, ControlInit
<1>2. TypeInv /\ ControlInv /\ [Next]_vars => (TypeInv /\ ControlInv)'
  BY TypeStep, ControlStep
<1>3. QED
  BY <1>1, <1>2, PTL DEF Spec

\* However requests, the two workers, failing calls, restarts, commits and lagging caches
\* interleave, a cascaded deletion without one of the named excuses leaves no resource behind
\* (finalizeApplicationDeletion).
THEOREM CascadeLeavesNothing == Spec => []NothingOutlivesTheApplication
<1>1. Init => CascadeInv
  BY CascadeInit
<1>2. TypeInv /\ ControlInv /\ CascadeInv /\ [Next]_vars => CascadeInv'
  BY CascadeStep
<1>3. TypeInv /\ ControlInv /\ CascadeInv => NothingOutlivesTheApplication
  BY ZenonT(60) DEF NothingOutlivesTheApplication, ControlInv, CascadeInv, Doomed, Without, CascadeExcuses, ResourcesGone
<1>4. QED
  BY <1>1, <1>2, <1>3, Controlled, PTL DEF Spec

=============================================================================
