--------------------------- MODULE DeleteHookProofs ---------------------------
(***************************************************************************)
(* Proofs about the delete hooks of AppDeletion: that they run, in order,  *)
(* are known to the finalizers and are cleaned up.                         *)
(***************************************************************************)
EXTENDS AppDeletionProofs

-----------------------------------------------------------------------------
(* The hooks that are due complete. *)

\* How the finalizer of a hook gets lost in a deletion: it was not there, or the worker
\* removes it.
LEMMA HookFinalizerLost ==
    ASSUME TypeInv, ControlInv, [Next]_vars, excuses' \cap {"overwritten", "lateUnset"} = {}, Doomed',
           NEW f \in Finalizers \ {"cascade"}, f \notin app'.fin
    PROVE  \/ Doomed /\ f \notin app.fin /\ AppKept /\ due' = due
           \/ Doomed /\ f \notin app.fin /\ UNCHANGED <<live, git, due>>
           \/ Busy /\ f \notin worker.fin /\ app.deleting /\ UNCHANGED <<live, git, due>>
           \/ f \notin app.fin /\ \E r \in Requests : Deletes(r)
<1> USE DEF TypeInv
<1>1. CASE AppKept /\ due' = due
  BY <1>1, HistoryGrows DEF AppKept, Doomed
<1>2. ASSUME NEW r \in Requests, RequestPatches(r)
      PROVE  Doomed /\ f \notin app.fin /\ UNCHANGED <<live, git, due>>
  <2>1. api[r].fin \in SUBSET Finalizers
    BY DEF RequestType
  <2>2. app'.fin = api[r].fin /\ app.alive /\ (app'.alive <=> ~(app.deleting /\ api[r].fin = {}))
        /\ (app'.deleting <=> app.deleting /\ api[r].fin # {})
    BY <1>2, <2>1, PatchedEffect DEF RequestPatches
  <2>3. RequestWrites(r) /\ AfterPatch(api[r].old, api[r].fin) \subseteq excuses' /\ UNCHANGED <<live, git, due>>
    BY <1>2 DEF RequestPatches, ApiPatch, ControlInv, RequestWrites
  <2>4. f \notin api[r].old
    BY <2>2, <2>3 DEF RequestWrites
  <2>5. f \notin app.fin
    BY <2>2, <2>3, <2>4, OverwritesDropped
  <2>6. QED
    BY <2>2, <2>3, <2>5 DEF Doomed
<1>3. ASSUME NEW r \in Requests, Deletes(r)
      PROVE  f \notin app.fin
  BY <1>3, DeletesEffect
<1>4. CASE WorkerPatches
  <2>1. worker.fin \in SUBSET Finalizers /\ UNCHANGED <<live, git, due>>
    BY <1>4 DEF WorkerPatches, FinalizerPatch, WorkerType
  <2>2. app'.fin = worker.fin /\ app.alive /\ (app'.alive <=> ~(app.deleting /\ worker.fin = {}))
        /\ (app'.deleting <=> app.deleting /\ worker.fin # {})
    BY <1>4, <2>1, PatchedEffect DEF WorkerPatches
  <2>3. app.deleting
    BY <1>4, <2>2 DEF WorkerPatches, FinalizerPatch, ControlInv
  <2>4. worker.pc # "strip"
    <3>1. SUFFICES ASSUME worker.pc = "strip" PROVE FALSE
      OBVIOUS
    <3>2. "cluster" \in excuses'
      BY <1>4, <3>1, <2>2 DEF WorkerPatches, FinalizerPatch, ControlInv
    <3>3. QED
      BY <2>2, <2>3, <3>1, <3>2 DEF Doomed, ControlInv
  <2>5. Busy
    BY <1>4, <2>4 DEF WorkerPatches, FinalizerPatch, Busy
  <2>6. QED
    BY <2>1, <2>2, <2>3, <2>5
<1>5. ASSUME NEW kind \in HookKinds, RefreshPatches(kind)
      PROVE  FALSE
  <2>1. PICK fin \in SUBSET Finalizers : fin = WithHookFinalizers(kind, refresh.fin)
    BY WithHookFinalizersType DEF RefreshType
  <2>2. app' = Patched(fin) /\ PatchAccepted(fin) /\ ~app.deleting
    BY <1>5, <2>1 DEF RefreshPatches
  <2>3. QED
    BY <2>2, PatchedEffect DEF Doomed
<1>6. QED
  BY <1>1, <1>2, <1>3, <1>4, <1>5, AppSteps DEF AppStep

HookExcuses == {"overwritten", "stale", "commit", "lateUnset"}

\* The finalizer of a kind of hooks that is due stays, in the API and in the worker's copy,
\* until these hooks have completed; and only a completed hook is healthy.
HookInv ==
    /\ \A h \in Hooks : "healthy" \in {live[h], seen[h]} => h \in ran
    /\ Without(HookExcuses) => \A kind \in due \cap git :
         /\ Doomed /\ kind \notin app.fin => HooksOf(kind) \subseteq ran
         /\ Busy /\ kind \notin worker.fin => HooksOf(kind) \subseteq ran

LEMMA HealthyStep ==
    ASSUME TypeInv, [Next]_vars, \A h \in Hooks : "healthy" \in {live[h], seen[h]} => h \in ran
    PROVE  \A h \in Hooks : "healthy" \in {live'[h], seen'[h]} => h \in ran'
<1> SUFFICES ASSUME NEW h \in Hooks, "healthy" \in {live'[h], seen'[h]}
             PROVE  h \in ran'
  OBVIOUS
<1>1. ObjectStep(h) /\ h \notin Resources
  BY ObjectSteps, DeletionAssumption DEF Objects
<1>2. live'[h] = "healthy" => h \in ran'
  BY <1>1, HistoryGrows DEF ObjectStep
<1>3. seen'[h] = seen[h] \/ seen'[h] = live'[h]
  BY ObjectSteps, CachesSteps DEF CachesStep, Objects
<1>4. QED
  BY <1>2, <1>3, HistoryGrows

\* Commits during a deletion are excused.
LEMMA GitIsFixed ==
    ASSUME [Next]_vars, "commit" \notin excuses', app.deleting \/ ~app.alive
    PROVE  git' = git
<1>1. ~\E kind \in HookKinds : Commit(kind)
  BY DEF Commit
<1>2. QED
  BY <1>1, ZenonT(60) DEF Next, Step, WorkerPass, ApiRead, ApiPatch, ApiDelete, ApproveDeletion, RunOperation,
       FinalizeApplicationDeletion, PreDeleteHooks, DeleteWave, CascadeDone, PostDeleteHooks,
       CleanupHooks, FinalizerPatch, HooksFail, UnknownCluster, PassFails, DeleteWaveFails,
       RefreshStart, RefreshFinalizers, FinalizeProjectDeletion, Vanish, HookFinishes, AutoSync,
       RefreshPersist, Restart, WatchApplication, WatchObject, vars

\* A stage that ends with an up-to-date cache has seen its hooks healthy.
LEMMA CompletedHooks ==
    ASSUME TypeInv, HookInv, "suspended" \notin HookOutcomes, "stale" \notin excuses',
           NEW kind \in git, HooksDone(kind)
    PROVE  HooksOf(kind) \subseteq ran
<1> SUFFICES ASSUME NEW h \in HooksOf(kind) PROVE h \in ran
  OBVIOUS
<1>1. Expected(kind) = {}
  BY DEF HooksDone, AfterHooks
<1>2. h \in Running(kind)
  BY <1>1 DEF Expected
<1>3. h \in Hooks
  BY DEF HooksOf, Hooks
<1>4. seen[h] \in ObjectStates(h) /\ seen[h] # "absent"
  BY <1>2, <1>3 DEF TypeInv, IsView, Running, Present
<1>5. seen[h] \notin {"degraded", "progressing", "terminating"}
  BY <1>2 DEF HooksDone, Failed, StillRunning
<1>6. seen[h] = "healthy"
  BY <1>3, <1>4, <1>5, DeletionAssumption, ZenonT(60) DEF ObjectStates
<1>7. QED
  BY <1>3, <1>6 DEF HookInv

LEMMA HookStep ==
    ASSUME TypeInv, ControlInv, HookInv, "suspended" \notin HookOutcomes, [Next]_vars
    PROVE  HookInv'
<1> USE DEF TypeInv
<1>1. \A h \in Hooks : "healthy" \in {live'[h], seen'[h]} => h \in ran'
  BY HealthyStep DEF HookInv
<1>2. ASSUME Without(HookExcuses)', NEW kind \in due' \cap git', Doomed', kind \notin app'.fin
      PROVE  HooksOf(kind) \subseteq ran
  <2>1. Without(HookExcuses) /\ "commit" \notin excuses' /\ excuses' \cap {"overwritten", "lateUnset"} = {}
    BY <1>2, WithoutBefore, ZenonT(60) DEF Without, HookExcuses
  <2>2. git' \subseteq HookKinds
    BY TypeStep
  <2>3. kind \in Finalizers \ {"cascade"}
    <3>1. kind \in HookKinds /\ kind \in HookFinalizers(kind)
      BY <1>2, <2>2 DEF HookFinalizers
    <3>2. QED
      BY <3>1 DEF Finalizers, HookKinds
  <2>4. CASE Doomed /\ kind \notin app.fin /\ due' = due
    <3>1. git' = git
      BY <2>1, <2>4, GitIsFixed DEF Doomed
    <3>2. QED
      BY <1>2, <2>1, <2>4, <3>1 DEF HookInv
  <2>5. CASE Busy /\ kind \notin worker.fin /\ UNCHANGED <<git, due>>
    BY <1>2, <2>1, <2>5 DEF HookInv
  <2>6. CASE kind \notin app.fin /\ \E r \in Requests : Deletes(r)
    <3>1. PICK r \in Requests : Deletes(r)
      BY <2>6
    <3>2. kind \in app.fin
      BY <1>2, <2>3, <3>1, DeletesEffect
    <3>3. QED
      BY <2>6, <3>2
  <2>7. QED
    BY <1>2, <2>1, <2>3, <2>4, <2>5, <2>6, HookFinalizerLost
<1>3. ASSUME Without(HookExcuses)', NEW kind \in due' \cap git', Busy', kind \notin worker'.fin
      PROVE  HooksOf(kind) \subseteq ran
  <2>1. Without(HookExcuses) /\ "commit" \notin excuses' /\ "stale" \notin excuses'
    BY <1>3, WithoutBefore, ZenonT(60) DEF Without, HookExcuses
  <2>2. app.deleting \/ ~app.alive
    BY <1>3, WorkerStarts DEF Busy
  <2>3. due' = due /\ git' = git /\ kind \in HookKinds
    BY <2>1, <2>2, DueIsFixed, GitIsFixed
  <2>4. CASE Busy /\ worker'.fin = worker.fin
    BY <1>3, <2>1, <2>3, <2>4 DEF HookInv
  <2>5. CASE FinalizeApplicationDeletion
    <3>1. worker'.fin = app.fin /\ app.alive
      BY <2>5 DEF FinalizeApplicationDeletion, StartsPass
    <3>2. QED
      BY <1>3, <2>1, <2>2, <2>3, <3>1 DEF HookInv, Doomed
  <2>6. CASE CascadeIsDone
    <3>1. Busy /\ kind \notin worker.fin
      BY <1>3, <2>3, <2>6 DEF CascadeIsDone, Busy, HookKinds
    <3>2. QED
      BY <1>3, <2>1, <2>3, <3>1 DEF HookInv
  <2>7. ASSUME NEW k \in HookKinds, HooksDone(k)
        PROVE  HooksOf(kind) \subseteq ran
    <3>1. CASE k = kind
      BY <1>3, <2>1, <2>3, <2>7, <3>1, CompletedHooks
    <3>2. CASE k # kind
      <4>1. Busy /\ kind \notin worker.fin
        BY <1>3, <2>7, <3>2 DEF HooksDone, At, Busy
      <4>2. QED
        BY <1>3, <2>1, <2>3, <4>1 DEF HookInv
    <3>3. QED
      BY <3>1, <3>2
  <2>8. ASSUME NEW k \in HookKinds, CleanupDone(k)
        PROVE  HooksOf(kind) \subseteq ran
    <3>1. Busy /\ kind \notin worker.fin
      BY <1>3, <2>3, <2>8 DEF CleanupDone, At, Busy, HookKinds, Cleanup
    <3>2. QED
      BY <1>3, <2>1, <2>3, <3>1 DEF HookInv
  <2>9. worker' # Idle /\ ~UnknownCluster
    BY <1>3, StaysBusy
  <2>10. QED
    BY <1>3, <2>4, <2>5, <2>6, <2>7, <2>8, <2>9, WorkerSteps DEF WorkerStep, Busy
<1>4. ran \subseteq ran'
  BY HistoryGrows
<1>5. QED
  BY <1>1, <1>2, <1>3, <1>4 DEF HookInv, HooksOf

LEMMA HookInit == Init => HookInv
<1> SUFFICES ASSUME Init PROVE HookInv
  OBVIOUS
<1>1. due = {} /\ \A h \in Hooks : live[h] = "absent" /\ seen[h] = "absent"
  BY DeletionAssumption, ZenonT(60) DEF Init, Hooks, Objects
<1>2. QED
  BY <1>1 DEF HookInv

\* Where every hook's health check ends in healthy or degraded, the hooks that were due have
\* completed when the application is gone, however often a pass or a hook fails, the
\* controller restarts or the caches lag (executeHooks).  A hook that is suspended counts as
\* done without having completed.
THEOREM HooksHaveRun ==
    ASSUME "suspended" \notin HookOutcomes
    PROVE  Spec => []HooksRanByTheEnd
<1>1. Init => HookInv
  BY HookInit
<1>2. TypeInv /\ ControlInv /\ HookInv /\ [Next]_vars => HookInv'
  BY HookStep
<1>3. TypeInv /\ ControlInv /\ HookInv => HooksRanByTheEnd
  <2> SUFFICES ASSUME TypeInv, ControlInv, HookInv, ~app.alive,
                      excuses \cap {"overwritten", "cluster", "stale", "commit", "lateUnset"} = {},
                      NEW kind \in due \cap git
               PROVE  HooksOf(kind) \subseteq ran
    BY DEF HooksRanByTheEnd
  <2>1. Without(HookExcuses) /\ Doomed /\ kind \notin app.fin
    BY DEF Without, HookExcuses, Doomed, ControlInv
  <2>2. QED
    BY <2>1 DEF HookInv
<1>4. QED
  BY <1>1, <1>2, <1>3, Controlled, PTL DEF Spec

-----------------------------------------------------------------------------
(* Everything is deleted in its turn. *)

\* Only the cascade deletes a resource, and only one of the highest wave it sees.
LEMMA ResourceDeleted ==
    ASSUME TypeInv, [Next]_vars, NEW o \in Resources, live[o] = "live", live'[o] = "terminating"
    PROVE  At("cascade") /\ o \in FilterObjectsForDeletion(ShouldBeDeleted(seen))
<1> USE DEF TypeInv
<1>1. o \in Objects /\ o \notin Hooks /\ live' # live
  BY DeletionAssumption DEF Objects
<1>2. ASSUME NEW objs, live' = Terminated(objs)
      PROVE  o \in objs
  BY <1>1, <1>2 DEF Terminated
<1>3. ASSUME NEW kind \in HookKinds
      PROVE  Created(kind) \subseteq Hooks /\ Failed(kind) \subseteq Hooks /\ CleanedUp(kind) \subseteq Hooks
  BY <1>3 DEF Created, Expected, Failed, CleanedUp, Running, HooksOf, Hooks
<1>4. ASSUME NEW kind \in HookKinds, ExecuteHooks(kind)
      PROVE  FALSE
  <2>1. CASE Created(kind) # {}
    BY <1>1, <1>4, <2>1 DEF ExecuteHooks, Started
  <2>2. CASE Created(kind) = {} /\ Failed(kind) # {}
    BY <1>1, <1>2, <1>3, <1>4, <2>2 DEF ExecuteHooks
  <2>3. CASE Created(kind) = {} /\ Failed(kind) = {}
    BY <1>1, <1>4, <2>3 DEF ExecuteHooks
  <2>4. QED
    BY <2>1, <2>2, <2>3
<1>5. ~PreDeleteHooks /\ ~PostDeleteHooks
  BY <1>4, ZenonT(60) DEF PreDeleteHooks, PostDeleteHooks, HookKinds
<1>6. ASSUME NEW kind \in HookKinds, CleanupHooks(kind)
      PROVE  FALSE
  BY <1>1, <1>2, <1>3, <1>6, ZenonT(60) DEF CleanupHooks
<1>7. ASSUME NEW kind \in HookKinds, HooksFail(kind)
      PROVE  FALSE
  <2>1. ASSUME NEW hooks, live' = Started(hooks)
        PROVE  FALSE
    BY <1>1, <2>1 DEF Started
  <2>2. ASSUME NEW hooks \in SUBSET Hooks, live' = Terminated(hooks)
        PROVE  FALSE
    BY <1>1, <1>2, <2>2
  <2>3. QED
    BY <1>3, <1>7, <2>1, <2>2 DEF HooksFail
<1>8. ~RunOperation
  BY <1>1 DEF RunOperation
<1>9. ASSUME NEW p \in Objects, Vanish(p)
      PROVE  FALSE
  BY <1>1, <1>9 DEF Vanish, IsView
<1>10. ASSUME NEW h \in Hooks, NEW outcome \in HookOutcomes, HookFinishes(h, outcome)
       PROVE  FALSE
  BY <1>1, <1>10 DEF HookFinishes, IsView, Objects
<1>11. DeleteWave \/ DeleteWaveFails
  BY <1>1, <1>5, <1>6, <1>7, <1>8, <1>9, <1>10, ZenonT(60) DEF Next, Step, WorkerPass, ApiRead, ApiPatch, ApiDelete,
     ApproveDeletion, FinalizeApplicationDeletion, CascadeDone, FinalizerPatch, UnknownCluster, PassFails,
     RefreshStart, FinalizeProjectDeletion, RefreshFinalizers, Commit, AutoSync, RefreshPersist, Restart,
     WatchApplication, WatchObject, vars
<1>12. At("cascade")
  BY <1>11 DEF DeleteWave, DeleteWaveFails
<1>13. CASE DeleteWave
  BY <1>1, <1>2, <1>12, <1>13 DEF DeleteWave
<1>14. CASE DeleteWaveFails
  BY <1>2, <1>12, <1>14 DEF DeleteWaveFails
<1>15. QED
  BY <1>11, <1>13, <1>14

LEMMA OrderStep ==
    ASSUME TypeInv, ControlInv, CascadeInv, HookInv, [Next]_vars
    PROVE  InOrder
<1>1. ASSUME NEW o \in Resources, live[o] = "live", live'[o] = "terminating"
      PROVE  /\ \/ "live" \in lag
                \/ \A p \in ShouldBeDeleted(live) : Wave[p] <= Wave[o]
             /\ "pre" \in due \cap git /\ excuses \cap {"overwritten", "stale", "commit", "lateUnset"} = {}
                  => PreHooks \subseteq ran
  <2>1. At("cascade") /\ o \in FilterObjectsForDeletion(ShouldBeDeleted(seen))
    BY <1>1, ResourceDeleted
  <2>2. "live" \in lag \/ \A p \in ShouldBeDeleted(live) : Wave[p] <= Wave[o]
    BY <2>1 DEF ControlInv, FilterObjectsForDeletion
  <2>3. Busy /\ "pre" \notin worker.fin
    BY <2>1 DEF At, Stage, Busy
  <2>4. "pre" \in due \cap git /\ Without(HookExcuses) => PreHooks \subseteq ran
    BY <2>3 DEF HookInv, HooksOf
  <2>5. QED
    BY <2>2, <2>4 DEF Without, HookExcuses
<1>2. ASSUME NEW h \in PostHooks, live[h] = "absent", live'[h] = "progressing", "cascade" \in due,
             excuses \cap {"orphan", "overwritten", "lateSync", "stale"} = {}
      PROVE  ShouldBeDeleted(live) \cap Resources = {}
  <2>1. h \in Objects /\ h \notin Resources /\ h \notin PreHooks
    BY DeletionAssumption DEF Objects, Hooks
  <2>2. Starts(h)
    BY <1>2, <2>1, ObjectSteps DEF ObjectStep
  <2>3. At("post")
    BY <2>1, <2>2 DEF Starts, Created, Expected, HooksOf, HookKinds
  <2>4. Busy /\ "cascade" \notin worker.fin
    BY <2>3 DEF At, Stage, Busy
  <2>5. QED
    BY <1>2, <2>4 DEF CascadeInv, Without, CascadeExcuses, ResourcesGone
<1>3. QED
  BY <1>1, <1>2 DEF InOrder

\* A step deletes a resource only after the PreDelete hooks that were due have completed and
\* when no resource of a higher wave is left, and creates a PostDelete hook only when the
\* cascade is over (finalizeApplicationDeletion, FilterObjectsForDeletion).
THEOREM DeletesInOrder ==
    ASSUME "suspended" \notin HookOutcomes
    PROVE  Spec => DeletionInOrder
<1>1. Init => CascadeInv /\ HookInv
  BY CascadeInit, HookInit
<1>2. TypeInv /\ ControlInv /\ CascadeInv /\ HookInv /\ [Next]_vars => (CascadeInv /\ HookInv)'
  BY CascadeStep, HookStep
<1>3. TypeInv /\ ControlInv /\ CascadeInv /\ HookInv /\ [Next]_vars => [InOrder]_vars
  BY OrderStep
<1>4. QED
  BY <1>1, <1>2, <1>3, Controlled, PTL DEF Spec, DeletionInOrder

-----------------------------------------------------------------------------
(* A status that was computed with delete hooks implies their finalizers. *)

StatusExcuses == {"overwritten", "patchFailed", "interrupted"}

\* How far the reconciliation has come with the finalizers of the hooks it compared with.
StatusInv ==
    app.alive /\ ~app.deleting /\ Without(StatusExcuses) =>
      /\ refresh.pc = "idle" => \A kind \in HookKinds : cached.fin \cap HookFinalizers(kind) \subseteq app.fin
      /\ refresh.pc \in {"idle", "autosync", "pre"} => \A kind \in status : HookFinalizers(kind) \subseteq app.fin
      /\ refresh.pc \in {"autosync", "pre"} => \A kind \in HookKinds :
           refresh.fin \cap HookFinalizers(kind) \subseteq app.fin
      /\ refresh.pc = "post" =>
           /\ refresh.fin \cap HookFinalizers("post") \subseteq app.fin
           /\ "pre" \in refresh.hooks => HookFinalizers("pre") \subseteq app.fin \cap refresh.fin
      /\ refresh.pc = "persist" => \A kind \in refresh.hooks : HookFinalizers(kind) \subseteq app.fin
      /\ status \subseteq HookKinds

LEMMA HookFinalizersKept ==
    ASSUME TypeInv, ControlInv, [Next]_vars, "overwritten" \notin excuses', app'.alive, ~app'.deleting,
           refresh' = refresh \/ UNCHANGED app,
           NEW kind \in HookKinds, NEW f \in HookFinalizers(kind), f \in app.fin
    PROVE  f \in app'.fin
<1> USE DEF TypeInv
<1>1. app.alive /\ ~app.deleting
  BY Onwards
<1>2. CASE UNCHANGED app
  BY <1>2
<1>3. CASE AppKept
  BY <1>3 DEF AppKept
<1>4. ASSUME NEW r \in Requests, RequestPatches(r)
      PROVE  f \in app'.fin
  <2>1. api[r].fin \in SUBSET Finalizers
    BY DEF RequestType
  <2>2. app'.fin = api[r].fin
    BY <1>4, <2>1, PatchedEffect DEF RequestPatches
  <2>3. RequestWrites(r) /\ AfterPatch(api[r].old, api[r].fin) \subseteq excuses'
    BY <1>4 DEF RequestPatches, ApiPatch, ControlInv, RequestWrites
  <2>4. f # "cascade"
    BY DEF HookFinalizers, HookKinds, Cleanup
  <2>5. QED
    BY <2>2, <2>3, <2>4, OverwritesDropped DEF RequestWrites
<1>5. ASSUME NEW r \in Requests, Deletes(r)
      PROVE  FALSE
  BY <1>5, DeletesEffect
<1>6. ~WorkerPatches
  BY <1>1 DEF WorkerPatches, FinalizerPatch, ControlInv
<1>7. ASSUME NEW k \in HookKinds, RefreshPatches(k), refresh' = refresh
      PROVE  FALSE
  <2>1. refresh'.pc = IF k = "pre" THEN "post" ELSE "persist"
    BY <1>7 DEF RefreshPatches, RefreshType
  <2>2. QED
    BY <1>7, <2>1, ZenonT(60) DEF RefreshPatches, HookKinds
<1>8. QED
  BY <1>2, <1>3, <1>4, <1>5, <1>6, <1>7, AppSteps DEF AppStep

\* A reconciliation that goes on has the finalizers of one kind as they should be.
LEMMA RefreshSettles ==
    ASSUME TypeInv, ControlInv, [Next]_vars, app'.alive, ~app'.deleting, Without(StatusExcuses)',
           NEW kind \in HookKinds, RefreshMoves(kind)
    PROVE  \/ app'.fin = refresh'.fin /\ refresh'.fin = WithHookFinalizers(kind, refresh.fin)
           \/ /\ UNCHANGED app /\ refresh'.fin = refresh.fin
              /\ kind \in refresh.hooks => HookFinalizers(kind) \subseteq refresh.fin
<1> USE DEF TypeInv
<1>1. app.alive /\ ~app.deleting /\ ~refresh.copy.deleting /\ proj # "gone"
  BY Onwards, ZenonT(60) DEF ControlInv
<1>2. PICK fin \in SUBSET Finalizers : fin = WithHookFinalizers(kind, refresh.fin)
  BY WithHookFinalizersType DEF RefreshType
<1>3. CASE HookFinalizersDiffer(kind)
  <2>1. app' = Patched(fin) /\ PatchAccepted(fin)
    BY <1>1, <1>2, <1>3 DEF RefreshMoves, RefreshFinalizers, PatchAccepted, Without, StatusExcuses
  <2>2. app'.fin = fin
    BY <2>1, PatchedEffect
  <2>3. QED
    BY <1>2, <1>3, <2>2 DEF RefreshMoves
<1>4. CASE ~HookFinalizersDiffer(kind)
  <2>1. UNCHANGED app /\ refresh'.fin = refresh.fin
    BY <1>4 DEF RefreshMoves, RefreshFinalizers
  <2>2. kind \in refresh.hooks => HookFinalizers(kind) \subseteq refresh.fin
    BY <1>1, <1>4 DEF HookFinalizersDiffer
  <2>3. QED
    BY <2>1, <2>2
<1>5. QED
  BY <1>3, <1>4, ZenonT(60)

LEMMA KindsApart == HookFinalizers("pre") \cap HookFinalizers("post") = {}
  BY DEF HookFinalizers, Cleanup

LEMMA StatusKept ==
    ASSUME [Next]_vars, ~RefreshPersist
    PROVE  status' = status
  BY ZenonT(60) DEF Next, Step, WorkerPass, ApiRead, ApiPatch, ApiDelete, ApproveDeletion, RunOperation,
     FinalizeApplicationDeletion, PreDeleteHooks, DeleteWave, CascadeDone, PostDeleteHooks,
     CleanupHooks, FinalizerPatch, HooksFail, UnknownCluster, PassFails, DeleteWaveFails, Commit,
     RefreshStart, RefreshFinalizers, FinalizeProjectDeletion, Vanish, HookFinishes, AutoSync,
     Restart, WatchApplication, WatchObject, vars

LEMMA StatusStep ==
    ASSUME TypeInv, ControlInv, StatusInv, [Next]_vars
    PROVE  StatusInv'
<1> USE DEF TypeInv
<1> SUFFICES ASSUME app'.alive, ~app'.deleting, Without(StatusExcuses)'
             PROVE  StatusInv'
  BY DEF StatusInv
<1>1. app.alive /\ ~app.deleting /\ Without(StatusExcuses) /\ "overwritten" \notin excuses'
  BY Onwards, WithoutBefore, ZenonT(60) DEF Without, StatusExcuses
<1>2. CASE refresh' = refresh
  <2>1. ~RefreshPersist \/ refresh.pc = "idle"
    BY <1>2 DEF RefreshPersist, RefreshIdle
  <2>2. status' = status
    BY <2>1, StatusKept DEF RefreshPersist
  <2>3. \A kind \in HookKinds : \A f \in HookFinalizers(kind) : f \in app.fin => f \in app'.fin
    BY <1>1, <1>2, HookFinalizersKept
  <2>4. cached' = cached \/ cached' = app'
    BY ObjectSteps, CachesSteps DEF CachesStep
  <2>5. "pre" \in HookKinds /\ "post" \in HookKinds /\ refresh.hooks \subseteq HookKinds
    BY DEF HookKinds, RefreshType
  <2>6. QED
    BY <1>1, <1>2, <2>2, <2>3, <2>4, <2>5, ZenonT(60) DEF StatusInv
<1>3. CASE RefreshStart
  <2>1. /\ refresh.pc = "idle" /\ refresh'.pc = "autosync" /\ refresh'.fin = cached.fin
        /\ app' = app /\ status' = status
    BY <1>3 DEF RefreshStart
  <2>2. QED
    BY <1>1, <2>1, ZenonT(60) DEF StatusInv
<1>4. CASE AutoSync
  <2>1. /\ refresh.pc = "autosync" /\ refresh'.pc = "pre" /\ refresh'.fin = refresh.fin
        /\ app'.fin = app.fin /\ status' = status
    BY <1>4 DEF AutoSync, RefreshType, Applications
  <2>2. QED
    BY <1>1, <2>1, ZenonT(60) DEF StatusInv
<1>5. CASE RefreshMoves("pre")
  <2>1. refresh.pc = "pre" /\ refresh'.pc = "post" /\ refresh'.hooks = refresh.hooks /\ status' = status
    BY <1>5 DEF RefreshMoves, RefreshFinalizers
  <2>2. /\ refresh'.fin \cap HookFinalizers("post") \subseteq app'.fin
        /\ "pre" \in refresh.hooks => HookFinalizers("pre") \subseteq app'.fin \cap refresh'.fin
    <3>1. CASE app'.fin = refresh'.fin /\ refresh'.fin = WithHookFinalizers("pre", refresh.fin)
      BY <3>1 DEF WithHookFinalizers
    <3>2. CASE /\ UNCHANGED app /\ refresh'.fin = refresh.fin
               /\ "pre" \in refresh.hooks => HookFinalizers("pre") \subseteq refresh.fin
      BY <1>1, <2>1, <3>2 DEF StatusInv, HookKinds
    <3>3. QED
      BY <1>5, <3>1, <3>2, RefreshSettles, ZenonT(60) DEF HookKinds
  <2>3. QED
    BY <1>1, <2>1, <2>2, ZenonT(60) DEF StatusInv
<1>6. CASE RefreshMoves("post")
  <2>1. refresh.pc = "post" /\ refresh'.pc = "persist" /\ refresh'.hooks = refresh.hooks /\ status' = status
    BY <1>6 DEF RefreshMoves, RefreshFinalizers
  <2>2. /\ "pre" \in refresh.hooks => HookFinalizers("pre") \subseteq app'.fin
        /\ "post" \in refresh.hooks => HookFinalizers("post") \subseteq app'.fin
    <3>1. CASE app'.fin = refresh'.fin /\ refresh'.fin = WithHookFinalizers("post", refresh.fin)
      BY <1>1, <2>1, <3>1, KindsApart, ZenonT(60) DEF WithHookFinalizers, StatusInv
    <3>2. CASE /\ UNCHANGED app /\ refresh'.fin = refresh.fin
               /\ "post" \in refresh.hooks => HookFinalizers("post") \subseteq refresh.fin
      BY <1>1, <2>1, <3>2 DEF StatusInv
    <3>3. QED
      BY <1>6, <3>1, <3>2, RefreshSettles DEF HookKinds
  <2>3. \A kind \in refresh.hooks : HookFinalizers(kind) \subseteq app'.fin
    BY <2>2 DEF RefreshType, HookKinds
  <2>4. QED
    BY <1>1, <2>1, <2>3, ZenonT(60) DEF StatusInv
<1>7. CASE RefreshPersist
  <2>1. /\ refresh.pc = "persist" /\ refresh'.pc = "idle" /\ status' = refresh.hooks
        /\ app' = app /\ cached' = app
    BY <1>1, <1>7 DEF RefreshPersist, RefreshIdle
  <2>2. refresh.hooks \subseteq HookKinds
    BY DEF RefreshType
  <2>3. QED
    BY <1>1, <2>1, <2>2, ZenonT(60) DEF StatusInv
<1>8. CASE Restart
  <2>1. refresh.pc \notin {"post", "persist"}
    BY <1>8 DEF Restart, Without, StatusExcuses
  <2>2. refresh.pc \in {"idle", "autosync", "pre"}
    BY <2>1 DEF RefreshType
  <2>3. refresh'.pc = "idle" /\ app' = app /\ cached' = app /\ status' = status
    BY <1>8, ZenonT(60) DEF Restart, RefreshIdle
  <2>4. QED
    BY <1>1, <2>2, <2>3, ZenonT(60) DEF StatusInv
<1>9. QED
  BY <1>2, <1>3, <1>4, <1>5, <1>6, <1>7, <1>8, RefreshSteps DEF RefreshStep, HookKinds

\* Outside a reconciliation the finalizers of the delete hooks are there before a status that
\* counts on them, unless a patch was overwritten or failed, or a restart came between the two
\* (processAppRefreshQueueItem).
THEOREM StatusHasFinalizers == Spec => []StatusImpliesFinalizers
<1>1. Init => StatusInv
  <2> SUFFICES ASSUME Init PROVE StatusInv
    OBVIOUS
  <2>1. cached = app /\ status = {} /\ refresh.pc = "idle"
    BY ZenonT(60) DEF Init, RefreshIdle
  <2>2. QED
    BY <2>1 DEF StatusInv
<1>2. TypeInv /\ ControlInv /\ StatusInv /\ [Next]_vars => StatusInv'
  BY StatusStep
<1>3. StatusInv => StatusImpliesFinalizers
  BY ZenonT(60) DEF StatusInv, StatusImpliesFinalizers, Without, StatusExcuses
<1>4. QED
  BY <1>1, <1>2, <1>3, Controlled, PTL DEF Spec

-----------------------------------------------------------------------------
(* The hooks are cleaned up. *)

\* What the cleanup relies on: a kind has one hook, hooks end healthy or degraded, and all of
\* them are deleted when they succeeded.
CleanHooks ==
    /\ HookOutcomes \subseteq {"healthy", "degraded"}
    /\ \A h \in Hooks : "HookSucceeded" \in Policies[h]
    /\ \A kind \in HookKinds : \A g, h \in HooksOf(kind) : g = h

CleanupExcuses == {"overwritten", "cluster", "stale", "unseen", "lateUnset"}

\* A hook has passed the state its cache shows.
Later(s, l) == \/ s \in {"absent", "progressing"}
               \/ s \in {"healthy", "degraded"} /\ l \in {s, "terminating", "absent"}
               \/ s = "terminating" /\ l \in {"terminating", "absent"}
Closed(fin) == \A kind \in HookKinds : kind \in fin => Cleanup(kind) \in fin

\* A hook of a stage that is over, and one that is cleaned up.
Calm(h) == /\ live[h] \in {"absent", "healthy", "terminating"}
           /\ seen[h] \in {"absent", "healthy", "terminating"}
           /\ seen[h] = "absent" => live[h] = "absent"
Over(h) == live[h] \in {"absent", "terminating"}

\* Every list with the finalizer of a kind has that of its cleanup, and no hook exists before
\* the deletion.
ListInv ==
    /\ \A h \in Hooks : Later(seen[h], live[h])
    /\ Closed(app.fin) /\ Closed(cached.fin) /\ Closed(worker.fin) /\ Closed(refresh.fin)
    /\ \A r \in Requests : Closed(api[r].fin)
    /\ app.alive /\ ~app.deleting => \A h \in Hooks : live[h] = "absent" /\ seen[h] = "absent"

\* The worker knows of no finalizer of a hook that the API has lost; a kind of hooks whose
\* finalizer is gone is calm, and over when that of the cleanup is gone.
CleanupInv ==
    Without(CleanupExcuses) =>
      /\ Busy => worker.fin \ {"cascade"} \subseteq app.fin
      /\ \A kind \in HookKinds : \A h \in HooksOf(kind) :
           /\ Doomed /\ kind \notin app.fin => Calm(h)
           /\ Busy /\ kind \notin worker.fin => Calm(h)
           /\ Doomed /\ Cleanup(kind) \notin app.fin => Over(h)
           /\ Busy /\ Cleanup(kind) \notin worker.fin => Over(h)

LEMMA WithClosed ==
    ASSUME NEW fin, Closed(fin), NEW kind \in HookKinds
    PROVE  Closed(WithHookFinalizers(kind, fin))
  BY DEF Closed, WithHookFinalizers, HookFinalizers, HookKinds, Cleanup

LEMMA LaterStep ==
    ASSUME TypeInv, CleanHooks, [Next]_vars, NEW h \in Hooks, Later(seen[h], live[h])
    PROVE  Later(seen'[h], live'[h])
<1>1. ObjectStep(h) /\ h \notin Resources /\ h \in Objects
  BY ObjectSteps, DeletionAssumption, ZenonT(60) DEF Objects
<1>2. seen'[h] = seen[h] \/ seen'[h] = live'[h]
  BY <1>1, ObjectSteps, CachesSteps DEF CachesStep
<1>3. /\ live[h] \in {"absent", "terminating", "progressing", "healthy", "degraded"}
      /\ seen[h] \in {"absent", "terminating", "progressing", "healthy", "degraded"}
      /\ live'[h] \in {"absent", "terminating", "progressing", "healthy", "degraded"}
  BY ObjectSteps, ZenonT(60) DEF TypeInv, IsView, ObjectStates, CleanHooks
<1>4. Starts(h) => seen[h] = "absent"
  BY <1>1, ZenonT(60) DEF Starts, Created, Expected, Running, Present, HookKinds
<1>5. QED
  BY <1>1, <1>2, <1>3, <1>4, ZenonT(60) DEF ObjectStep, Later, CleanHooks

LEMMA WorkerClosed ==
    ASSUME TypeInv, ListInv, [Next]_vars
    PROVE  Closed(worker'.fin)
<1>1. CASE worker'.fin = worker.fin \/ worker'.fin = app.fin \/ worker'.fin = {}
  BY <1>1 DEF ListInv, Closed
<1>2. CASE CascadeIsDone
  BY <1>2, ZenonT(60) DEF CascadeIsDone, ListInv, Closed, HookKinds, Cleanup
<1>3. ASSUME NEW kind \in HookKinds, HooksDone(kind)
      PROVE  Closed(worker'.fin)
  BY <1>3, ZenonT(60) DEF HooksDone, ListInv, Closed, HookKinds, Cleanup
<1>4. ASSUME NEW kind \in HookKinds, CleanupDone(kind)
      PROVE  Closed(worker'.fin)
  BY <1>4, ZenonT(60) DEF CleanupDone, At, Stage, ListInv, Closed, HookKinds, Cleanup
<1>5. CASE UnknownCluster
  <2>1. worker'.fin = app.fin \ Finalizers /\ app.fin \subseteq Finalizers
    BY <1>5 DEF UnknownCluster, TypeInv, Applications
  <2>2. QED
    BY <1>1, <2>1
<1>6. CASE FinalizeApplicationDeletion
  BY <1>1, <1>6, ZenonT(60) DEF FinalizeApplicationDeletion
<1>7. CASE worker' = Idle
  BY <1>1, <1>7, ZenonT(60) DEF Idle
<1>8. QED
  BY <1>1, <1>2, <1>3, <1>4, <1>5, <1>6, <1>7, WorkerSteps, ZenonT(60) DEF WorkerStep

LEMMA AppClosed ==
    ASSUME TypeInv, ListInv, [Next]_vars
    PROVE  Closed(app'.fin)
<1> USE DEF TypeInv
<1>1. CASE AppKept
  BY <1>1, ZenonT(60) DEF AppKept, ListInv
<1>2. ASSUME NEW r \in Requests, RequestPatches(r)
      PROVE  Closed(app'.fin)
  <2>1. api[r].fin \in SUBSET Finalizers
    BY DEF RequestType
  <2>2. QED
    BY <1>2, <2>1, PatchedEffect, ZenonT(60) DEF RequestPatches, ListInv
<1>3. ASSUME NEW r \in Requests, Deletes(r)
      PROVE  Closed(app'.fin)
  BY <1>3, DeletesEffect, ZenonT(60) DEF ListInv
<1>4. CASE WorkerPatches
  <2>1. worker.fin \in SUBSET Finalizers
    BY DEF WorkerType
  <2>2. QED
    BY <1>4, <2>1, PatchedEffect, ZenonT(60) DEF WorkerPatches, ListInv
<1>5. ASSUME NEW kind \in HookKinds, RefreshPatches(kind)
      PROVE  Closed(app'.fin)
  <2>1. PICK fin \in SUBSET Finalizers : fin = WithHookFinalizers(kind, refresh.fin)
    BY WithHookFinalizersType DEF RefreshType
  <2>2. app'.fin = fin
    BY <1>5, <2>1, PatchedEffect DEF RefreshPatches
  <2>3. QED
    BY <2>1, <2>2, WithClosed, ZenonT(60) DEF ListInv
<1>6. QED
  BY <1>1, <1>2, <1>3, <1>4, <1>5, AppSteps DEF AppStep

LEMMA ListStep ==
    ASSUME TypeInv, ControlInv, CleanHooks, ListInv, [Next]_vars
    PROVE  ListInv'
<1> USE DEF TypeInv
<1>1. \A h \in Hooks : Later(seen'[h], live'[h])
  BY LaterStep, ZenonT(60) DEF ListInv
<1>2. Closed(app'.fin) /\ Closed(worker'.fin)
  BY AppClosed, WorkerClosed, ZenonT(60)
<1>3. Closed(cached'.fin)
  BY <1>2, ObjectSteps, CachesSteps, ZenonT(60) DEF CachesStep, ListInv
<1>4. Closed(refresh'.fin)
  <2>1. CASE refresh'.fin \in {refresh.fin, cached.fin, {}}
    BY <2>1, ZenonT(60) DEF ListInv, Closed
  <2>2. ASSUME NEW kind \in HookKinds, RefreshMoves(kind)
        PROVE  Closed(refresh'.fin)
    BY <2>1, <2>2, WithClosed, ZenonT(60) DEF RefreshMoves, ListInv
  <2>3. CASE RefreshStart
    BY <2>1, <2>3, ZenonT(60) DEF RefreshStart
  <2>4. CASE refresh' = [refresh EXCEPT !.pc = "pre"]
    BY <2>1, <2>4 DEF RefreshType
  <2>5. CASE refresh' = RefreshIdle
    BY <2>1, <2>5, ZenonT(60) DEF RefreshIdle
  <2>6. QED
    BY <2>1, <2>2, <2>3, <2>4, <2>5, RefreshSteps DEF RefreshStep
<1>5. \A r \in Requests : Closed(api'[r].fin)
  <2> SUFFICES ASSUME NEW r \in Requests PROVE Closed(api'[r].fin)
    OBVIOUS
  <2>1. CASE api'[r].fin = api[r].fin \/ api'[r].fin = {}
    BY <2>1, ZenonT(60) DEF ListInv, Closed
  <2>2. CASE RequestReads(r)
    BY <2>2, SMTT(60) DEF RequestReads, ListInv, Closed, HookKinds, Cleanup
  <2>3. QED
    BY <2>1, <2>2, ApiSteps, ZenonT(60) DEF ApiStep, ApiMoves
<1>6. ASSUME app'.alive, ~app'.deleting, NEW h \in Hooks
      PROVE  live'[h] = "absent" /\ seen'[h] = "absent"
  <2>1. app.alive /\ ~app.deleting
    BY <1>6, Onwards, ZenonT(60)
  <2>2. live[h] = "absent" /\ seen[h] = "absent" /\ ~Starts(h)
    BY <2>1, ZenonT(60) DEF ListInv, ControlInv, Starts, At
  <2>3. h \in Objects /\ h \notin Resources
    BY DeletionAssumption DEF Objects
  <2>4. live'[h] = "absent"
    BY <2>2, <2>3, ObjectSteps DEF ObjectStep
  <2>5. QED
    BY <2>2, <2>3, <2>4, ObjectSteps, CachesSteps DEF CachesStep
<1>7. QED
  BY <1>1, <1>2, <1>3, <1>4, <1>5, <1>6, ZenonT(60) DEF ListInv

\* Calm and cleaned-up hooks stay so unless they are created again.
LEMMA CalmStays ==
    ASSUME TypeInv, [Next]_vars, NEW h \in Hooks, ~Starts(h) \/ live' = live
    PROVE  /\ Calm(h) => Calm(h)'
           /\ Over(h) => Over(h)'
<1>1. ObjectStep(h) /\ h \notin Resources /\ h \in Objects
  BY ObjectSteps, DeletionAssumption DEF Objects
<1>2. seen'[h] = seen[h] \/ seen'[h] = live'[h]
  BY <1>1, ObjectSteps, CachesSteps DEF CachesStep
<1>3. \/ live'[h] = live[h] \/ live[h] = "progressing"
      \/ live'[h] \in {"absent", "terminating"} /\ live[h] # "absent"
  BY <1>1 DEF ObjectStep
<1>4. QED
  BY <1>2, <1>3 DEF Calm, Over

\* A hook is created only while its finalizer is in the worker's copy and in the API.
LEMMA StartsEarly ==
    ASSUME TypeInv, ListInv, NEW kind \in HookKinds, NEW h \in HooksOf(kind), Starts(h)
    PROVE  /\ Busy /\ kind \in worker.fin /\ Cleanup(kind) \in worker.fin /\ worker.pc = "branch"
           /\ Without(CleanupExcuses) /\ CleanupInv => kind \in app.fin /\ Cleanup(kind) \in app.fin
<1>1. PICK k \in HookKinds : At(k) /\ h \in Created(k)
  BY DEF Starts
<1>2. k = kind
  BY <1>1, DeletionAssumption DEF Created, Expected, HooksOf, HookKinds
<1>3. Busy /\ kind \in worker.fin /\ worker.pc = "branch"
  BY <1>1, <1>2, ZenonT(60) DEF At, Busy
<1>4. Without(CleanupExcuses) /\ CleanupInv => kind \in app.fin
  BY <1>3, ZenonT(60) DEF CleanupInv, HookKinds
<1>5. QED
  BY <1>3, <1>4, ZenonT(60) DEF ListInv, Closed

\* A stage of hooks that is over leaves them calm.
LEMMA CalmAfter ==
    ASSUME TypeInv, CleanHooks, ListInv, excuses' \cap {"stale", "unseen"} = {},
           NEW kind \in HookKinds, HooksDone(kind), NEW h \in HooksOf(kind)
    PROVE  Calm(h)
<1>1. h \in Hooks /\ h \in Objects
  BY DEF HooksOf, Hooks, Objects
<1>2. Later(seen[h], live[h]) /\ seen[h] \in ObjectStates(h)
  BY <1>1, ZenonT(60) DEF ListInv, TypeInv, IsView
<1>3. CASE seen[h] = "absent"
  <2>1. h \notin Running(kind)
    BY <1>3 DEF Running, Present
  <2>2. HooksOf(kind) \cap Present(live) \subseteq Running(kind)
    BY ZenonT(60) DEF HooksDone, AfterHooks
  <2>3. live[h] = "absent"
    BY <1>1, <2>1, <2>2 DEF Present
  <2>4. QED
    BY <1>3, <2>3 DEF Calm
<1>4. CASE seen[h] # "absent"
  <2>1. h \in Running(kind)
    BY <1>1, <1>4 DEF Running, Present
  <2>2. seen[h] \notin {"degraded", "progressing", "terminating"}
    BY <2>1, ZenonT(60) DEF HooksDone, Failed, StillRunning
  <2>3. seen[h] = "healthy"
    BY <1>1, <1>2, <1>4, <2>2, ZenonT(60) DEF ObjectStates, CleanHooks
  <2>4. QED
    BY <1>2, <2>3, ZenonT(60) DEF Calm, Later
<1>5. QED
  BY <1>3, <1>4

\* A calm hook that is still healthy is deleted by the cleanup.
LEMMA OverAfter ==
    ASSUME TypeInv, CleanHooks, ListInv, NEW kind \in HookKinds, CleanedUp(kind) = {},
           NEW h \in HooksOf(kind), Calm(h)
    PROVE  Over(h)
<1> SUFFICES ASSUME ~Over(h) PROVE FALSE
  OBVIOUS
<1>1. h \in Hooks /\ h \in Objects
  BY DEF HooksOf, Hooks, Objects
<1>2. live[h] = "healthy"
  BY DEF Calm, Over
<1>3. seen[h] = "healthy"
  BY <1>1, <1>2, ZenonT(60) DEF ListInv, Later, Calm
<1>4. Running(kind) = {h}
  BY <1>1, <1>3, SMTT(60) DEF Running, Present, CleanHooks
<1>5. {IF seen[g] = "terminating" THEN "progressing" ELSE seen[g] : g \in Running(kind)} = {"healthy"}
  BY <1>3, <1>4
<1>6. AggregatedHealth(Running(kind)) = "healthy"
  BY <1>5 DEF AggregatedHealth
<1>7. CleanupDeletes(h, "healthy")
  BY <1>1, ZenonT(60) DEF CleanupDeletes, DeletePolicies, CleanHooks
<1>8. h \in CleanedUp(kind)
  BY <1>4, <1>6, <1>7 DEF CleanedUp
<1>9. QED
  BY <1>8

LEMMA CleanupStep ==
    ASSUME TypeInv, ControlInv, CleanHooks, ListInv, CleanupInv, [Next]_vars
    PROVE  CleanupInv'
<1> USE DEF TypeInv
<1> SUFFICES ASSUME Without(CleanupExcuses)'
             PROVE  CleanupInv'
  BY ZenonT(60) DEF CleanupInv
<1>1. /\ Without(CleanupExcuses) /\ excuses' \cap {"overwritten", "lateUnset"} = {}
      /\ excuses' \cap {"stale", "unseen"} = {} /\ "cluster" \notin excuses'
  BY WithoutBefore, ZenonT(60) DEF Without, CleanupExcuses
<1>2. Busy' => worker'.fin \ {"cascade"} \subseteq app'.fin
  <2> SUFFICES ASSUME Busy', NEW f \in worker'.fin, f # "cascade"
               PROVE  f \in app'.fin
    OBVIOUS
  <2>1. f \in Finalizers \ {"cascade"}
    BY WorkerSteps DEF WorkerType
  <2>2. Doomed'
    BY <1>1, WorkerStarts, Onwards, ZenonT(60) DEF Doomed, Busy
  <2>3. CASE worker' = worker
    <3>1. f \in app.fin /\ f \in worker.fin
      BY <1>1, <2>3, ZenonT(60) DEF CleanupInv, Busy
    <3>2. CASE \E r \in Requests : Deletes(r)
      BY <3>1, <3>2, DeletesEffect, ZenonT(60)
    <3>3. QED
      BY <1>1, <2>1, <2>2, <3>1, <3>2, HookFinalizerLost, ZenonT(60)
  <2>4. CASE FinalizeApplicationDeletion
    BY <2>4, ZenonT(60) DEF FinalizeApplicationDeletion
  <2>5. CASE Busy /\ worker'.fin \subseteq worker.fin /\ UNCHANGED app
    BY <1>1, <2>5, ZenonT(60) DEF CleanupInv
  <2>6. CASE WorkerPatches /\ worker'.fin = worker.fin
    <3>1. worker.fin \in SUBSET Finalizers
      BY DEF WorkerType
    <3>2. QED
      BY <2>6, <3>1, PatchedEffect, ZenonT(60) DEF WorkerPatches
  <2>7. ASSUME NEW kind \in HookKinds, HooksDone(kind) \/ CleanupDone(kind)
        PROVE  f \in app'.fin
    BY <2>5, <2>7, ZenonT(60) DEF HooksDone, CleanupDone, At, Busy
  <2>8. CASE CascadeIsDone
    BY <2>5, <2>8, ZenonT(60) DEF CascadeIsDone, Busy
  <2>9. worker' # Idle /\ ~UnknownCluster
    BY StaysBusy, ZenonT(60)
  <2>10. QED
    BY <2>3, <2>4, <2>5, <2>6, <2>7, <2>8, <2>9, WorkerSteps, ZenonT(60) DEF WorkerStep, Busy
<1>3. ASSUME NEW kind \in HookKinds, NEW h \in HooksOf(kind)
      PROVE  /\ Doomed' /\ kind \notin app'.fin => Calm(h)'
             /\ Busy' /\ kind \notin worker'.fin => Calm(h)'
             /\ Doomed' /\ Cleanup(kind) \notin app'.fin => Over(h)'
             /\ Busy' /\ Cleanup(kind) \notin worker'.fin => Over(h)'
  <2>1. h \in Hooks /\ kind \in Finalizers \ {"cascade"} /\ Cleanup(kind) \in Finalizers \ {"cascade"}
    BY <1>3 DEF HooksOf, Hooks, Finalizers, HookFinalizers, HookKinds, Cleanup
  <2>2. ~Starts(h) \/ live' = live => (Calm(h) => Calm(h)') /\ (Over(h) => Over(h)')
    BY <2>1, CalmStays
  <2>3. Starts(h) => /\ kind \in worker.fin /\ Cleanup(kind) \in worker.fin /\ worker.pc = "branch"
                     /\ kind \in app.fin /\ Cleanup(kind) \in app.fin
    BY <1>1, <1>3, StartsEarly, ZenonT(60)
  <2>4. app.alive /\ ~app.deleting => Calm(h) /\ Over(h) /\ ~Starts(h)
    BY <2>1, ZenonT(60) DEF ListInv, Calm, Over, ControlInv, Starts, At
  <2>5. ASSUME NEW f \in {kind, Cleanup(kind)}, Doomed', f \notin app'.fin
        PROVE  /\ f = kind => Calm(h)
               /\ f = Cleanup(kind) => Over(h)
               /\ ~Starts(h) \/ live' = live
    <3>1. \/ Doomed /\ f \notin app.fin
          \/ Busy /\ f \notin worker.fin /\ live' = live
          \/ \E r \in Requests : Deletes(r)
      BY <1>1, <2>1, <2>5, HookFinalizerLost, ZenonT(60)
    <3>2. CASE Doomed /\ f \notin app.fin
      BY <1>1, <1>3, <2>3, <2>5, <3>2, ZenonT(60) DEF CleanupInv
    <3>3. CASE Busy /\ f \notin worker.fin /\ live' = live
      BY <1>1, <1>3, <2>5, <3>3, ZenonT(60) DEF CleanupInv
    <3>4. CASE \E r \in Requests : Deletes(r)
      BY <2>4, <3>4 DEF Deletes
    <3>5. QED
      BY <3>1, <3>2, <3>3, <3>4, ZenonT(60)
  <2>6. ASSUME NEW f \in {kind, Cleanup(kind)}, Busy', f \notin worker'.fin
        PROVE  /\ f = kind => Calm(h)
               /\ f = Cleanup(kind) => Over(h)
               /\ ~Starts(h) \/ live' = live
    <3>1. CASE Busy /\ f \notin worker.fin
      BY <1>1, <1>3, <2>3, <2>6, <3>1, ZenonT(60) DEF CleanupInv
    <3>2. CASE FinalizeApplicationDeletion
      <4>1. worker'.fin = app.fin /\ app.alive /\ worker.pc = "idle"
        BY <3>2, ZenonT(60) DEF FinalizeApplicationDeletion, StartsPass
      <4>2. Doomed
        BY <2>6, <4>1, WorkerStarts, ZenonT(60) DEF Doomed, Busy
      <4>3. QED
        BY <1>1, <1>3, <2>3, <2>6, <4>1, <4>2, ZenonT(60) DEF CleanupInv
    <3>3. CASE CascadeIsDone
      <4>1. Busy /\ f \notin worker.fin
        BY <2>1, <2>6, <3>3, ZenonT(60) DEF CascadeIsDone, Busy
      <4>2. QED
        BY <3>1, <4>1, ZenonT(60)
    <3>4. ASSUME NEW k \in HookKinds, HooksDone(k)
          PROVE  /\ f = kind => Calm(h)
                 /\ f = Cleanup(kind) => Over(h)
                 /\ ~Starts(h) \/ live' = live
      <4>1. Busy /\ live' = live
        BY <3>4, ZenonT(60) DEF HooksDone, At, Busy
      <4>2. CASE f \notin worker.fin
        BY <3>1, <4>1, <4>2, ZenonT(60)
      <4>3. CASE f \in worker.fin
        <5>1. f = k
          BY <2>6, <3>4, <4>3, ZenonT(60) DEF HooksDone
        <5>2. k = kind /\ f # Cleanup(kind)
          BY <1>3, <2>6, <3>4, <5>1, ZenonT(60) DEF HookKinds, Cleanup
        <5>3. Calm(h)
          BY <1>1, <1>3, <3>4, <5>2, CalmAfter, ZenonT(60)
        <5>4. QED
          BY <4>1, <5>2, <5>3
      <4>4. QED
        BY <4>2, <4>3, ZenonT(60)
    <3>5. ASSUME NEW k \in HookKinds, CleanupDone(k)
          PROVE  /\ f = kind => Calm(h)
                 /\ f = Cleanup(kind) => Over(h)
                 /\ ~Starts(h) \/ live' = live
      <4>1. Busy /\ live' = live
        BY <3>5, ZenonT(60) DEF CleanupDone, At, Busy
      <4>2. CASE f \notin worker.fin
        BY <3>1, <4>1, <4>2
      <4>3. CASE f \in worker.fin
        <5>1. f = Cleanup(k)
          BY <2>6, <3>5, <4>3, ZenonT(60) DEF CleanupDone
        <5>2. k = kind /\ f # kind
          BY <1>3, <2>6, <3>5, <5>1, ZenonT(60) DEF HookKinds, Cleanup
        <5>3. kind \notin worker.fin
          BY <3>5, <5>2, ZenonT(60) DEF CleanupDone, At, Stage, HookKinds, Cleanup
        <5>4. Calm(h)
          BY <1>1, <1>3, <4>1, <5>3, ZenonT(60) DEF CleanupInv
        <5>5. Over(h)
          BY <1>3, <3>5, <5>2, <5>4, OverAfter, ZenonT(60) DEF CleanupDone
        <5>6. QED
          BY <4>1, <5>2, <5>5
      <4>4. QED
        BY <4>2, <4>3
    <3>6. worker' # Idle /\ ~UnknownCluster
      BY <2>6, StaysBusy, ZenonT(60)
    <3>7. QED
      BY <2>6, <3>1, <3>2, <3>3, <3>4, <3>5, <3>6, WorkerSteps, ZenonT(60) DEF WorkerStep, Busy
  <2>7. QED
    BY <2>2, <2>5, <2>6, ZenonT(60)
<1>4. QED
  BY <1>2, <1>3, ZenonT(60) DEF CleanupInv

LEMMA CleanupInit == Init => ListInv /\ CleanupInv
<1> SUFFICES ASSUME Init PROVE ListInv /\ CleanupInv
  OBVIOUS
<1>1. PICK plan \in Plans :
        /\ app = [alive |-> TRUE, deleting |-> FALSE, fin |-> plan.declared, op |-> FALSE, approved |-> FALSE]
        /\ api = [r \in Requests |-> NewRequest(IF r \in plan.requests THEN "idle" ELSE "done")]
  BY ZenonT(60) DEF Init
<1>2. plan.declared \subseteq {"cascade"}
  BY DeletionAssumption DEF PlanType
<1>3. Closed(app.fin) /\ Closed({}) /\ cached = app
  BY <1>1, <1>2, ZenonT(60) DEF Init, Closed, HookKinds
<1>4. worker.fin = {} /\ refresh.fin = {} /\ ~Busy /\ ~Doomed
  BY <1>1, ZenonT(60) DEF Init, Idle, RefreshIdle, Busy, Doomed
<1>5. \A r \in Requests : api[r].fin = {}
  BY <1>1, ZenonT(60) DEF NewRequest
<1>6. \A h \in Hooks : live[h] = "absent" /\ seen[h] = "absent"
  BY DeletionAssumption, ZenonT(60) DEF Init, Hooks, Objects
<1>7. QED
  BY <1>3, <1>4, <1>5, <1>6, ZenonT(60) DEF ListInv, CleanupInv, Later

\* Where a kind has one hook, hooks end healthy or degraded and are deleted when they
\* succeeded, no delete hook outlives its application: the finalizers of the cleanup keep the
\* application until the hooks are deleted, through failed passes, restarts, commits and
\* lagging caches (cleanupHooks).
THEOREM HooksGetCleanedUp ==
    ASSUME CleanHooks
    PROVE  Spec => []HooksAreCleanedUp
<1>1. Init => ListInv /\ CleanupInv
  BY CleanupInit
<1>2. TypeInv /\ ControlInv /\ ListInv /\ CleanupInv /\ [Next]_vars => (ListInv /\ CleanupInv)'
  BY ListStep, CleanupStep
<1>3. TypeInv /\ ControlInv /\ CleanupInv => HooksAreCleanedUp
  <2> SUFFICES ASSUME ControlInv, CleanupInv, ~app.alive, Without(CleanupExcuses), NEW h \in Hooks
               PROVE  Over(h)
    BY DEF HooksAreCleanedUp, Without, CleanupExcuses, Over
  <2>1. Doomed /\ app.fin = {}
    BY ZenonT(60) DEF Doomed, ControlInv, Without, CleanupExcuses
  <2>2. PICK kind \in HookKinds : h \in HooksOf(kind)
    BY DEF Hooks, HooksOf, HookKinds
  <2>3. QED
    BY <2>1, <2>2, ZenonT(60) DEF CleanupInv
<1>4. QED
  BY <1>1, <1>2, <1>3, Controlled, PTL DEF Spec

=============================================================================
