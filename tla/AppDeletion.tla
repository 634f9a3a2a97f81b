------------------------------ MODULE AppDeletion ------------------------------
(***************************************************************************)
(* Deletion of an application: the API server's Delete, the finalizers of  *)
(* the Application object, the operation worker that works them off        *)
(* (controller/appcontroller.go, finalizeApplicationDeletion), the delete  *)
(* hooks (controller/hook.go), the refresh worker that adds and removes    *)
(* the hook finalizers at the end of a reconciliation, and the project     *)
(* whose finalizer waits for its applications.                             *)
(*                                                                         *)
(* Three writers patch the list of finalizers, each with the whole list    *)
(* computed from the copy it read and without a resource version: the last *)
(* patch wins.  The workers read the application from an informer and the  *)
(* destination cluster from the live-state cache; lag says which of the    *)
(* two may be behind in a behaviour.  excuses collects what happened in a  *)
(* behaviour that lets objects outlive their application.                  *)
(***************************************************************************)
EXTENDS Integers

CONSTANTS
    Resources,     \* the objects of the manifests that are not delete hooks
    PreHooks,      \* the objects annotated PreDelete
    PostHooks,     \* the objects annotated PostDelete
    Wave,          \* the sync wave of every object
    Kept,          \* the objects shouldBeDeleted spares (CRDs, Delete=false, helm keep)
    Confirm,       \* the objects whose deletion the user must confirm
    Policies,      \* the delete policies the annotations of a hook name
    HookOutcomes,  \* the health a hook may reach: "healthy", "degraded", "suspended"
    Plans          \* what may happen in a behaviour: see PlanType

Hooks == PreHooks \cup PostHooks
Objects == Resources \cup Hooks
HookKinds == {"pre", "post"}
HooksOf(kind) == IF kind = "pre" THEN PreHooks ELSE PostHooks

\* The finalizers of the controller: resources-finalizer with its propagation policies, and
\* for each kind of hooks the finalizer itself and its "cleanup" stage.
Cleanup(kind) == IF kind = "pre" THEN "preCleanup" ELSE "postCleanup"
HookFinalizers(kind) == {kind, Cleanup(kind)}
Finalizers == {"cascade"} \cup UNION {HookFinalizers(k) : k \in HookKinds}

\* Delete requests: the API server's Delete with and without cascade, and a plain delete of
\* the object (kubectl).
Requests == {"cascade", "orphan", "plain"}

\* A plan bounds a behaviour: the requests made, the finalizers the application is declared
\* with, the kinds of hooks in the manifests and how often they change, the caches that may
\* lag, the number of faults (failed calls, failed hooks, restarts) and whether the project
\* is being deleted too.
PlanType == [requests : SUBSET Requests, declared : SUBSET {"cascade"}, git : SUBSET HookKinds,
             commits : Nat, lag : SUBSET {"app", "live"}, faults : Nat,
             proj : {"live", "deleting"}]

ASSUME DeletionAssumption ==
    /\ Resources \cap Hooks = {} /\ PreHooks \cap PostHooks = {}
    /\ Kept \subseteq Resources /\ Confirm \subseteq Resources
    /\ Wave \in [Objects -> Int]
    /\ Policies \in [Hooks -> SUBSET {"BeforeHookCreation", "HookSucceeded", "HookFailed"}]
    /\ HookOutcomes \subseteq {"healthy", "degraded", "suspended"}
    /\ Plans \subseteq PlanType

VARIABLES
    app,       \* the Application object in the Kubernetes API
    cached,    \* the controller's informer copy of it
    api,       \* the progress of every delete request
    worker,    \* the operation worker: its step and the finalizers of its copy
    refresh,   \* the refresh worker: its step, the copy it read, the hooks it compared with
    live,      \* the objects in the destination cluster
    seen,      \* the live-state cache's view of them
    git,       \* the kinds of delete hooks in the manifests
    proj,      \* the AppProject: "live", "deleting" or "gone"
    status,    \* the kinds of hooks the persisted status was computed with
    lag, commits, faults,  \* from the plan; the last two count down
    due,       \* history: the finalizers the application had when it was deleted
    ran,       \* history: the hooks that completed
    excuses    \* history: what happened that lets objects outlive the application

vars == <<app, cached, api, worker, refresh, live, seen, git, proj, status, lag, commits, faults,
          due, ran, excuses>>
ghosts == <<due, ran, excuses>>

Applications == [alive : BOOLEAN, deleting : BOOLEAN, fin : SUBSET Finalizers, op : BOOLEAN,
                 approved : BOOLEAN]

\* "terminating" is an object with a deletion timestamp; a hook is otherwise in the state its
\* health check reports, and any other object is "live".
ObjectStates(o) ==
    {"absent", "terminating"} \cup IF o \in Hooks THEN {"progressing"} \cup HookOutcomes ELSE {"live"}

-----------------------------------------------------------------------------
(* The Kubernetes API. *)

Gone == [app EXCEPT !.alive = FALSE, !.deleting = FALSE, !.fin = {}, !.op = FALSE]

\* A merge patch of the finalizers.  No finalizer can be added to an object that is being
\* deleted, and such an object disappears with its last one.
PatchAccepted(fin) == app.alive /\ (app.deleting => fin \subseteq app.fin)
Patched(fin) == IF app.deleting /\ fin = {} THEN Gone ELSE [app EXCEPT !.fin = fin]

\* The patch undoes what somebody else wrote after the writer read old.
Overwrites(old, fin) == \/ app.fin \ (old \cup fin) # {}
                        \/ (old \cap fin) \ app.fin # {}
AfterPatch(old, fin) == IF Overwrites(old, fin) THEN excuses \cup {"overwritten"} ELSE excuses

-----------------------------------------------------------------------------
(* Delete requests: the API server's Delete, and a plain delete of the object. *)

SetCascadedDeletion(fin) == fin \cup {"cascade"}
UnSetCascadedDeletion(fin) == fin \ {"cascade"}

NewRequest(pc) == [pc |-> pc, old |-> {}, fin |-> {}]

ApiRead(r) ==
    /\ api[r].pc = "idle"
    /\ LET fin == CASE r = "cascade" /\ ~app.deleting -> SetCascadedDeletion(app.fin)
                    [] r = "orphan" -> UnSetCascadedDeletion(app.fin)
                    [] OTHER -> app.fin
           pc == IF fin # app.fin THEN "patch" ELSE "delete"
       IN api' = [api EXCEPT ![r] = IF app.alive THEN [pc |-> pc, old |-> app.fin, fin |-> fin]
                                    ELSE NewRequest("done")]
    /\ UNCHANGED <<app, worker, refresh, live, git, proj, status, lag, commits, faults, ghosts>>

\* A refused patch ends the request with an error.
ApiPatch(r) ==
    /\ api[r].pc = "patch"
    /\ IF PatchAccepted(api[r].fin)
       THEN /\ app' = Patched(api[r].fin)
            /\ api' = [api EXCEPT ![r].pc = "delete"]
            /\ excuses' = AfterPatch(api[r].old, api[r].fin) \cup (IF r = "orphan" THEN {"orphan"} ELSE {})
       ELSE /\ api' = [api EXCEPT ![r] = NewRequest("done")]
            /\ UNCHANGED <<app, excuses>>
    /\ UNCHANGED <<worker, refresh, live, git, proj, status, lag, commits, faults, due, ran>>

ApiDelete(r) ==
    /\ api[r].pc = "delete"
    /\ api' = [api EXCEPT ![r] = NewRequest("done")]
    /\ IF app.alive /\ ~app.deleting
       THEN /\ app' = IF app.fin = {} THEN Gone ELSE [app EXCEPT !.deleting = TRUE]
            /\ due' = app.fin \cup (IF r = "cascade" THEN {"cascade"} ELSE {})
       ELSE UNCHANGED <<app, due>>
    /\ UNCHANGED <<worker, refresh, live, git, proj, status, lag, commits, faults, ran, excuses>>

\* The user confirms the deletion of the objects that ask for it.
ApproveDeletion ==
    /\ Confirm # {} /\ app.alive /\ app.deleting /\ ~app.approved
    /\ app' = [app EXCEPT !.approved = TRUE]
    /\ UNCHANGED <<api, worker, refresh, live, git, proj, status, lag, commits, faults, ghosts>>

-----------------------------------------------------------------------------
(* The operation worker: processAppOperationQueueItem and finalizeApplicationDeletion. *)

Idle == [pc |-> "idle", old |-> {}, fin |-> {}, approved |-> FALSE]
Return == worker' = Idle
Present(view) == {o \in Objects : view[o] # "absent"}
ShouldBeDeleted(view) == Present(view) \ Kept

\* The informer's copy asks for work.  With an operation in that copy the application is read
\* again and the operation processed (it applies the manifests, delete hooks left out).
RunOperation ==
    /\ worker.pc = "idle" /\ cached.alive /\ cached.op
    /\ app.alive /\ app.op
    /\ app' = [app EXCEPT !.op = FALSE]
    /\ live' = [o \in Objects |-> IF o \in Resources /\ live[o] = "absent" THEN "live" ELSE live[o]]
    /\ excuses' = IF app.deleting /\ "cascade" \notin app.fin THEN excuses \cup {"lateSync"} ELSE excuses
    /\ UNCHANGED <<api, worker, refresh, git, proj, status, lag, commits, faults, due, ran>>

\* finalizeApplicationDeletion reads the application again; when it is gone, or the read
\* fails, the pass ends.
StartsPass ==
    /\ worker.pc = "idle" /\ cached.alive /\ app.alive
    /\ \/ cached.deleting /\ ~cached.op
       \/ cached.op /\ ~app.op /\ app.deleting

FinalizeApplicationDeletion ==
    /\ StartsPass
    /\ worker' = [pc |-> "branch", old |-> app.fin, fin |-> app.fin, approved |-> app.approved]
    /\ UNCHANGED <<app, api, refresh, live, git, proj, status, lag, commits, faults, ghosts>>

UpdateFinalizers(pc, fin) == worker' = [worker EXCEPT !.pc = pc, !.fin = fin]

\* GetDestinationCluster fails, whatever the reason: every finalizer of the controller is
\* dropped.
UnknownCluster ==
    /\ StartsPass /\ faults > 0
    /\ faults' = faults - 1
    /\ worker' = [pc |-> "strip", old |-> app.fin, fin |-> app.fin \ Finalizers,
                  approved |-> app.approved]
    /\ UNCHANGED <<app, api, refresh, live, git, proj, status, lag, commits, ghosts>>

\* A call of the pass fails before it has an effect: the error becomes a condition.
PassFails ==
    /\ worker.pc # "idle" /\ faults > 0
    /\ faults' = faults - 1
    /\ Return
    /\ UNCHANGED <<app, api, refresh, live, git, proj, status, lag, commits, ghosts>>

\* Deleting an object starts its termination; finalizers and dependents delay its end.
Terminated(objs) ==
    [o \in Objects |-> IF o \in objs /\ live[o] # "absent" THEN "terminating" ELSE live[o]]

\* The order in which a pass looks at the finalizers of its copy.
Stage(fin) ==
    IF "pre" \in fin THEN "pre"
    ELSE IF "cascade" \in fin THEN "cascade"
    ELSE IF "post" \in fin THEN "post"
    ELSE IF "preCleanup" \in fin THEN "preCleanup" ELSE "postCleanup"
At(stage) == worker.pc = "branch" /\ stage \in worker.fin /\ Stage(worker.fin) = stage

\* The health check reports an object with a deletion timestamp as progressing.
StillRunning(h) == seen[h] \in {"progressing", "terminating"}

\* executeHooks: create the hooks of the manifests that are not in the cache; otherwise
\* delete the degraded ones; otherwise wait for those that progress; otherwise done.
Running(kind) == HooksOf(kind) \cap Present(seen)
Expected(kind) == IF kind \in git THEN HooksOf(kind) \ Running(kind) ELSE {}
Created(kind) == {h \in Expected(kind) : live[h] = "absent"}
Failed(kind) == {h \in Running(kind) : seen[h] = "degraded"}
Started(hooks) == [o \in Objects |-> IF o \in hooks THEN "progressing" ELSE live[o]]

\* The stage is over although a hook is missing in the cache, or is there unseen.
AfterHooks(kind) ==
    excuses \cup (IF Expected(kind) = {} THEN {} ELSE {"stale"})
            \cup (IF HooksOf(kind) \cap Present(live) \subseteq Running(kind) THEN {} ELSE {"unseen"})

ExecuteHooks(kind) ==
    LET progressing == {h \in Running(kind) : StillRunning(h)}
    IN CASE Created(kind) # {} ->
              live' = Started(Created(kind)) /\ Return /\ UNCHANGED excuses
         [] Created(kind) = {} /\ Failed(kind) # {} ->
              live' = Terminated(Failed(kind)) /\ Return /\ UNCHANGED excuses
         [] Created(kind) = {} /\ Failed(kind) = {} /\ progressing # {} ->
              Return /\ UNCHANGED <<live, excuses>>
         [] OTHER ->
              /\ UpdateFinalizers(IF kind = "pre" THEN "patchPre" ELSE "patch", worker.fin \ {kind})
              /\ excuses' = AfterHooks(kind)
              /\ UNCHANGED live

PreDeleteHooks ==
    /\ At("pre")
    /\ ExecuteHooks("pre")
    /\ UNCHANGED <<app, api, refresh, git, proj, status, lag, commits, faults, due, ran>>

\* FilterObjectsForDeletion: the objects of the highest wave.
FilterObjectsForDeletion_AllWaves(objs) == objs
FilterObjectsForDeletion(objs) == {o \in objs : \A p \in objs : Wave[p] <= Wave[o]}

\* One pass of the cascade: wait for objects that terminate and for a confirmation, then
\* delete one wave.  An object of the cache that is gone already makes its delete fail.
CascadeWaits == \/ \E o \in Objects : seen[o] = "terminating"
                \/ Confirm \cap ShouldBeDeleted(seen) # {} /\ ~worker.approved

DeleteWave ==
    /\ At("cascade")
    /\ LET doomed == FilterObjectsForDeletion(ShouldBeDeleted(seen))
       IN IF CascadeWaits THEN Return /\ UNCHANGED live
          ELSE /\ live' = Terminated(doomed)
               /\ IF \E o \in doomed : live[o] = "absent" THEN Return
                  ELSE worker' = [worker EXCEPT !.pc = "relist"]
    /\ UNCHANGED <<app, api, refresh, git, proj, status, lag, commits, faults, ghosts>>

\* Some deletes of the wave fail after others were accepted.
DeleteWaveFails ==
    /\ At("cascade")
    /\ ~CascadeWaits /\ faults > 0
    /\ faults' = faults - 1
    /\ \E done \in SUBSET FilterObjectsForDeletion(ShouldBeDeleted(seen)) :
          live' = Terminated(done)
    /\ Return
    /\ UNCHANGED <<app, api, refresh, git, proj, status, lag, commits, ghosts>>

\* The objects are listed again: the finalizer goes when none is left to delete.
CascadeDone_NoRelist ==
    /\ worker.pc = "relist"
    /\ UpdateFinalizers("patch", UnSetCascadedDeletion(worker.fin))
    /\ UNCHANGED <<app, api, refresh, live, git, proj, status, lag, commits, faults, ghosts>>
CascadeDone_CountsKept ==
    /\ worker.pc = "relist"
    /\ IF Present(seen) # {} THEN Return
       ELSE UpdateFinalizers("patch", UnSetCascadedDeletion(worker.fin))
    /\ UNCHANGED <<app, api, refresh, live, git, proj, status, lag, commits, faults, ghosts>>
CascadeDone ==
    /\ worker.pc = "relist"
    /\ IF ShouldBeDeleted(seen) # {} THEN Return /\ UNCHANGED excuses
       ELSE /\ UpdateFinalizers("patch", UnSetCascadedDeletion(worker.fin))
            /\ excuses' = IF ShouldBeDeleted(live) = {} THEN excuses ELSE excuses \cup {"stale"}
    /\ UNCHANGED <<app, api, refresh, live, git, proj, status, lag, commits, faults, due, ran>>

PostDeleteHooks_NoWait ==
    /\ At("post")
    /\ live' = [o \in Objects |-> IF o \in PostHooks /\ "post" \in git /\ live[o] = "absent"
                                 THEN "progressing" ELSE live[o]]
    /\ UpdateFinalizers("patch", worker.fin \ {"post"})
    /\ UNCHANGED <<app, api, refresh, git, proj, status, lag, commits, faults, ghosts>>
PostDeleteHooks ==
    /\ At("post")
    /\ ExecuteHooks("post")
    /\ UNCHANGED <<app, api, refresh, git, proj, status, lag, commits, faults, due, ran>>

\* hook.DeletePolicies: a hook without a policy has the default one.
DeletePolicies(h) == IF Policies[h] = {} THEN {"BeforeHookCreation"} ELSE Policies[h]

\* cleanupHooks decides with the worst health of all hooks of the kind.
AggregatedHealth(hs) ==
    LET health == {IF seen[h] = "terminating" THEN "progressing" ELSE seen[h] : h \in hs}
    IN CASE "degraded" \in health -> "degraded"
         [] "degraded" \notin health /\ "progressing" \in health -> "progressing"
         [] health \cap {"degraded", "progressing"} = {} /\ "suspended" \in health -> "suspended"
         [] OTHER -> "healthy"

CleanupDeletes_FailedOnly(h, health) ==
    \/ DeletePolicies(h) = {}
    \/ "HookFailed" \in DeletePolicies(h) /\ health = "degraded"
CleanupDeletes(h, health) ==
    \/ DeletePolicies(h) = {}
    \/ "HookFailed" \in DeletePolicies(h) /\ health = "degraded"
    \/ "HookSucceeded" \in DeletePolicies(h) /\ health = "healthy"

CleanedUp(kind) == {h \in Running(kind) : CleanupDeletes(h, AggregatedHealth(Running(kind)))}

CleanupHooks(kind) ==
    /\ At(Cleanup(kind))
    /\ IF CleanedUp(kind) = {} THEN UpdateFinalizers("patch", worker.fin \ {Cleanup(kind)}) /\ UNCHANGED live
       ELSE Return /\ live' = Terminated({h \in CleanedUp(kind) : seen[h] # "terminating"})
    /\ UNCHANGED <<app, api, refresh, git, proj, status, lag, commits, faults, ghosts>>

\* One of the calls that create or delete hooks fails, with the others done or not.
HooksFail(kind) ==
    /\ faults > 0
    /\ faults' = faults - 1
    /\ \/ At(kind) /\ \E done \in SUBSET Created(kind) : live' = Started(done)
       \/ /\ At(kind) /\ Created(kind) = {}
          /\ \E done \in SUBSET Failed(kind) : live' = Terminated(done)
       \/ At(Cleanup(kind)) /\ \E done \in SUBSET CleanedUp(kind) : live' = Terminated(done)
    /\ Return
    /\ UNCHANGED <<app, api, refresh, git, proj, status, lag, commits, ghosts>>

\* updateFinalizers needs the project, then patches the whole list.  After the PreDelete
\* finalizer the pass goes on with the cascade; after every other one it returns.
FinalizerPatch ==
    /\ worker.pc \in {"patch", "patchPre", "strip"}
    /\ IF proj # "gone" /\ PatchAccepted(worker.fin)
       THEN /\ app' = Patched(worker.fin)
            /\ excuses' = AfterPatch(worker.old, worker.fin)
                            \cup (IF worker.pc = "strip" THEN {"cluster"} ELSE {})
            /\ worker' = IF worker.pc = "patchPre"
                         THEN [worker EXCEPT !.pc = "branch", !.old = worker.fin]
                         ELSE Idle
       ELSE Return /\ UNCHANGED <<app, excuses>>
    /\ UNCHANGED <<api, refresh, live, git, proj, status, lag, commits, faults, due, ran>>

-----------------------------------------------------------------------------
(* The refresh worker: the end of processAppRefreshQueueItem. *)

RefreshIdle == [pc |-> "idle", copy |-> [deleting |-> FALSE, op |-> FALSE, fin |-> {}], fin |-> {}, hooks |-> {}]

\* Its application is the informer's copy; the comparison reads the manifests.
RefreshStart ==
    /\ refresh.pc = "idle" /\ cached.alive /\ proj # "gone"
    /\ refresh' = [pc |-> "autosync", fin |-> cached.fin, hooks |-> git,
                   copy |-> [deleting |-> cached.deleting, op |-> cached.op, fin |-> cached.fin]]
    /\ UNCHANGED <<app, api, worker, live, git, proj, status, lag, commits, faults, ghosts>>

\* autoSync skips an application its copy shows being deleted or operated on; SetAppOperation
\* reads the application again and looks only at its operation.
AutoSync ==
    /\ refresh.pc = "autosync"
    /\ LET sync == /\ ~refresh.copy.op /\ ~refresh.copy.deleting
                   /\ \E o \in Resources : seen[o] = "absent"
                   /\ app.alive /\ ~app.op
       IN /\ app' = IF sync THEN [app EXCEPT !.op = TRUE] ELSE app
          /\ cached' = IF sync THEN app' ELSE cached
    /\ refresh' = [refresh EXCEPT !.pc = "pre"]
    /\ UNCHANGED <<api, worker, live, seen, git, proj, status, lag, commits, faults, ghosts>>

HookFinalizersDiffer(kind) ==
    /\ ~refresh.copy.deleting
    /\ \E f \in HookFinalizers(kind) : (kind \in refresh.hooks) # (f \in refresh.fin)

WithHookFinalizers_NoCleanup(kind, fin) ==
    IF kind \in refresh.hooks THEN fin \cup {kind} ELSE fin \ HookFinalizers(kind)
WithHookFinalizers(kind, fin) ==
    IF kind \in refresh.hooks THEN fin \cup HookFinalizers(kind) ELSE fin \ HookFinalizers(kind)

\* Set or unset the finalizers of one kind of hooks and patch the list; a failure is logged.
RefreshFinalizers(kind) ==
    /\ refresh.pc = kind
    /\ \E fails \in {f \in BOOLEAN : f => HookFinalizersDiffer(kind) /\ faults > 0} :
         LET fin == WithHookFinalizers(kind, refresh.fin)
         IN /\ refresh' = [refresh EXCEPT !.pc = IF kind = "pre" THEN "post" ELSE "persist",
                                          !.fin = IF HookFinalizersDiffer(kind) THEN fin ELSE @]
            /\ faults' = IF fails THEN faults - 1 ELSE faults
            /\ IF HookFinalizersDiffer(kind) /\ ~fails /\ proj # "gone" /\ PatchAccepted(fin)
               THEN /\ app' = Patched(fin)
                    /\ excuses' = AfterPatch(refresh.copy.fin, fin)
                                    \cup (IF app.deleting THEN {"lateUnset"} ELSE {})
               ELSE /\ excuses' = IF fails THEN excuses \cup {"patchFailed"} ELSE excuses
                    /\ UNCHANGED app
    /\ UNCHANGED <<api, worker, live, git, proj, status, lag, commits, due, ran>>

\* persistReconciliationStatus writes the status, without which it compared with these hooks.
RefreshPersist ==
    /\ refresh.pc = "persist"
    /\ status' = IF app.alive THEN refresh.hooks ELSE status
    /\ cached' = IF app.alive THEN app ELSE cached
    /\ refresh' = RefreshIdle
    /\ UNCHANGED <<app, api, worker, live, seen, git, proj, lag, commits, faults, ghosts>>

-----------------------------------------------------------------------------
(* Projects, the cluster, the manifests and the informers. *)

\* finalizeProjectDeletion counts the applications of the informer.
FinalizeProjectDeletion ==
    /\ proj = "deleting" /\ ~cached.alive
    /\ proj' = "gone"
    /\ UNCHANGED <<app, api, worker, refresh, live, git, status, lag, commits, faults, ghosts>>

Vanish(o) ==
    /\ live[o] = "terminating"
    /\ live' = [live EXCEPT ![o] = "absent"]
    /\ UNCHANGED <<app, api, worker, refresh, git, proj, status, lag, commits, faults, ghosts>>

HookFinishes(h, outcome) ==
    /\ live[h] = "progressing"
    /\ outcome # "healthy" => faults > 0
    /\ faults' = IF outcome = "healthy" THEN faults ELSE faults - 1
    /\ live' = [live EXCEPT ![h] = outcome]
    /\ ran' = IF outcome = "healthy" THEN ran \cup {h} ELSE ran
    /\ UNCHANGED <<app, api, worker, refresh, git, proj, status, lag, commits, due, excuses>>

\* A commit adds the hooks of a kind to the manifests or removes them.
Commit(kind) ==
    /\ commits > 0 /\ app.alive
    /\ git' = IF kind \in git THEN git \ {kind} ELSE git \cup {kind}
    /\ commits' = commits - 1
    /\ excuses' = IF app.deleting THEN excuses \cup {"commit"} ELSE excuses
    /\ UNCHANGED <<app, api, worker, refresh, live, proj, status, lag, faults, due, ran>>

\* A restart loses both workers' progress and lists both caches anew.  It may interrupt a
\* reconciliation between its patches and its status.
Restart ==
    /\ faults > 0 /\ (worker # Idle \/ refresh # RefreshIdle)
    /\ faults' = faults - 1
    /\ worker' = Idle /\ refresh' = RefreshIdle
    /\ cached' = app /\ seen' = live
    /\ excuses' = IF refresh.pc \in {"post", "persist"} THEN excuses \cup {"interrupted"} ELSE excuses
    /\ UNCHANGED <<app, api, live, git, proj, status, lag, commits, due, ran>>

WatchApplication ==
    /\ cached # app
    /\ cached' = app
    /\ UNCHANGED <<app, api, worker, refresh, live, seen, git, proj, status, lag, commits, faults, ghosts>>

WatchObject(o) ==
    /\ seen[o] # live[o]
    /\ seen' = [seen EXCEPT ![o] = live[o]]
    /\ UNCHANGED <<app, cached, api, worker, refresh, live, git, proj, status, lag, commits, faults, ghosts>>

-----------------------------------------------------------------------------
Init ==
    /\ \E plan \in Plans :
         /\ app = [alive |-> TRUE, deleting |-> FALSE, fin |-> plan.declared, op |-> FALSE,
                   approved |-> FALSE]
         /\ api = [r \in Requests |-> NewRequest(IF r \in plan.requests THEN "idle" ELSE "done")]
         /\ git = plan.git /\ proj = plan.proj /\ lag = plan.lag
         /\ commits = plan.commits /\ faults = plan.faults
    /\ cached = app /\ status = {}
    /\ worker = Idle /\ refresh = RefreshIdle
    /\ live = [o \in Objects |-> IF o \in Resources THEN "live" ELSE "absent"]
    /\ seen = live
    /\ due = {} /\ ran = {} /\ excuses = {}

\* What the operation worker does in one pass.
WorkerPass ==
    \/ RunOperation \/ FinalizeApplicationDeletion
    \/ PreDeleteHooks \/ DeleteWave \/ CascadeDone \/ PostDeleteHooks
    \/ \E kind \in HookKinds : CleanupHooks(kind)
    \/ FinalizerPatch

Step ==
    \/ \E r \in Requests : ApiRead(r) \/ ApiPatch(r) \/ ApiDelete(r)
    \/ ApproveDeletion
    \/ WorkerPass \/ UnknownCluster \/ PassFails \/ DeleteWaveFails
    \/ \E kind \in HookKinds : HooksFail(kind)
    \/ RefreshStart
    \/ \E kind \in HookKinds : RefreshFinalizers(kind)
    \/ FinalizeProjectDeletion
    \/ \E o \in Objects : Vanish(o)
    \/ \E h \in Hooks, outcome \in HookOutcomes : HookFinishes(h, outcome)
    \/ \E kind \in HookKinds : Commit(kind)

\* A cache that may lag keeps what it has until its watch delivers.
Caches ==
    /\ cached' = IF "app" \in lag THEN cached ELSE app'
    /\ seen' = IF "live" \in lag THEN seen ELSE live'

Next ==
    \/ Step /\ Caches
    \/ AutoSync \/ RefreshPersist
    \/ Restart
    \/ WatchApplication
    \/ \E o \in Objects : WatchObject(o)

Spec == Init /\ [][Next]_vars

-----------------------------------------------------------------------------
(* Fairness.  The informer's resync puts a deleting application back into the operation   *)
(* queue, Kubernetes ends the termination of objects, hooks end, watches deliver and the   *)
(* user confirms.                                                                          *)

Fairness ==
    /\ WF_vars(WorkerPass /\ Caches)
    /\ WF_vars(ApproveDeletion /\ Caches)
    /\ WF_vars(FinalizeProjectDeletion /\ Caches)
    /\ WF_vars(WatchApplication)
    /\ \A o \in Objects : WF_vars(Vanish(o) /\ Caches) /\ WF_vars(WatchObject(o))
    /\ \A h \in Hooks : WF_vars(HookFinishes(h, "healthy") /\ Caches)

FairSpec == Spec /\ Fairness

-----------------------------------------------------------------------------
(* Properties. *)

\* A cascaded deletion leaves no object behind: once the application is gone, so are all its
\* resources that may be deleted.  It takes an orphaning request, an overwritten list of
\* finalizers, an unknown cluster, a sync after the cascade or a stale live-state cache to
\* break this (finalizeApplicationDeletion).
NothingOutlivesTheApplication ==
    ~app.alive /\ "cascade" \in due /\ excuses \cap {"orphan", "overwritten", "cluster", "lateSync", "stale"} = {}
        => ShouldBeDeleted(live) \cap Resources = {}

\* The hooks that were due when the application was deleted have completed by the time it is
\* gone (executeHooks).
HooksRanByTheEnd ==
    ~app.alive /\ excuses \cap {"overwritten", "cluster", "stale", "commit", "lateUnset"} = {}
        => \A kind \in due \cap git : HooksOf(kind) \subseteq ran

\* The delete hooks are cleaned up: when the application is gone, no hook is left that nobody
\* deleted ("Once all PostDelete hooks complete successfully, they are cleaned up and the
\* Application is fully removed", docs/user-guide/sync-waves.md:89; cleanupHooks).  A kind with
\* several hooks can break this: while one of them terminates, the health of all of them is
\* Progressing, none is deleted and the finalizer goes.
HooksAreCleanedUp ==
    ~app.alive /\ excuses \cap {"overwritten", "cluster", "stale", "unseen", "lateUnset"} = {}
        => \A h \in Hooks : live[h] \in {"absent", "terminating"}

\* What a step may delete and create: DeletionInOrder.
InOrder ==
    /\ \A o \in Resources : live[o] = "live" /\ live'[o] = "terminating" =>
         /\ \/ "live" \in lag
            \/ \A p \in ShouldBeDeleted(live) : Wave[p] <= Wave[o]
         /\ "pre" \in due \cap git /\ excuses \cap {"overwritten", "stale", "commit", "lateUnset"} = {}
              => PreHooks \subseteq ran
    /\ \A h \in PostHooks :
         live[h] = "absent" /\ live'[h] = "progressing" /\ "cascade" \in due
         /\ excuses \cap {"orphan", "overwritten", "lateSync", "stale"} = {}
           => ShouldBeDeleted(live) \cap Resources = {}

\* Everything is deleted in its turn.  The cascade starts deleting a resource only when the
\* PreDelete hooks that were due have completed (their finalizer blocks the rest) and every
\* resource of a higher wave is gone from the cluster (FilterObjectsForDeletion, and the wait
\* for objects that terminate); a PostDelete hook is created only when the cascade that was
\* asked for is over (executePostDeleteHooks comes last).
DeletionInOrder == [][InOrder]_vars

\* Outside a reconciliation, an application whose status was computed with delete hooks has
\* their finalizers, so that it cannot be deleted past them: they are patched before the
\* status is persisted.  A failed or an overwritten patch breaks this, and a restart between
\* the patch that removes them and the status.
StatusImpliesFinalizers ==
    app.alive /\ ~app.deleting /\ refresh.pc = "idle"
    /\ excuses \cap {"overwritten", "patchFailed", "interrupted"} = {}
        => \A kind \in status : HookFinalizers(kind) \subseteq app.fin

\* A deletion ends: hooks, confirmations, waves and cleanup never wait for each other.
DeletionCompletes == app.deleting ~> ~app.alive

=============================================================================
