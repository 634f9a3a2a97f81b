------------------------------ MODULE Hydrator ------------------------------
(***************************************************************************)
(* The source hydrator of the application controller.                      *)
(*                                                                         *)
(* One worker looks at applications one at a time, and puts the hydration  *)
(* key of those that need hydration on the hydration queue.  The workers   *)
(* of that queue take a key, mark all applications of its group, render    *)
(* their manifests from one dry revision, have the commit server commit    *)
(* them, and record the outcome in each application.  The queues live in   *)
(* memory.  All that survives a restart is the status of the applications, *)
(* which both workers change with merge patches of what differs from the   *)
(* copy they read.                                                         *)
(*                                                                         *)
(* The groups and the specifications of their applications are fixed, and  *)
(* one controller handles them.                                            *)
(***************************************************************************)
EXTENDS CommitServer, FiniteSets

CONSTANTS
    Annotated,   \* applications with the manifest-generate-paths annotation
    Processors,  \* the number of hydration workers
    Plans        \* what happens together: the keys in use (keys), where their dry
                 \* branches start (from), the kinds of faults, and how many of
                 \* them at most (left)

\* Dry revisions are numbered; 0 stands for none.
ASSUME RevisionsAreNumbered == \A k \in Keys : 0 \notin Revisions(k)
ASSUME BranchesStart == \A p \in Plans : p.from = [k \in Keys |-> p.from[k]]
                                        /\ \A k \in Keys : p.from[k] \in Revisions(k)

VARIABLES
    dry,      \* the newest dry revision of each key
    st,       \* the stored sourceHydrator status and annotation of each application
    inf,      \* the same in the informer
    late,     \* whether the time of the stored operation is long enough ago
    checker,  \* what ProcessAppHydrateQueueItem works on
    queue,    \* the hydration queue
    work,     \* what ProcessHydrationQueueItem works on, for each key
    faults,   \* the faults that may still happen
    dropped   \* history: keys that were dropped when nothing in the status tells

vars == <<server, dry, st, inf, late, checker, queue, work, faults, dropped>>
controller == <<st, inf, late, checker, queue, work>>

\* The fields of currentOperation (spec: whether its sourceHydrator is that of
\* the application), lastComparedDryRevision, lastSuccessfulOperation and the
\* hydrate annotation.
NoStatus == [phase |-> "none", spec |-> FALSE, dry |-> 0, sha |-> 0,
             cmp |-> 0, okDry |-> 0, okSha |-> 0, ask |-> "none"]

NoCheck == [app |-> "none"]
Idle == [pc |-> "idle"]

Fault(kind) ==
    /\ kind \in faults.kinds /\ faults.left > 0
    /\ faults' = [faults EXCEPT !.left = @ - 1]

-----------------------------------------------------------------------------
(* PersistHydrationStatus: a merge patch of what differs from the copy     *)
(* orig, without the annotation, if anything does.  The result goes to the *)
(* informer, where an older event may replace it for a while.  An error is *)
(* logged.                                                                 *)

Consumed(s) == [s EXCEPT !.ask = "none"]

MergePatch(stored, orig, new) ==
    [f \in DOMAIN stored |-> IF new[f] # orig[f] THEN new[f] ELSE stored[f]]

\* The times of an operation are taken when it starts and when it fails.
Stamped(orig, new) == new.phase # orig.phase /\ new.phase \in {"Hydrating", "Failed"}

PersistHydrationStatus(a, orig, new) ==
    \/ /\ Consumed(new) = orig
       /\ UNCHANGED <<st, inf, late, faults>>
    \/ /\ Consumed(new) # orig
       /\ st' = [st EXCEPT ![a] = MergePatch(@, orig, Consumed(new))]
       /\ late' = [late EXCEPT ![a] = @ /\ ~Stamped(orig, new)]
       /\ \/ inf' = [inf EXCEPT ![a] = st'[a]] /\ UNCHANGED faults
          \/ Fault("lag") /\ inf' = inf
    \/ /\ Consumed(new) # orig
       /\ Fault("patch") /\ UNCHANGED <<st, inf, late>>

-----------------------------------------------------------------------------
(* ProcessAppHydrateQueueItem                                              *)

\* appNeedsHydration, the cases decided without the dry revision.
MustHydrate(c, isLate) ==
    \/ c.phase = "none"
    \/ /\ c.phase # "Hydrating"
       /\ \/ c.ask = "hard"
          \/ ~c.spec
          \/ c.phase = "Failed" /\ (c.ask # "none" \/ isLate)

MustWait(c, isLate) ==
    \/ c.phase = "Hydrating"
    \/ c.phase = "Failed" /\ ~MustHydrate(c, isLate) /\ c.cmp = 0

\* evaluateRevisionChanges: with the annotation only a revision that touches
\* the application counts.
HasChanges(a, from, to) ==
    IF a \in Annotated THEN Manifests[a][from] # Manifests[a][to] ELSE from # to

\* The dry revision a check finds: the newest one, or, unless hydration was
\* asked for, one from the revision cache.
Resolved(a, c) ==
    \/ checker'.rev = dry[KeyOf(a)] /\ UNCHANGED faults
    \/ /\ Fault("cached") /\ c.ask = "none"
       /\ \E n \in 1 .. dry[KeyOf(a)] - 1 : checker'.rev = n

\* A copy that is not the stored one has times of its own.
Lateness(a) == {late[a]} \cup (IF inf[a] # st[a] THEN BOOLEAN ELSE {})

\* Mutation: an operation that started long ago is not looked into again.
needsRefresh_Never(c, isLate) == FALSE

needsRefresh(c, isLate) == c.phase = "Hydrating" /\ isLate

\* rev = 0: the dry revision was not resolved.
Check(a, c, rev, needs) == [app |-> a, copy |-> c, rev |-> rev, needs |-> needs]

\* A check that asks for nothing and has nothing to record is left out.
Matters(c, rev, needs) == needs \/ c.ask # "none" \/ rev \notin {0, c.cmp}

CheckApp(a) ==
    /\ checker = NoCheck
    /\ KeyOf(a) \in faults.keys
    /\ \E isLate \in Lateness(a), c \in {inf[a]} :
       LET decided == MustHydrate(c, isLate) \/ MustWait(c, isLate) \/ c.cmp = 0
       IN  \/ /\ decided
              /\ checker' = Check(a, c, 0, \/ MustHydrate(c, isLate) \/ needsRefresh(c, isLate)
                                           \/ ~MustWait(c, isLate) /\ c.cmp = 0)
              /\ UNCHANGED faults
           \/ /\ ~decided
              /\ \E n \in Revisions(KeyOf(a)) : checker' = Check(a, c, n, HasChanges(a, c.cmp, n))
              /\ Resolved(a, c)
           \/ /\ ~decided
              /\ Fault("resolve") /\ checker' = Check(a, c, 0, FALSE)
    /\ Matters(checker'.copy, checker'.rev, checker'.needs)
    /\ UNCHANGED <<server, dry, st, inf, late, queue, work, dropped>>

Compared(c, rev) == IF rev = 0 THEN c ELSE [c EXCEPT !.cmp = rev]

EndCheck ==
    /\ checker # NoCheck
    /\ PersistHydrationStatus(checker.app, checker.copy, Compared(checker.copy, checker.rev))
    /\ queue' = IF checker.needs THEN queue \cup {KeyOf(checker.app)} ELSE queue
    /\ checker' = NoCheck
    /\ UNCHANGED <<server, dry, work, dropped>>

-----------------------------------------------------------------------------
(* ProcessHydrationQueueItem.  The queue hands a key to one worker at a    *)
(* time; a key added meanwhile waits.                                      *)

\* pc: where the worker is; i: the application a loop is at; apps: its copies of
\* the group, as listed; dry, sha: the revision and the commit, once known.
Started(k) == [pc |-> "mark", i |-> 1, apps |-> [j \in DOMAIN Groups[k] |-> st[Groups[k][j]]],
               dry |-> 0, sha |-> 0]

Busy == {k \in Keys : work[k] # Idle}
Set(k, w) == work' = [work EXCEPT ![k] = w]

Dequeue(k) ==
    /\ k \in queue /\ k \notin Busy /\ Cardinality(Busy) < Processors
    /\ queue' = queue \ {k}
    /\ Set(k, Started(k))
    /\ UNCHANGED <<server, dry, st, inf, late, checker, faults, dropped>>

\* A hydration nobody will ask for again: the group looks as after a success.
Forgotten(k) == \A a \in Group(k) : st[a].phase = "Hydrated"

\* The applications cannot be listed: the key is dropped.
ListFails(k) ==
    /\ k \in queue /\ k \notin Busy /\ Cardinality(Busy) < Processors
    /\ Fault("list")
    /\ queue' = queue \ {k}
    /\ dropped' = IF Forgotten(k) THEN dropped \cup {k} ELSE dropped
    /\ UNCHANGED <<server, dry, st, inf, late, checker, work>>

\* One turn of a loop over the group; after the last one the worker is at next.
Turn(k, copy, next) ==
    IF work[k].i < Len(Groups[k])
    THEN Set(k, [work[k] EXCEPT !.i = @ + 1, !.apps[work[k].i] = copy])
    ELSE Set(k, IF next = "idle" THEN Idle
                ELSE [work[k] EXCEPT !.i = 1, !.apps[work[k].i] = copy, !.pc = next])

ThisApp(k) == Groups[k][work[k].i]
ThisCopy(k) == work[k].apps[work[k].i]

Marked(c) == [c EXCEPT !.phase = "Hydrating", !.spec = TRUE, !.dry = 0, !.sha = 0]

markAppsHydrating(k) ==
    /\ work[k].pc = "mark"
    /\ LET c == ThisCopy(k) IN
       IF c.phase = "Hydrating"
       THEN Turn(k, c, "render") /\ UNCHANGED <<st, inf, late, faults>>
       ELSE Turn(k, Marked(c), "render") /\ PersistHydrationStatus(ThisApp(k), c, Marked(c))
    /\ UNCHANGED <<server, dry, checker, queue, dropped>>

\* Validation of the group fails, or the manifests of its first application.
RenderFails(k) ==
    /\ work[k].pc = "render"
    /\ Fault("render")
    /\ Set(k, [work[k] EXCEPT !.pc = "fail"])
    /\ UNCHANGED <<server, dry, st, inf, late, checker, queue, dropped>>

WasHydrated(c, n) == c.okDry = n

\* The first application fixes the dry revision of all.  If it was hydrated at
\* that revision, so were they.
RenderFirst(k) ==
    /\ work[k].pc = "render"
    /\ LET first == work[k].apps[1] IN
       Set(k, IF WasHydrated(first, dry[k])
              THEN [work[k] EXCEPT !.pc = "record", !.dry = dry[k], !.sha = first.okSha]
              ELSE [work[k] EXCEPT !.pc = "submit", !.dry = dry[k]])
    /\ UNCHANGED <<server, dry, st, inf, late, checker, queue, faults, dropped>>

\* Mutation: the revision is resolved again for the others.
Rendered_Newest(k, a) == Manifests[a][IF a = Groups[k][1] THEN work[k].dry ELSE dry[k]]

Rendered(k, a) == Manifests[a][work[k].dry]

\* The manifests of the others, the metadata, credentials and templates, then
\* the request.
Submit(k) ==
    /\ work[k].pc = "submit"
    /\ req' = [req EXCEPT ![k] = [NoRequest EXCEPT !.at = "init", !.dry = work[k].dry,
                                  !.paths = [a \in Group(k) |-> Rendered(k, a)]]]
    /\ Set(k, [work[k] EXCEPT !.pc = "commit"])
    /\ UNCHANGED <<commits, notes, dry, st, inf, late, checker, queue, faults, dropped>>

SubmitFails(k) ==
    /\ work[k].pc = "submit"
    /\ Fault("render")
    /\ Set(k, [work[k] EXCEPT !.pc = "fail"])
    /\ UNCHANGED <<server, dry, st, inf, late, checker, queue, dropped>>

Answer(k) ==
    /\ req[k].at \in {"done", "failed"}
    /\ Set(k, IF req[k].at = "done"
              THEN [work[k] EXCEPT !.pc = "record", !.sha = req[k].sha]
              ELSE [work[k] EXCEPT !.pc = "fail"])
    /\ req' = [req EXCEPT ![k] = NoRequest]
    /\ UNCHANGED <<commits, notes, dry, st, inf, late, checker, queue, faults, dropped>>

\* The revision is put into the copy before setAppHydratorError takes the one
\* it compares with, so that the patch has the phase only.
WithRevision(k) ==
    IF work[k].dry = 0 THEN ThisCopy(k)
    ELSE [ThisCopy(k) EXCEPT !.dry = work[k].dry, !.cmp = work[k].dry]

setAppHydratorError(k) ==
    /\ work[k].pc = "fail"
    /\ LET c == WithRevision(k) IN
       PersistHydrationStatus(ThisApp(k), c, [c EXCEPT !.phase = "Failed"])
    /\ Turn(k, ThisCopy(k), "idle")
    /\ UNCHANGED <<server, dry, checker, queue, dropped>>

Succeeded(c, n, sha) ==
    [c EXCEPT !.phase = "Hydrated", !.dry = n, !.sha = sha, !.cmp = n, !.okDry = n, !.okSha = sha]

RecordSuccess(k) ==
    /\ work[k].pc = "record"
    /\ LET c == ThisCopy(k) IN
       PersistHydrationStatus(ThisApp(k), c, Succeeded(c, work[k].dry, work[k].sha))
    /\ Turn(k, ThisCopy(k), "idle")
    /\ UNCHANGED <<server, dry, checker, queue, dropped>>

-----------------------------------------------------------------------------
(* The commit server, and what happens around the hydrator.                *)

CommitServerStep(k) ==
    /\ \/ ServeRequest(k) /\ UNCHANGED faults
       \/ IsHydrated(k, TRUE) /\ Fault("git")
       \/ RequestFails(k) /\ Fault("git")
    /\ UNCHANGED <<dry, controller, dropped>>

DryCommit(k) ==
    /\ "commit" \in faults.kinds /\ k \in faults.keys
    /\ dry[k] + 1 \in Revisions(k)
    /\ dry' = [dry EXCEPT ![k] = @ + 1]
    /\ UNCHANGED <<server, controller, faults, dropped>>

\* A user or a webhook asks for hydration.
RefreshApp(a) ==
    /\ Fault("ask")
    /\ \E kind \in {"normal", "hard"} : st' = [st EXCEPT ![a].ask = kind]
    /\ UNCHANGED <<server, dry, inf, late, checker, queue, work, dropped>>

WatchEvent(a) ==
    /\ inf[a] # st[a]
    /\ inf' = [inf EXCEPT ![a] = st[a]]
    /\ UNCHANGED <<server, dry, st, late, checker, queue, work, faults, dropped>>

\* That a pass takes as long as it takes to give it up is rare, and a fault.
TimePasses(a) ==
    /\ st[a].phase \in {"Hydrating", "Failed"} /\ ~late[a]
    /\ IF KeyOf(a) \in queue \cup Busy THEN Fault("slow") ELSE UNCHANGED faults
    /\ late' = [late EXCEPT ![a] = TRUE]
    /\ UNCHANGED <<server, dry, st, inf, checker, queue, work, dropped>>

\* The controller restarts; its requests to the commit server are cancelled.  A
\* push that is under way has landed before, or not at all: that it lands while
\* the next request of its key is served is left out.
Crash ==
    /\ Fault("crash")
    /\ checker' = NoCheck
    /\ queue' = {}
    /\ work' = [k \in Keys |-> Idle]
    /\ req' = [k \in Keys |-> NoRequest]
    /\ inf' = st
    /\ dropped' = dropped \cup {k \in queue \cup Busy : Forgotten(k)}
    /\ UNCHANGED <<commits, notes, dry, st, late>>

-----------------------------------------------------------------------------
Init ==
    /\ CommitInit
    /\ st = [a \in Apps |-> NoStatus]
    /\ inf = st
    /\ late = [a \in Apps |-> FALSE]
    /\ checker = NoCheck
    /\ queue = {}
    /\ work = [k \in Keys |-> Idle]
    /\ faults \in Plans
    /\ dry = faults.from
    /\ dropped = {}

Hydrate(k) ==
    \/ Dequeue(k) \/ markAppsHydrating(k)
    \/ RenderFirst(k) \/ Submit(k) \/ Answer(k)
    \/ setAppHydratorError(k) \/ RecordSuccess(k)

Next ==
    \/ \E a \in Apps : CheckApp(a) \/ WatchEvent(a) \/ TimePasses(a) \/ RefreshApp(a)
    \/ EndCheck
    \/ \E k \in Keys :
          \/ Hydrate(k) \/ ListFails(k) \/ RenderFails(k) \/ SubmitFails(k)
          \/ CommitServerStep(k) \/ DryCommit(k)
    \/ Crash

Spec == Init /\ [][Next]_vars

\* Every application is looked at again and again: its events and the resync of
\* the informer put it on the queue.  The workers and the commit server go on,
\* events arrive, and time passes.
FairSpec ==
    /\ Spec
    /\ WF_vars(EndCheck)
    /\ \A a \in Apps : SF_vars(CheckApp(a)) /\ WF_vars(WatchEvent(a)) /\ WF_vars(TimePasses(a))
    /\ \A k \in Keys : WF_vars(Hydrate(k)) /\ WF_vars(ServeRequest(k) /\ UNCHANGED <<dry, controller, faults, dropped>>)

-----------------------------------------------------------------------------
(* Properties                                                              *)

\* What an application records as its last successful hydration is true: the
\* commit has the manifests of its group at the dry revision, whoever wrote
\* them.  The commit server goes by the dry SHA in the note of a commit
\* (IsHydrated), so the group may also be another one of the same repository.
HydratedIsCommitted ==
    \A a \in Apps : st[a].okDry # 0 =>
        \E l \in Sharing(KeyOf(a)) : Holds(l, st[a].okDry, st[a].okSha)

\* The branch has the manifests of the newest dry revision of the group.
CaughtUp(k) ==
    \A a \in Group(k) : commits[Tip][a] = Manifests[a][dry[k]] /\ st[a].phase = "Hydrated"

\* The newest dry revision was recorded with a commit that lacks manifests of it.
Misled(k) ==
    \E a \in Group(k) : st[a].okDry = dry[k] /\ commits[st[a].okSha][a] # Manifests[a][dry[k]]

\* The branch catches up with the dry source, whatever fails on the way and
\* wherever the controller is restarted, unless a key is dropped from the queue
\* after its revision was recorded as compared, or its request met the note of
\* another group of the same repository.
BranchCatchesUp ==
    <>[](\A k \in faults.keys :
            CaughtUp(k) \/ k \in dropped \/ (Sharing(k) # {k} /\ Misled(k)))

\* If the applications of a key cannot be listed, hydration is retried.
ListFailureIsRetried == <>[](\A k \in faults.keys : CaughtUp(k))
=============================================================================
