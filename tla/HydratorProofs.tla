--------------------------- MODULE HydratorProofs ---------------------------
(***************************************************************************)
(* What the hydrator and the commit server record is true, for any groups, *)
(* revisions and workers, and any number of faults: notes name what their  *)
(* commits have, for one of the groups of the dry repository, commits do   *)
(* not mix revisions, and the status of an application names a commit with *)
(* the manifests of such a group, its own if no other group shares both    *)
(* repository and branch.  The invariant and the steps of the commit       *)
(* server are in CommitServerProofs.                                       *)
(***************************************************************************)
EXTENDS CommitServerProofs

-----------------------------------------------------------------------------
(* The workers.                                                            *)

\* A patch changes the status of one application, and its last success only if
\* the copies differ in it.
LEMMA PersistEffect ==
    ASSUME StatusTyped, NEW a \in Apps, NEW orig, NEW new, IsStatus(orig), IsStatus(new),
           PersistHydrationStatus(a, orig, new)
    PROVE  /\ st' = [b \in Apps |-> st'[b]] /\ inf' = [b \in Apps |-> inf'[b]]
           /\ \A b \in Apps : IsStatus(st'[b]) /\ IsStatus(inf'[b])
           /\ \A b \in Apps \ {a} : st'[b] = st[b]
           /\ SameOutcome(new, orig) => SameOutcome(st'[a], st[a])
           /\ SameOutcome(orig, st[a]) => SameOutcome(st'[a], st[a]) \/ SameOutcome(st'[a], new)
<1>1. PICK con, merged : con = Consumed(new) /\ merged = MergePatch(st[a], orig, con)
  OBVIOUS
<1>2. con = [f \in Fields |-> con[f]] /\ con.okDry = new.okDry /\ con.okSha = new.okSha
  BY <1>1, ZenonT(30) DEF Consumed, IsStatus, Fields
<1>3. st[a] = [f \in Fields |-> st[a][f]]
  BY DEF StatusTyped, IsStatus
<1>4. merged = [f \in Fields |-> IF con[f] # orig[f] THEN con[f] ELSE st[a][f]]
  BY <1>1, <1>3 DEF MergePatch
<1>5. IsStatus(merged)
  BY <1>4 DEF IsStatus
<1>6. /\ merged.okDry = IF new.okDry # orig.okDry THEN new.okDry ELSE st[a].okDry
      /\ merged.okSha = IF new.okSha # orig.okSha THEN new.okSha ELSE st[a].okSha
  BY <1>2, <1>4 DEF Fields
<1>7. CASE UNCHANGED <<st, inf>>
  BY <1>7 DEF StatusTyped, SameOutcome
<1>8. CASE st' = [st EXCEPT ![a] = merged] /\ (inf' = [inf EXCEPT ![a] = st'[a]] \/ inf' = inf)
  <2>1. st'[a] = merged /\ \A b \in Apps \ {a} : st'[b] = st[b]
    BY <1>8 DEF StatusTyped
  <2>2. st' = [b \in Apps |-> st'[b]] /\ \A b \in Apps : IsStatus(st'[b])
    BY <1>5, <1>8, <2>1 DEF StatusTyped
  <2>3. inf' = [b \in Apps |-> inf'[b]] /\ \A b \in Apps : inf'[b] \in {inf[b], st'[b]}
    BY <1>8 DEF StatusTyped
  <2>4. \A b \in Apps : IsStatus(inf'[b])
    BY <2>2, <2>3 DEF StatusTyped
  <2>5. SameOutcome(new, orig) => SameOutcome(merged, st[a])
    BY <1>6 DEF SameOutcome
  <2>6. SameOutcome(orig, st[a]) => SameOutcome(merged, new)
    BY <1>6 DEF SameOutcome
  <2> QED  BY <2>1, <2>2, <2>3, <2>4, <2>5, <2>6
<1> QED  BY <1>1, <1>7, <1>8 DEF PersistHydrationStatus

\* Nothing is recorded or lost: what agreed still agrees.
LEMMA OutcomesKept ==
    ASSUME OutcomesAreTrue, \A a \in Apps : SameOutcome(st'[a], st[a]), commits' = commits
    PROVE  OutcomesAreTrue' /\ \A k \in Keys : \A w : CopiesAgree(k, w) => CopiesAgree(k, w)'
<1>1. OutcomesAreTrue'
  <2> SUFFICES ASSUME NEW k \in Keys, NEW a \in Group(k), st'[a].okDry # 0
               PROVE  /\ st'[a].okDry \in Revisions(k) /\ Known(st'[a].okSha)
                      /\ Vouched(k, st'[a].okDry, st'[a].okSha)
    BY DEF OutcomesAreTrue, Known, Vouched, Holds
  <2>1. st'[a].okDry = st[a].okDry /\ st'[a].okSha = st[a].okSha
    BY GroupFacts DEF SameOutcome
  <2> QED  BY <2>1 DEF OutcomesAreTrue
<1>2. ASSUME NEW k \in Keys, NEW w, CopiesAgree(k, w) PROVE CopiesAgree(k, w)'
  BY <1>2, GroupFacts DEF CopiesAgree, SameOutcome
<1> QED  BY <1>1, <1>2

\* What is true of a request and of a worker depends on the commits only.
LEMMA TruthStays ==
    ASSUME commits' = commits, NEW k, NEW r, r = req'[k], NEW w, w = work'[k],
           ReqTrue(k, r, w), WorkTyped(k, w), WorkTrue(k, w)
    PROVE  (ReqTrue(k, req[k], work[k]) /\ WorkTyped(k, work[k]) /\ WorkTrue(k, work[k]))'
<1>1. ReqTrue(k, req[k], work[k])'
  BY DEF ReqTrue, Known, Vouched, Holds
<1>2. WorkTyped(k, work[k])'
  BY DEF WorkTyped
<1>3. WorkTrue(k, work[k])'
  BY DEF WorkTrue, Known, Vouched, Holds
<1> QED  BY <1>1, <1>2, <1>3

\* The worker of k takes a step, with or without its request.
LEMMA WorkStep ==
    ASSUME Inv, NEW k \in Keys, NEW w, NEW r,
           work' = [work EXCEPT ![k] = w], req' = [req EXCEPT ![k] = r],
           UNCHANGED <<commits, notes, dry>>, StatusTyped', OutcomesAreTrue',
           \A l \in Keys \ {k} : \A v : CopiesAgree(l, v) => CopiesAgree(l, v)',
           ReqTrue(k, r, w), WorkTyped(k, w), WorkTrue(k, w), CopiesAgree(k, w)'
    PROVE  Inv'
<1>1. BranchTyped' /\ NotesAreTrue' /\ RevisionsAreNotMixed'
  <2>1. BranchTyped'  BY DEF Inv, BranchTyped
  <2>2. NotesAreTrue'  BY DEF Inv, NotesAreTrue, Vouched, Holds
  <2>3. RevisionsAreNotMixed'  BY DEF Inv, RevisionsAreNotMixed
  <2> QED  BY <2>1, <2>2, <2>3
<1>2. /\ req' = [l \in Keys |-> IF l = k THEN r ELSE req[l]]
      /\ work' = [l \in Keys |-> IF l = k THEN w ELSE work[l]]
  BY ZenonT(30) DEF Inv, WorkersAgree
<1>3. ASSUME NEW l \in Keys
      PROVE  (ReqTrue(l, req[l], work[l]) /\ WorkTyped(l, work[l]) /\ WorkTrue(l, work[l]))'
  <2>1. ReqTrue(l, req'[l], work'[l]) /\ WorkTyped(l, work'[l]) /\ WorkTrue(l, work'[l])
    BY <1>2 DEF Inv, WorkersAgree
  <2>2. PICK q, v : q = req'[l] /\ v = work'[l]
    OBVIOUS
  <2> QED  BY <2>1, <2>2, TruthStays
<1>4. ASSUME NEW l \in Keys PROVE CopiesAgree(l, work[l])'
  <2>1. CASE l = k
    BY <1>2, <2>1 DEF CopiesAgree
  <2>2. CASE l # k
    <3>1. CopiesAgree(l, work[l])
      BY DEF Inv, WorkersAgree
    <3>2. PICK v : v = work[l]
      OBVIOUS
    <3>3. CopiesAgree(l, v)'
      BY <2>2, <3>1, <3>2
    <3> QED  BY <1>2, <2>2, <3>2, <3>3, SMTT(30) DEF CopiesAgree
  <2> QED  BY <2>1, <2>2
<1> QED  BY <1>1, <1>2, <1>3, <1>4, ZenonT(30) DEF Inv, WorkersAgree

LEMMA ShapeOfWork ==
    ASSUME Inv, NEW k \in Keys
    PROVE  /\ work = [l \in Keys |-> work[l]] /\ req = [l \in Keys |-> req[l]]
           /\ WorkTyped(k, work[k]) /\ WorkTrue(k, work[k]) /\ CopiesAgree(k, work[k])
           /\ ReqTrue(k, req[k], work[k])
           /\ work[k].pc # "commit" => req[k].at = "none"
BY DEF Inv, WorkersAgree, ReqTrue

LEMMA WorkerAtWork ==
    ASSUME Inv, NEW k \in Keys, NEW v, v = work[k], v.pc # "idle"
    PROVE  /\ v # Idle /\ v = WorkOf(v.pc, v.i, v.apps, v.dry, v.sha) /\ v.pc \in Steps
           /\ v.i \in DOMAIN Groups[k] /\ v.apps = [j \in DOMAIN Groups[k] |-> v.apps[j]]
           /\ \A j \in DOMAIN Groups[k] : IsStatus(v.apps[j])
           /\ WorkTrue(k, v) /\ CopiesAgree(k, v)
<1>1. WorkTyped(k, v) /\ WorkTrue(k, v) /\ CopiesAgree(k, v)
  BY ShapeOfWork
<1>2. v # Idle
  BY DEF Idle
<1> QED  BY <1>1, <1>2, SMTT(30) DEF WorkTyped

\* One application more is done, or the loop is over.
LEMMA TurnEffect ==
    ASSUME Inv, NEW k \in Keys, NEW v, v = work[k], v.pc \in Steps, NEW copy, IsStatus(copy),
           NEW next \in {"idle", "render"}, Turn(k, copy, next)
    PROVE  \E w : /\ work' = [work EXCEPT ![k] = w] /\ WorkTyped(k, w)
                  /\ \/ w = Idle
                     \/ /\ w # Idle /\ w.dry = v.dry /\ w.sha = v.sha
                        /\ (w.pc = v.pc /\ w.i = v.i + 1) \/ (w.pc = "render" /\ next = "render")
                        /\ \A j \in DOMAIN Groups[k] : w.apps[j] = IF j = v.i THEN copy ELSE v.apps[j]
<1> USE DEF Idle
<1>1. /\ v = WorkOf(v.pc, v.i, v.apps, v.dry, v.sha) /\ v.i \in DOMAIN Groups[k]
      /\ v.apps = [j \in DOMAIN Groups[k] |-> v.apps[j]]
      /\ \A j \in DOMAIN Groups[k] : IsStatus(v.apps[j])
  BY ShapeOfWork DEF WorkTyped, Steps
<1>2. PICK apps : apps = [v.apps EXCEPT ![v.i] = copy]
  BY ZenonT(30)
<1>3. /\ apps = [j \in DOMAIN Groups[k] |-> apps[j]]
      /\ \A j \in DOMAIN Groups[k] : apps[j] = IF j = v.i THEN copy ELSE v.apps[j]
      /\ \A j \in DOMAIN Groups[k] : IsStatus(apps[j])
  BY <1>1, <1>2, SMTT(30)
<1>4. CASE v.i < Len(Groups[k])
  <2>1. PICK w : w = [v EXCEPT !.i = @ + 1, !.apps[v.i] = copy]
    OBVIOUS
  <2>2. w = WorkOf(v.pc, v.i + 1, apps, v.dry, v.sha)
    BY <1>1, <1>2, <2>1, ZenonT(30) DEF WorkOf
  <2>3. work' = [work EXCEPT ![k] = w]
    BY <1>4, <2>1 DEF Turn, Set
  <2>4. /\ w.pc = v.pc /\ w.i = v.i + 1 /\ w.apps = apps /\ w.dry = v.dry /\ w.sha = v.sha
        /\ w = WorkOf(w.pc, w.i, w.apps, w.dry, w.sha)
    BY <2>2 DEF WorkOf
  <2>5. w.i \in DOMAIN Groups[k] /\ w # Idle
    BY <1>1, <1>4, <2>4, GroupFacts, SMTT(30) DEF Steps
  <2>6. WorkTyped(k, w)
    BY <1>3, <2>4, <2>5, SMTT(30) DEF WorkTyped
  <2> QED  BY <1>3, <2>3, <2>4, <2>5, <2>6, ZenonT(40)
<1>5. CASE ~(v.i < Len(Groups[k])) /\ next = "idle"
  <2>1. work' = [work EXCEPT ![k] = Idle]
    BY <1>5 DEF Turn, Set
  <2> QED  BY <2>1, ZenonT(30) DEF WorkTyped
<1>6. CASE ~(v.i < Len(Groups[k])) /\ next = "render"
  <2>1. PICK w : w = [v EXCEPT !.i = 1, !.apps[v.i] = copy, !.pc = "render"]
    OBVIOUS
  <2>2. w = WorkOf("render", 1, apps, v.dry, v.sha)
    BY <1>1, <1>2, <2>1, ZenonT(40) DEF WorkOf
  <2>3. work' = [work EXCEPT ![k] = w]
    BY <1>6, <2>1 DEF Turn, Set
  <2>4. /\ w.pc = "render" /\ w.i = 1 /\ w.apps = apps /\ w.dry = v.dry /\ w.sha = v.sha
        /\ w = WorkOf(w.pc, w.i, w.apps, w.dry, w.sha)
    BY <2>2 DEF WorkOf
  <2>5. w.i \in DOMAIN Groups[k] /\ w # Idle /\ w.pc \in Steps
    BY <2>4, GroupFacts DEF Steps
  <2>6. WorkTyped(k, w)
    BY <1>3, <2>4, <2>5 DEF WorkTyped
  <2> QED  BY <1>3, <1>6, <2>3, <2>4, <2>5, <2>6, ZenonT(40)
<1> QED  BY <1>4, <1>5, <1>6

\* The worker of k goes on without a change of the status or of a request.
LEMMA QuietWorkStep ==
    ASSUME Inv, NEW k \in Keys, NEW w, work' = [work EXCEPT ![k] = w],
           UNCHANGED <<commits, notes, req, dry, st, inf, checker>>,
           req[k].at = "none", WorkTyped(k, w), WorkTrue(k, w), CopiesAgree(k, w)
    PROVE  Inv'
<1>1. PICK r : r = req[k]
  OBVIOUS
<1>2. req' = [req EXCEPT ![k] = r]
  BY <1>1, ShapeOfWork
<1>3. ReqTrue(k, r, w)
  BY <1>1, ShapeOfWork DEF ReqTrue
<1>4. StatusTyped' /\ OutcomesAreTrue'
  BY ZenonT(30) DEF Inv, StatusTyped, OutcomesAreTrue, Known, Vouched, Holds
<1>5. \A l \in Keys : \A v : CopiesAgree(l, v) => CopiesAgree(l, v)'
  BY SMTT(30) DEF CopiesAgree
<1> QED  BY <1>2, <1>3, <1>4, <1>5, WorkStep, ZenonT(30)

LEMMA DequeueKeepsInv ==
    ASSUME Inv, NEW k \in Keys, Dequeue(k)
    PROVE  Inv'
<1> USE DEF Idle
<1>1. PICK w : w = Started(k)
  OBVIOUS
<1>2. w = WorkOf("mark", 1, w.apps, 0, 0) /\ w.apps = [j \in DOMAIN Groups[k] |-> st[Groups[k][j]]]
  BY <1>1, SMTT(30) DEF Started, WorkOf
<1>3. /\ w.pc = "mark" /\ w.i = 1 /\ w.dry = 0 /\ w.sha = 0 /\ w # Idle
      /\ w = WorkOf(w.pc, w.i, w.apps, w.dry, w.sha)
  BY <1>2 DEF WorkOf
<1>4. \A j \in DOMAIN Groups[k] : w.apps[j] = st[Groups[k][j]] /\ IsStatus(w.apps[j])
  BY <1>2, GroupFacts DEF Inv, StatusTyped
<1>5. WorkTyped(k, w)
  <2>1. w.i \in DOMAIN Groups[k] /\ w.pc \in Steps
    BY <1>3, GroupFacts DEF Steps
  <2>2. w.apps = [j \in DOMAIN Groups[k] |-> w.apps[j]]
    BY <1>2
  <2> QED  BY <1>3, <1>4, <2>1, <2>2, ZenonT(30) DEF WorkTyped
<1>6. WorkTrue(k, w) /\ CopiesAgree(k, w)
  <2>1. WorkTrue(k, w)
    BY <1>3 DEF WorkTrue
  <2>2. CopiesAgree(k, w)
    BY <1>4 DEF CopiesAgree, SameOutcome
  <2> QED  BY <2>1, <2>2
<1>7. work[k] = Idle
  BY DEF Dequeue, Busy
<1>8. req[k].at = "none"
  BY <1>7, ShapeOfWork
<1> QED  BY <1>1, <1>5, <1>6, <1>8, QuietWorkStep, ZenonT(40) DEF Dequeue, Set, server

\* The worker leaves its copies alone and goes to another step.
LEMMA WorkMoves ==
    ASSUME Inv, NEW k \in Keys, NEW v, v = work[k], v.pc \in Steps \ {"record", "commit"},
           NEW w, w.pc \in Steps, w = WorkOf(w.pc, v.i, v.apps, w.dry, w.sha), WorkTrue(k, w),
           work' = [work EXCEPT ![k] = w],
           UNCHANGED <<commits, notes, req, dry, st, inf, checker>>
    PROVE  Inv'
<1> USE DEF Idle
<1>1. /\ v.i \in DOMAIN Groups[k] /\ v.apps = [j \in DOMAIN Groups[k] |-> v.apps[j]]
      /\ \A j \in DOMAIN Groups[k] : IsStatus(v.apps[j])
      /\ CopiesAgree(k, v) /\ v # Idle
  BY ShapeOfWork DEF WorkTyped, Steps
<1>2. w.i = v.i /\ w.apps = v.apps /\ w # Idle
  BY DEF WorkOf, Steps
<1>3. WorkTyped(k, w)
  BY <1>1, <1>2, SMTT(30) DEF WorkTyped
<1>4. CopiesAgree(k, w)
  BY <1>1, <1>2, SMTT(30) DEF CopiesAgree
<1> QED  BY <1>3, <1>4, ShapeOfWork, QuietWorkStep, ZenonT(30) DEF Steps

LEMMA RenderingKeepsInv ==
    ASSUME Inv, NEW k \in Keys, RenderFails(k) \/ SubmitFails(k) \/ RenderFirst(k)
    PROVE  Inv'
<1>1. PICK v : v = work[k]
  OBVIOUS
<1>2. v.pc \in {"render", "submit"} /\ UNCHANGED <<commits, notes, req, dry, st, inf, checker>>
  BY <1>1 DEF RenderFails, SubmitFails, RenderFirst, server
<1>3. v = WorkOf(v.pc, v.i, v.apps, v.dry, v.sha) /\ CopiesAgree(k, v) /\ v # Idle
  BY <1>1, <1>2, WorkerAtWork, ZenonT(30)
<1>4. CASE RenderFails(k) \/ SubmitFails(k)
  <2>1. PICK w : w = [v EXCEPT !.pc = "fail"]
    BY ZenonT(30)
  <2>2. w.pc = "fail" /\ w = WorkOf(w.pc, v.i, v.apps, w.dry, w.sha)
    BY <1>3, <2>1 DEF WorkOf
  <2>3. work' = [work EXCEPT ![k] = w]
    BY <1>1, <1>4, <2>1 DEF RenderFails, SubmitFails, Set
  <2>4. w.pc \in Steps /\ WorkTrue(k, w) /\ v.pc \in Steps \ {"record", "commit"}
    BY <1>2, <2>2 DEF WorkTrue, Steps
  <2> QED  BY <1>1, <1>2, <2>2, <2>3, <2>4, WorkMoves, ZenonT(30)
<1>5. CASE RenderFirst(k) /\ WasHydrated(v.apps[1], dry[k])
  <2>1. PICK w : w = [v EXCEPT !.pc = "record", !.dry = dry[k], !.sha = v.apps[1].okSha]
    OBVIOUS
  <2>2. /\ w.pc = "record" /\ w.dry = dry[k] /\ w.sha = v.apps[1].okSha
        /\ w = WorkOf(w.pc, v.i, v.apps, w.dry, w.sha)
    BY <1>3, <2>1, ZenonT(30) DEF WorkOf
  <2>3. work' = [work EXCEPT ![k] = w]
    BY <1>1, <1>5, <2>1 DEF RenderFirst, Set
  <2>4. dry[k] \in Revisions(k) /\ dry[k] # 0
    BY RevisionsAreNumbered DEF Inv, BranchTyped
  <2>5. SameOutcome(v.apps[1], st[Groups[k][1]]) /\ Groups[k][1] \in Group(k)
    BY <1>2, <1>3, GroupFacts DEF CopiesAgree
  <2>6. Known(w.sha) /\ Vouched(k, w.dry, w.sha)
    BY <1>5, <2>2, <2>4, <2>5, SMTT(30) DEF Inv, OutcomesAreTrue, SameOutcome, WasHydrated
  <2>7. w.pc \in Steps /\ WorkTrue(k, w) /\ v.pc \in Steps \ {"record", "commit"}
    BY <1>2, <2>2, <2>4, <2>6 DEF WorkTrue, Steps
  <2> QED  BY <1>1, <1>2, <2>2, <2>3, <2>7, WorkMoves, ZenonT(30)
<1>6. CASE RenderFirst(k) /\ ~WasHydrated(v.apps[1], dry[k])
  <2>1. PICK w : w = [v EXCEPT !.pc = "submit", !.dry = dry[k]]
    OBVIOUS
  <2>2. /\ w.pc = "submit" /\ w.dry = dry[k] /\ w = WorkOf(w.pc, v.i, v.apps, w.dry, w.sha)
    BY <1>3, <2>1, ZenonT(30) DEF WorkOf
  <2>3. work' = [work EXCEPT ![k] = w]
    BY <1>1, <1>6, <2>1 DEF RenderFirst, Set
  <2>4. dry[k] \in Revisions(k)
    BY DEF Inv, BranchTyped
  <2>5. w.pc \in Steps /\ WorkTrue(k, w) /\ v.pc \in Steps \ {"record", "commit"}
    BY <1>2, <2>2, <2>4 DEF WorkTrue, Steps
  <2> QED  BY <1>1, <1>2, <2>2, <2>3, <2>5, WorkMoves, ZenonT(30)
<1> QED  BY <1>4, <1>5, <1>6

\* The worker hands its revision over to a request, or takes the answer.
LEMMA HandoverKeepsInv ==
    ASSUME Inv, NEW k \in Keys, NEW v, v = work[k], v.pc \in {"submit", "commit"},
           NEW w, w.pc \in Steps, w = WorkOf(w.pc, v.i, v.apps, w.dry, w.sha), WorkTrue(k, w),
           NEW r, req' = [req EXCEPT ![k] = r], ReqTrue(k, r, w),
           work' = [work EXCEPT ![k] = w],
           UNCHANGED <<commits, notes, dry, st, inf, checker>>
    PROVE  Inv'
<1> USE DEF Idle
<1>1. /\ v.i \in DOMAIN Groups[k] /\ v.apps = [j \in DOMAIN Groups[k] |-> v.apps[j]]
      /\ \A j \in DOMAIN Groups[k] : IsStatus(v.apps[j])
      /\ CopiesAgree(k, v) /\ v # Idle
  BY ShapeOfWork DEF WorkTyped
<1>2. w.i = v.i /\ w.apps = v.apps /\ w # Idle
  BY DEF WorkOf, Steps
<1>3. WorkTyped(k, w)
  BY <1>1, <1>2, SMTT(30) DEF WorkTyped
<1>4. CopiesAgree(k, w)'
  BY <1>1, <1>2, SMTT(30) DEF CopiesAgree
<1>5. StatusTyped' /\ OutcomesAreTrue'
  BY ZenonT(30) DEF Inv, StatusTyped, OutcomesAreTrue, Known, Vouched, Holds
<1>6. \A l \in Keys : \A u : CopiesAgree(l, u) => CopiesAgree(l, u)'
  BY SMTT(30) DEF CopiesAgree
<1> QED  BY <1>3, <1>4, <1>5, <1>6, WorkStep, ZenonT(30)

LEMMA SubmitKeepsInv ==
    ASSUME Inv, NEW k \in Keys, Submit(k)
    PROVE  Inv'
<1>1. PICK v, w : v = work[k] /\ w = [v EXCEPT !.pc = "commit"]
  BY Zenon
<1>2. PICK r : r = [NoRequest EXCEPT !.at = "init", !.dry = v.dry,
                    !.paths = [a \in Group(k) |-> Rendered(k, a)]]
  BY ZenonT(30)
<1>3. PICK paths : paths = [a \in Group(k) |-> Manifests[a][v.dry]]
  BY ZenonT(30)
<1>4. v.pc = "submit" /\ work' = [work EXCEPT ![k] = w] /\ req' = [req EXCEPT ![k] = r]
  BY <1>1, <1>2 DEF Submit, Set
<1>5. v = WorkOf(v.pc, v.i, v.apps, v.dry, v.sha) /\ v.dry \in Revisions(k)
  BY <1>1, <1>4, WorkerAtWork, ZenonT(30) DEF WorkTrue
<1>6. w.pc = "commit" /\ w.dry = v.dry /\ w = WorkOf(w.pc, v.i, v.apps, w.dry, w.sha)
  BY <1>1, <1>5 DEF WorkOf
<1>7. r = ReqOf("init", v.dry, paths, 0, <<>>, 0)
  BY <1>1, <1>2, <1>3, ZenonT(40) DEF NoRequest, ReqOf, Rendered
<1>8. Shaped(r) /\ r.at = "init" /\ r.dry = v.dry /\ r.paths = paths
  BY <1>7 DEF ReqOf, Shaped
<1>9. ReqTrue(k, r, w)
  BY <1>3, <1>5, <1>6, <1>8, SMTT(30) DEF ReqTrue
<1>10. w.pc \in Steps /\ WorkTrue(k, w)
  BY <1>5, <1>6 DEF WorkTrue, Steps
<1>11. UNCHANGED <<commits, notes, dry, st, inf, checker>>
  BY DEF Submit
<1>12. v = work[k] /\ v.pc \in {"submit", "commit"}
  BY <1>1, <1>4
<1> QED  BY <1>4, <1>6, <1>9, <1>10, <1>11, <1>12, HandoverKeepsInv, ZenonT(30)

LEMMA AnswerKeepsInv ==
    ASSUME Inv, NEW k \in Keys, Answer(k)
    PROVE  Inv'
<1>1. PICK v, q : v = work[k] /\ q = req[k]
  OBVIOUS
<1>2. q.at \in {"done", "failed"} /\ req' = [req EXCEPT ![k] = NoRequest]
  BY <1>1 DEF Answer
<1>3. /\ v.pc = "commit" /\ v.dry = q.dry /\ q.dry \in Revisions(k)
      /\ q.at = "done" => Known(q.sha) /\ Vouched(k, q.dry, q.sha)
  <2>1. ReqTrue(k, q, v)
    BY <1>1, ShapeOfWork
  <2> QED  BY <1>2, <2>1, SMTT(30) DEF ReqTrue
<1>4. v = WorkOf(v.pc, v.i, v.apps, v.dry, v.sha)
  BY <1>1, <1>3, WorkerAtWork, ZenonT(30)
<1>5. \A w : ReqTrue(k, NoRequest, w)
  <2>1. NoRequest.at = "none" /\ Shaped(NoRequest)
    BY DEF NoRequest, Shaped, ReqOf
  <2> QED  BY <2>1 DEF ReqTrue
<1>6. CASE q.at = "done"
  <2>1. PICK w : w = [v EXCEPT !.pc = "record", !.sha = q.sha]
    OBVIOUS
  <2>2. w.pc = "record" /\ w.dry = v.dry /\ w.sha = q.sha /\ w = WorkOf(w.pc, v.i, v.apps, w.dry, w.sha)
    BY <1>4, <2>1, ZenonT(30) DEF WorkOf
  <2>3. work' = [work EXCEPT ![k] = w]
    BY <1>1, <1>6, <2>1 DEF Answer, Set
  <2>4. w.pc \in Steps /\ WorkTrue(k, w)
    BY <1>3, <1>6, <2>2 DEF WorkTrue, Steps
  <2> QED  BY <1>1, <1>2, <1>3, <1>5, <2>2, <2>3, <2>4, HandoverKeepsInv, ZenonT(30) DEF Answer
<1>7. CASE q.at # "done"
  <2>1. PICK w : w = [v EXCEPT !.pc = "fail"]
    BY ZenonT(30)
  <2>2. w.pc = "fail" /\ w = WorkOf(w.pc, v.i, v.apps, w.dry, w.sha)
    BY <1>4, <2>1 DEF WorkOf
  <2>3. work' = [work EXCEPT ![k] = w]
    BY <1>1, <1>7, <2>1 DEF Answer, Set
  <2>4. w.pc \in Steps /\ WorkTrue(k, w)
    BY <2>2 DEF WorkTrue, Steps
  <2> QED  BY <1>1, <1>2, <1>3, <1>5, <2>2, <2>3, <2>4, HandoverKeepsInv, ZenonT(30) DEF Answer
<1> QED  BY <1>6, <1>7

\* A turn of a loop that patches one application and records no success.
LEMMA LoopKeepsInv ==
    ASSUME Inv, NEW k \in Keys, NEW v, v = work[k], v.pc \in {"mark", "fail"},
           NEW copy, IsStatus(copy), SameOutcome(copy, v.apps[v.i]),
           NEW next \in {"idle", "render"}, Turn(k, copy, next),
           \A a \in Apps : SameOutcome(st'[a], st[a]), StatusTyped',
           UNCHANGED <<commits, notes, req, dry, checker>>
    PROVE  Inv'
<1>1. PICK w : /\ work' = [work EXCEPT ![k] = w] /\ WorkTyped(k, w)
               /\ \/ w = Idle
                  \/ /\ w # Idle /\ w.dry = v.dry /\ w.sha = v.sha
                     /\ (w.pc = v.pc /\ w.i = v.i + 1) \/ w.pc = "render"
                     /\ \A j \in DOMAIN Groups[k] : w.apps[j] = IF j = v.i THEN copy ELSE v.apps[j]
  <2>1. v.pc \in Steps
    BY SMTT(30) DEF Steps
  <2> QED  BY <2>1, TurnEffect, SMTT(30)
<1>2. PICK r : r = req[k]
  OBVIOUS
<1>3. req' = [req EXCEPT ![k] = r] /\ ReqTrue(k, r, w)
  BY <1>2, ShapeOfWork, SMTT(30) DEF ReqTrue
<1>4. WorkTrue(k, w)
  <2>1. w.pc \in {"idle", "mark", "fail", "render"}
    BY <1>1, SMTT(30) DEF Idle
  <2> QED  BY <2>1, SMTT(30) DEF WorkTrue
<1>5. CopiesAgree(k, v) /\ v # Idle
  BY ShapeOfWork DEF Idle
<1>6. CopiesAgree(k, w)
  <2> SUFFICES ASSUME w # Idle, NEW j \in DOMAIN Groups[k]
               PROVE  SameOutcome(w.apps[j], st[Groups[k][j]])
    BY SMTT(30) DEF CopiesAgree
  <2>1. SameOutcome(v.apps[j], st[Groups[k][j]])
    BY <1>5 DEF CopiesAgree
  <2> QED  BY <1>1, <2>1, ZenonT(30) DEF SameOutcome
<1>7. OutcomesAreTrue' /\ \A l \in Keys : \A u : CopiesAgree(l, u) => CopiesAgree(l, u)'
  BY OutcomesKept, SMTT(30) DEF Inv
<1> QED  BY <1>1, <1>3, <1>4, <1>6, <1>7, WorkStep, ZenonT(30)

LEMMA StatusAt ==
    ASSUME Inv, NEW k \in Keys, NEW v, v = work[k], v.pc \in Steps
    PROVE  /\ v.i \in DOMAIN Groups[k] /\ Groups[k][v.i] \in Group(k) /\ Groups[k][v.i] \in Apps
           /\ ThisApp(k) = Groups[k][v.i] /\ ThisCopy(k) = v.apps[v.i] /\ IsStatus(v.apps[v.i])
<1>1. v.pc # "idle"
  BY DEF Steps
<1>2. v.i \in DOMAIN Groups[k] /\ IsStatus(v.apps[v.i])
  BY <1>1, WorkerAtWork, ZenonT(30)
<1> QED  BY <1>2, GroupFacts DEF ThisApp, ThisCopy

LEMMA MarkKeepsInv ==
    ASSUME Inv, NEW k \in Keys, markAppsHydrating(k)
    PROVE  Inv'
<1>1. PICK v, c, a : v = work[k] /\ c = ThisCopy(k) /\ a = ThisApp(k)
  OBVIOUS
<1>2. v.pc = "mark" /\ v.pc \in Steps /\ UNCHANGED <<commits, notes, req, dry, checker>>
  BY <1>1 DEF markAppsHydrating, server, Steps
<1>3. a \in Apps /\ c = v.apps[v.i] /\ IsStatus(c)
  BY <1>1, <1>2, StatusAt
<1>4. PICK m : m = Marked(c)
  OBVIOUS
<1>5. IsStatus(m) /\ SameOutcome(m, c)
  BY <1>3, <1>4, ZenonT(40) DEF IsStatus, SameOutcome, Marked, Fields
<1>6. StatusTyped
  BY DEF Inv
<1>7. CASE Turn(k, c, "render") /\ UNCHANGED <<st, inf>>
  <2>1. StatusTyped' /\ \A b \in Apps : SameOutcome(st'[b], st[b])
    BY <1>2, <1>6, <1>7 DEF StatusTyped, SameOutcome
  <2>2. SameOutcome(c, v.apps[v.i])
    BY <1>3 DEF SameOutcome
  <2>3. PICK next \in {"idle", "render"} : next = "render"
    OBVIOUS
  <2>4. v = work[k] /\ v.pc \in {"mark", "fail"} /\ Turn(k, c, next)
    BY <1>1, <1>2, <1>7, <2>3
  <2> QED  BY <1>2, <1>3, <2>1, <2>2, <2>4, LoopKeepsInv, Zenon
<1>8. CASE Turn(k, m, "render") /\ PersistHydrationStatus(a, c, m)
  <2>1. /\ st' = [b \in Apps |-> st'[b]] /\ inf' = [b \in Apps |-> inf'[b]]
        /\ \A b \in Apps : IsStatus(st'[b]) /\ IsStatus(inf'[b])
        /\ \A b \in Apps \ {a} : st'[b] = st[b]
        /\ SameOutcome(st'[a], st[a])
    BY <1>3, <1>5, <1>6, <1>8, PersistEffect
  <2>2. StatusTyped' /\ \A b \in Apps : SameOutcome(st'[b], st[b])
    BY <1>2, <1>6, <2>1 DEF StatusTyped, SameOutcome
  <2>3. PICK next \in {"idle", "render"} : next = "render"
    OBVIOUS
  <2>4. v = work[k] /\ v.pc \in {"mark", "fail"} /\ Turn(k, m, next) /\ SameOutcome(m, v.apps[v.i])
    BY <1>1, <1>2, <1>3, <1>5, <1>8, <2>3
  <2> QED  BY <1>2, <1>5, <2>2, <2>4, LoopKeepsInv, Zenon
<1> QED  BY <1>1, <1>4, <1>7, <1>8 DEF markAppsHydrating

LEMMA ErrorKeepsInv ==
    ASSUME Inv, NEW k \in Keys, setAppHydratorError(k)
    PROVE  Inv'
<1>1. PICK v, c, a : v = work[k] /\ c = ThisCopy(k) /\ a = ThisApp(k)
  OBVIOUS
<1>2. v.pc = "fail" /\ v.pc \in Steps /\ UNCHANGED <<commits, notes, req, dry, checker>>
  BY <1>1 DEF setAppHydratorError, server, Steps
<1>3. a \in Apps /\ c = v.apps[v.i] /\ IsStatus(c)
  BY <1>1, <1>2, StatusAt
<1>4. PICK orig : orig = WithRevision(k)
  OBVIOUS
<1>5. PICK new : new = [orig EXCEPT !.phase = "Failed"]
  BY ZenonT(30)
<1>6. IsStatus(orig)
  BY <1>1, <1>3, <1>4, ZenonT(40) DEF WithRevision, IsStatus, Fields
<1>7. IsStatus(new) /\ SameOutcome(new, orig)
  BY <1>5, <1>6 DEF IsStatus, SameOutcome, Fields
<1>8. PersistHydrationStatus(a, orig, new) /\ Turn(k, c, "idle")
  BY <1>1, <1>4, <1>5 DEF setAppHydratorError
<1>9. StatusTyped
  BY DEF Inv
<1>10. /\ st' = [b \in Apps |-> st'[b]] /\ inf' = [b \in Apps |-> inf'[b]]
       /\ \A b \in Apps : IsStatus(st'[b]) /\ IsStatus(inf'[b])
       /\ \A b \in Apps \ {a} : st'[b] = st[b]
       /\ SameOutcome(st'[a], st[a])
  BY <1>3, <1>6, <1>7, <1>8, <1>9, PersistEffect
<1>11. StatusTyped' /\ \A b \in Apps : SameOutcome(st'[b], st[b])
  BY <1>2, <1>9, <1>10 DEF StatusTyped, SameOutcome
<1>12. SameOutcome(c, v.apps[v.i])
  BY <1>3 DEF SameOutcome
<1>13. PICK next \in {"idle", "render"} : next = "idle"
  OBVIOUS
<1>14. v = work[k] /\ v.pc \in {"mark", "fail"} /\ Turn(k, c, next)
  BY <1>1, <1>2, <1>8, <1>13
<1> QED  BY <1>2, <1>3, <1>11, <1>12, <1>14, LoopKeepsInv, Zenon

\* Recording a success makes the status of one application name the commit; the
\* other workers have no copy of it.
LEMMA RecordKeepsInv ==
    ASSUME Inv, NEW k \in Keys, RecordSuccess(k)
    PROVE  Inv'
<1>1. PICK v, c, a : v = work[k] /\ c = ThisCopy(k) /\ a = ThisApp(k)
  OBVIOUS
<1>2. v.pc = "record" /\ v.pc \in Steps /\ UNCHANGED <<commits, notes, req, dry, checker>>
  BY <1>1, SMTT(30) DEF RecordSuccess, server, Steps
<1>3. /\ v.i \in DOMAIN Groups[k] /\ a = Groups[k][v.i] /\ a \in Apps /\ a \in Group(k)
      /\ c = v.apps[v.i] /\ IsStatus(c)
  BY <1>1, <1>2, StatusAt, SMTT(30)
<1>4. PICK new : new = Succeeded(c, v.dry, v.sha)
  OBVIOUS
<1>5. IsStatus(new) /\ new.okDry = v.dry /\ new.okSha = v.sha
  BY <1>3, <1>4, ZenonT(40) DEF IsStatus, Succeeded, Fields
<1>6. PersistHydrationStatus(a, c, new) /\ Turn(k, c, "idle")
  BY <1>1, <1>4, SMTT(30) DEF RecordSuccess
<1>7. StatusTyped /\ OutcomesAreTrue
  BY DEF Inv
<1>8. /\ v # Idle /\ CopiesAgree(k, v)
      /\ v.dry \in Revisions(k) /\ Known(v.sha) /\ Vouched(k, v.dry, v.sha)
  BY <1>1, <1>2, WorkerAtWork, ZenonT(40) DEF WorkTrue
<1>9. SameOutcome(c, st[a])
  <2>1. v.i \in Nat
    BY <1>3, GroupFacts
  <2> QED  BY <1>3, <1>8, <2>1, SMTT(30) DEF CopiesAgree
<1>10. /\ st' = [b \in Apps |-> st'[b]] /\ inf' = [b \in Apps |-> inf'[b]]
       /\ \A b \in Apps : IsStatus(st'[b]) /\ IsStatus(inf'[b])
       /\ \A b \in Apps \ {a} : st'[b] = st[b]
       /\ SameOutcome(st'[a], st[a]) \/ SameOutcome(st'[a], new)
  BY <1>3, <1>5, <1>6, <1>7, <1>9, PersistEffect, SMTT(30)
<1>11. StatusTyped'
  BY <1>2, <1>7, <1>10 DEF StatusTyped
<1>12. OutcomesAreTrue'
  <2> SUFFICES ASSUME NEW l \in Keys, NEW b \in Group(l), st'[b].okDry # 0
               PROVE  /\ st'[b].okDry \in Revisions(l) /\ Known(st'[b].okSha)
                      /\ Vouched(l, st'[b].okDry, st'[b].okSha)
    BY <1>2 DEF OutcomesAreTrue, Known, Vouched, Holds
  <2>1. b \in Apps
    BY GroupFacts
  <2>2. CASE SameOutcome(st'[b], st[b])
    BY <1>7, <2>2, SMTT(30) DEF OutcomesAreTrue, SameOutcome
  <2>3. CASE ~SameOutcome(st'[b], st[b])
    <3>1. b = a
      BY <1>10, <2>1, <2>3 DEF SameOutcome
    <3>2. l = k
      BY <1>3, <3>1, GroupFacts, SMTT(30)
    <3>3. st'[b].okDry = v.dry /\ st'[b].okSha = v.sha
      BY <1>5, <1>10, <2>3, <3>1 DEF SameOutcome
    <3> QED  BY <1>8, <3>2, <3>3, SMTT(30)
  <2> QED  BY <2>2, <2>3, SMTT(30)
<1>13. ASSUME NEW l \in Keys \ {k}, NEW u, CopiesAgree(l, u) PROVE CopiesAgree(l, u)'
  <2>1. \A j \in DOMAIN Groups[l] : Groups[l][j] \in Apps \ {a}
    BY <1>3, GroupFacts, SMTT(30)
  <2> QED  BY <1>10, <1>13, <2>1 DEF CopiesAgree
<1>14. PICK w : /\ work' = [work EXCEPT ![k] = w] /\ WorkTyped(k, w)
                /\ \/ w = Idle
                   \/ /\ w # Idle /\ w.dry = v.dry /\ w.sha = v.sha
                      /\ w.pc = "record" /\ w.i = v.i + 1
                      /\ \A j \in DOMAIN Groups[k] : w.apps[j] = IF j = v.i THEN c ELSE v.apps[j]
  <2>1. PICK next \in {"idle", "render"} : next = "idle"
    OBVIOUS
  <2>2. v.pc \in Steps /\ IsStatus(c) /\ Turn(k, c, next)
    BY <1>2, <1>3, <1>6, <2>1, SMTT(30)
  <2>3. PICK w : /\ work' = [work EXCEPT ![k] = w] /\ WorkTyped(k, w)
                 /\ \/ w = Idle
                    \/ /\ w # Idle /\ w.dry = v.dry /\ w.sha = v.sha
                       /\ (w.pc = v.pc /\ w.i = v.i + 1) \/ (w.pc = "render" /\ next = "render")
                       /\ \A j \in DOMAIN Groups[k] : w.apps[j] = IF j = v.i THEN c ELSE v.apps[j]
    BY <1>1, <2>2, TurnEffect, SMTT(30)
  <2>4. next # "render"
    BY <2>1
  <2>5. w # Idle => w.pc = "record" /\ w.i = v.i + 1
    BY <1>2, <2>3, <2>4, SMTT(30)
  <2> QED  BY <2>3, <2>5, ZenonT(30)
<1>15. WorkTrue(k, w)
  BY <1>8, <1>14, SMTT(30) DEF WorkTrue, Idle
<1>16. CopiesAgree(k, w)'
  <2> SUFFICES ASSUME w # Idle, NEW j \in DOMAIN Groups[k], j >= w.i
               PROVE  SameOutcome(w.apps[j], st'[Groups[k][j]])
    BY <1>14, SMTT(30) DEF CopiesAgree
  <2>1. j # v.i /\ j >= v.i
    BY <1>3, <1>14, GroupFacts, SMTT(30)
  <2>2. Groups[k][j] \in Apps \ {a}
    BY <1>3, <2>1, GroupFacts, SMTT(30)
  <2>3. SameOutcome(v.apps[j], st[Groups[k][j]])
    BY <1>8, <2>1, SMTT(30) DEF CopiesAgree
  <2> QED  BY <1>10, <1>14, <2>1, <2>2, <2>3
<1>17. PICK r : r = req[k]
  OBVIOUS
<1>18. req' = [req EXCEPT ![k] = r] /\ ReqTrue(k, r, w)
  BY <1>1, <1>2, <1>17, ShapeOfWork, SMTT(30) DEF ReqTrue
<1>19. \A l \in Keys \ {k} : \A u : CopiesAgree(l, u) => CopiesAgree(l, u)'
  BY <1>13
<1> QED  BY <1>2, <1>11, <1>12, <1>14, <1>15, <1>16, <1>18, <1>19, WorkStep, ZenonT(30)

-----------------------------------------------------------------------------
(* The checker, and what happens around the workers.                       *)

\* Steps that leave branch, requests and workers alone, and record no success.
LEMMA StatusStep ==
    ASSUME Inv, UNCHANGED <<commits, notes, req, work>>, BranchTyped', StatusTyped',
           \A a \in Apps : SameOutcome(st'[a], st[a])
    PROVE  Inv'
<1>1. NotesAreTrue' /\ RevisionsAreNotMixed'
  <2>1. NotesAreTrue'  BY DEF Inv, NotesAreTrue, Vouched, Holds
  <2>2. RevisionsAreNotMixed'  BY SMTT(30) DEF Inv, RevisionsAreNotMixed
  <2> QED  BY <2>1, <2>2
<1>2. OutcomesAreTrue' /\ \A k \in Keys : \A w : CopiesAgree(k, w) => CopiesAgree(k, w)'
  BY OutcomesKept DEF Inv
<1>3. ASSUME NEW k \in Keys PROVE CopiesAgree(k, work[k])'
  <2>1. PICK w : w = work[k]
    OBVIOUS
  <2>2. CopiesAgree(k, w)'
    BY <1>2, <2>1, ShapeOfWork
  <2> QED  BY <2>1, <2>2, SMTT(30) DEF CopiesAgree
<1>4. ASSUME NEW k \in Keys
      PROVE  (ReqTrue(k, req[k], work[k]) /\ WorkTyped(k, work[k]) /\ WorkTrue(k, work[k]))'
  <2>1. ReqTrue(k, req[k], work[k]) /\ WorkTyped(k, work[k]) /\ WorkTrue(k, work[k])
    BY ShapeOfWork
  <2>2. PICK r, w : r = req'[k] /\ w = work'[k] /\ r = req[k] /\ w = work[k]
    OBVIOUS
  <2> QED  BY <2>1, <2>2, TruthStays
<1>5. (req = [k \in Keys |-> req[k]] /\ work = [k \in Keys |-> work[k]])'
  BY DEF Inv, WorkersAgree
<1> QED  BY <1>1, <1>2, <1>3, <1>4, <1>5 DEF Inv, WorkersAgree

LEMMA CheckKeepsInv ==
    ASSUME Inv, NEW a \in Apps, CheckApp(a)
    PROVE  Inv'
<1>1. UNCHANGED <<commits, notes, req, dry, st, inf, work>>
  BY ZenonT(30) DEF CheckApp, server
<1>2. \E rev, needs : checker' = Check(a, inf[a], rev, needs)
  BY ZenonT(30) DEF CheckApp
<1>3. checker'.app = a /\ checker'.copy = inf[a]
  BY <1>2 DEF Check
<1>4. StatusTyped' /\ BranchTyped'
  BY <1>1, <1>3 DEF Inv, StatusTyped, BranchTyped
<1>5. \A b \in Apps : SameOutcome(st'[b], st[b])
  BY <1>1 DEF SameOutcome
<1>6. UNCHANGED <<commits, notes, req, work>>
  BY <1>1
<1> QED  BY <1>4, <1>5, <1>6, StatusStep, ZenonT(30)

LEMMA EndCheckKeepsInv ==
    ASSUME Inv, EndCheck
    PROVE  Inv'
<1>1. UNCHANGED <<commits, notes, req, dry, work>> /\ checker # NoCheck /\ checker' = NoCheck
  BY DEF EndCheck, server
<1>2. PICK a, c, new : a = checker.app /\ c = checker.copy /\ new = Compared(c, checker.rev)
  OBVIOUS
<1>3. StatusTyped /\ BranchTyped
  BY DEF Inv
<1>4. a \in Apps /\ IsStatus(c)
  BY <1>1, <1>2, <1>3 DEF StatusTyped
<1>5. IsStatus(new) /\ SameOutcome(new, c)
  BY <1>2, <1>4 DEF Compared, IsStatus, SameOutcome, Fields
<1>6. PersistHydrationStatus(a, c, new)
  BY <1>2 DEF EndCheck
<1>7. /\ st' = [b \in Apps |-> st'[b]] /\ inf' = [b \in Apps |-> inf'[b]]
      /\ \A b \in Apps : IsStatus(st'[b]) /\ IsStatus(inf'[b])
      /\ \A b \in Apps \ {a} : st'[b] = st[b]
      /\ SameOutcome(st'[a], st[a])
  BY <1>3, <1>4, <1>5, <1>6, PersistEffect
<1>8. StatusTyped' /\ \A b \in Apps : SameOutcome(st'[b], st[b])
  BY <1>1, <1>7 DEF StatusTyped, SameOutcome
<1>9. BranchTyped'
  BY <1>1, <1>3 DEF BranchTyped
<1>10. UNCHANGED <<commits, notes, req, work>>
  BY <1>1
<1> QED  BY <1>8, <1>9, <1>10, StatusStep, ZenonT(30)

LEMMA AroundKeepsInv ==
    ASSUME Inv, \/ \E a \in Apps : WatchEvent(a) \/ TimePasses(a) \/ RefreshApp(a)
                \/ \E k \in Keys : ListFails(k) \/ DryCommit(k)
    PROVE  Inv'
<1>1. StatusTyped /\ BranchTyped
  BY DEF Inv
<1>2. ASSUME NEW a \in Apps, WatchEvent(a) PROVE Inv'
  <2>1. UNCHANGED <<commits, notes, req, dry, st, work, checker>> /\ inf' = [inf EXCEPT ![a] = st[a]]
    BY <1>2, ZenonT(30) DEF WatchEvent, server
  <2>2. inf' = [b \in Apps |-> inf'[b]] /\ \A b \in Apps : inf'[b] \in {inf[b], st[b]}
    BY <1>1, <2>1 DEF StatusTyped
  <2>3. StatusTyped' /\ \A b \in Apps : SameOutcome(st'[b], st[b])
    BY <1>1, <2>1, <2>2 DEF StatusTyped, SameOutcome
  <2>4. BranchTyped'
    BY <1>1, <2>1 DEF BranchTyped
  <2>5. UNCHANGED <<commits, notes, req, work>>
    BY <2>1
  <2> QED  BY <2>3, <2>4, <2>5, StatusStep, ZenonT(30)
<1>3. ASSUME UNCHANGED <<commits, notes, req, dry, st, inf, work, checker>> PROVE Inv'
  <2>1. StatusTyped' /\ BranchTyped' /\ \A b \in Apps : SameOutcome(st'[b], st[b])
    BY <1>1, <1>3 DEF StatusTyped, BranchTyped, SameOutcome
  <2>2. UNCHANGED <<commits, notes, req, work>>
    BY <1>3
  <2> QED  BY <2>1, <2>2, StatusStep, ZenonT(30)
<1>4. ASSUME NEW a \in Apps, RefreshApp(a) PROVE Inv'
  <2>1. UNCHANGED <<commits, notes, req, dry, inf, work, checker>>
    BY <1>4 DEF RefreshApp, server
  <2>2. PICK kind : st' = [st EXCEPT ![a].ask = kind]
    BY <1>4, ZenonT(30) DEF RefreshApp
  <2>3. PICK c : c = [st[a] EXCEPT !.ask = kind]
    BY ZenonT(30)
  <2>4. IsStatus(c) /\ SameOutcome(c, st[a])
    BY <1>1, <2>3 DEF StatusTyped, IsStatus, SameOutcome, Fields
  <2>5. st' = [b \in Apps |-> IF b = a THEN c ELSE st[b]]
    BY <1>1, <2>2, <2>3 DEF StatusTyped
  <2>6. StatusTyped' /\ \A b \in Apps : SameOutcome(st'[b], st[b])
    BY <1>1, <2>1, <2>4, <2>5 DEF StatusTyped, SameOutcome
  <2>7. BranchTyped'
    BY <1>1, <2>1 DEF BranchTyped
  <2>8. UNCHANGED <<commits, notes, req, work>>
    BY <2>1
  <2> QED  BY <2>6, <2>7, <2>8, StatusStep, ZenonT(30)
<1>5. ASSUME NEW k \in Keys, DryCommit(k) PROVE Inv'
  <2>1. /\ UNCHANGED <<commits, notes, req, st, inf, work, checker>>
        /\ dry' = [dry EXCEPT ![k] = @ + 1] /\ dry[k] + 1 \in Revisions(k)
    BY <1>5, ZenonT(30) DEF DryCommit, server, controller
  <2>2. BranchTyped'
    BY <1>1, <2>1 DEF BranchTyped
  <2>3. StatusTyped' /\ \A b \in Apps : SameOutcome(st'[b], st[b])
    BY <1>1, <2>1 DEF StatusTyped, SameOutcome
  <2>4. UNCHANGED <<commits, notes, req, work>>
    BY <2>1
  <2> QED  BY <2>2, <2>3, <2>4, StatusStep, ZenonT(30)
<1>6. ASSUME NEW a \in Apps, TimePasses(a) PROVE Inv'
  <2>1. UNCHANGED <<commits, notes, req, dry, st, inf, work, checker>>
    BY <1>6 DEF TimePasses, server
  <2> QED  BY <1>3, <2>1, ZenonT(30)
<1>7. ASSUME NEW k \in Keys, ListFails(k) PROVE Inv'
  <2>1. UNCHANGED <<commits, notes, req, dry, st, inf, work, checker>>
    BY <1>7 DEF ListFails, server
  <2> QED  BY <1>3, <2>1, ZenonT(30)
<1> QED  BY <1>2, <1>4, <1>5, <1>6, <1>7

LEMMA NobodyAtWork ==
    ASSUME work = [k \in Keys |-> Idle], req = [k \in Keys |-> NoRequest]
    PROVE  WorkersAgree
<1>1. NoRequest.at = "none" /\ Shaped(NoRequest)
  BY SMTT(30) DEF NoRequest, Shaped, ReqOf
<1>2. \A k \in Keys : ReqTrue(k, NoRequest, Idle)
  BY <1>1, ZenonT(30) DEF ReqTrue
<1>3. \A k \in Keys : WorkTyped(k, Idle) /\ WorkTrue(k, Idle) /\ CopiesAgree(k, Idle)
  BY ZenonT(30) DEF WorkTyped, WorkTrue, CopiesAgree, Idle
<1> QED  BY <1>2, <1>3 DEF WorkersAgree

\* Requests and workers are gone; what is stored was true before.
LEMMA CrashKeepsInv ==
    ASSUME Inv, Crash
    PROVE  Inv'
<1>1. /\ UNCHANGED <<commits, notes, dry, st>> /\ inf' = st /\ checker' = NoCheck
      /\ work' = [k \in Keys |-> Idle] /\ req' = [k \in Keys |-> NoRequest]
  BY DEF Crash
<1>2. BranchTyped' /\ NotesAreTrue' /\ RevisionsAreNotMixed' /\ OutcomesAreTrue'
  <2>1. BranchTyped'  BY <1>1 DEF Inv, BranchTyped
  <2>2. NotesAreTrue'  BY <1>1, SMTT(30) DEF Inv, NotesAreTrue, Vouched, Holds
  <2>3. RevisionsAreNotMixed'  BY <1>1, SMTT(30) DEF Inv, RevisionsAreNotMixed
  <2>4. OutcomesAreTrue'  BY <1>1, SMTT(30) DEF Inv, OutcomesAreTrue, Vouched, Holds, Known
  <2> QED  BY <2>1, <2>2, <2>3, <2>4
<1>3. StatusTyped'
  BY <1>1 DEF Inv, StatusTyped
<1>4. WorkersAgree'
  <2>1. (work = [k \in Keys |-> Idle] /\ req = [k \in Keys |-> NoRequest])'
    BY <1>1
  <2> QED  BY <2>1, NobodyAtWork, PTL
<1> QED  BY <1>2, <1>3, <1>4 DEF Inv

-----------------------------------------------------------------------------
(* Theorems.                                                               *)

LEMMA InitInv ==
    ASSUME Init
    PROVE  Inv
<1>1. /\ commits = <<BaseCommit>> /\ notes = <<NoNote>> /\ faults \in Plans /\ dry = faults.from
      /\ req = [k \in Keys |-> NoRequest] /\ work = [k \in Keys |-> Idle]
      /\ st = [a \in Apps |-> NoStatus] /\ inf = st /\ checker = NoCheck
  BY DEF Init, CommitInit
<1>2. BaseCommit \in [Apps -> Contents] /\ NoNote \in Notes
  BY DEF BaseCommit, Contents, Notes
<1>3. BranchTyped
  <2>1. commits \in Seq([Apps -> Contents]) /\ Len(commits) = 1
    BY <1>1, <1>2
  <2>2. notes \in Seq(Notes) /\ Len(notes) = 1
    BY <1>1, <1>2
  <2>3. dry = [k \in Keys |-> dry[k]] /\ \A k \in Keys : dry[k] \in Revisions(k)
    BY <1>1, BranchesStart, ZenonT(30)
  <2> QED  BY <1>1, <2>1, <2>2, <2>3 DEF BranchTyped
<1>4. NotesAreTrue
  <2>1. \A i \in 1..Len(commits) : notes[i] = NoNote
    BY <1>1
  <2> QED  BY <2>1, NoteIsNote, ZenonT(30) DEF NotesAreTrue
<1>5. RevisionsAreNotMixed
  <2>1. \A i \in DOMAIN commits : commits[i] = BaseCommit
    BY <1>1
  <2>2. \A k \in Keys : \A a \in Group(k) : BaseCommit[a] = 0
    BY GroupFacts DEF BaseCommit
  <2> QED  BY <2>1, <2>2, ZenonT(30) DEF RevisionsAreNotMixed
<1>6. StatusTyped
  <2>1. IsStatus(NoStatus)
    BY DEF IsStatus, NoStatus, Fields
  <2> QED  BY <1>1, <2>1 DEF StatusTyped
<1>7. OutcomesAreTrue
  <2>1. \A k \in Keys : \A a \in Group(k) : st[a].okDry = 0
    BY <1>1, GroupFacts, SMTT(30) DEF NoStatus
  <2> QED  BY <2>1 DEF OutcomesAreTrue
<1> QED  BY <1>1, <1>3, <1>4, <1>5, <1>6, <1>7, NobodyAtWork DEF Inv

LEMMA StutterKeepsInv ==
    ASSUME Inv, UNCHANGED vars
    PROVE  Inv'
<1>1. UNCHANGED <<commits, notes, req, dry, st, inf, work, checker>>
  BY DEF vars, server
<1>2. StatusTyped' /\ BranchTyped' /\ \A b \in Apps : SameOutcome(st'[b], st[b])
  BY <1>1 DEF Inv, StatusTyped, BranchTyped, SameOutcome
<1> QED  BY <1>1, <1>2, StatusStep

LEMMA StepKeepsInv ==
    ASSUME Inv, [Next]_vars
    PROVE  Inv'
<1>1. ASSUME NEW a \in Apps, CheckApp(a) \/ WatchEvent(a) \/ TimePasses(a) \/ RefreshApp(a) PROVE Inv'
  BY <1>1, CheckKeepsInv, AroundKeepsInv
<1>2. ASSUME NEW k \in Keys, Hydrate(k) PROVE Inv'
  BY <1>2, DequeueKeepsInv, MarkKeepsInv, RenderingKeepsInv, SubmitKeepsInv, AnswerKeepsInv,
     RecordKeepsInv, ErrorKeepsInv DEF Hydrate
<1>3. ASSUME NEW k \in Keys, ListFails(k) \/ DryCommit(k) PROVE Inv'
  BY <1>3, AroundKeepsInv
<1>4. ASSUME NEW k \in Keys, RenderFails(k) \/ SubmitFails(k) \/ CommitServerStep(k) PROVE Inv'
  BY <1>4, RenderingKeepsInv, HandoverKeepsInv, CommitServerKeepsInv, ZenonT(30)
<1> QED
  BY <1>1, <1>2, <1>3, <1>4, EndCheckKeepsInv, CrashKeepsInv, StutterKeepsInv DEF Next

LEMMA KeyOfIsKey ==
    ASSUME NEW a \in Apps
    PROVE  KeyOf(a) \in Keys /\ a \in Group(KeyOf(a))
BY ZenonT(30) DEF Apps, KeyOf

\* What the notes, the commits, the requests, the workers and the stored status
\* say of each other is kept by every step: in particular a dry SHA, in a note
\* or in a status, comes with the manifests of one whole group of its repository.
THEOREM HydratorInvariant == Spec => []Inv
<1>1. Init => Inv
  BY InitInv
<1>2. Inv /\ [Next]_vars => Inv'
  BY StepKeepsInv
<1> QED  BY <1>1, <1>2, PTL DEF Spec

\* HydratedIsCommitted: what ProcessHydrationQueueItem records as the last
\* successful operation of an application is on the branch, for its group or for
\* another one of the same dry repository, whichever merge patches of checks
\* and workers, failed requests and restarts come before.
THEOREM RecordsAreTrue == Spec => []HydratedIsCommitted
<1>1. ASSUME Inv PROVE HydratedIsCommitted
  <2> SUFFICES ASSUME NEW a \in Apps, st[a].okDry # 0
               PROVE  \E l \in Sharing(KeyOf(a)) : Holds(l, st[a].okDry, st[a].okSha)
    BY DEF HydratedIsCommitted
  <2>1. PICK k \in Keys : k = KeyOf(a) /\ a \in Group(k)
    BY KeyOfIsKey
  <2>2. Vouched(k, st[a].okDry, st[a].okSha)
    BY <1>1, <2>1 DEF Inv, OutcomesAreTrue
  <2> QED  BY <2>1, <2>2, ZenonT(30) DEF Vouched
<1> QED  BY <1>1, HydratorInvariant, PTL

\* If no two groups that share the branch take their revisions from one dry
\* repository, an application's record names a commit with its own manifests:
\* the short circuit of IsHydrated by the dry SHA alone is then safe.
THEOREM UnsharedRecordsAreTrue ==
    ASSUME \A k, l \in Keys : DryRepo[k] = DryRepo[l] => k = l
    PROVE  Spec => [](\A a \in Apps : st[a].okDry # 0 =>
                         commits[st[a].okSha][a] = Manifests[a][st[a].okDry])
<1>1. ASSUME HydratedIsCommitted, NEW a \in Apps, st[a].okDry # 0
      PROVE  commits[st[a].okSha][a] = Manifests[a][st[a].okDry]
  <2>1. PICK k \in Keys : k = KeyOf(a) /\ a \in Group(k)
    BY KeyOfIsKey
  <2>2. Sharing(k) = {k}
    BY DEF Sharing
  <2>3. Holds(k, st[a].okDry, st[a].okSha)
    BY <1>1, <2>1, <2>2, ZenonT(30) DEF HydratedIsCommitted
  <2> QED  BY <2>1, <2>3 DEF Holds
<1>2. HydratedIsCommitted => \A a \in Apps : st[a].okDry # 0 =>
                                commits[st[a].okSha][a] = Manifests[a][st[a].okDry]
  BY <1>1
<1> QED  BY <1>2, RecordsAreTrue, PTL

\* RevisionsAreNotMixed: handleCommitRequest writes the manifests of a whole
\* group in one commit, on top of the commit it has checked out, and groups
\* that share the branch do not undo each other's manifests.
THEOREM GroupsMoveTogether == Spec => []RevisionsAreNotMixed
<1>1. Inv => RevisionsAreNotMixed
  BY DEF Inv
<1> QED  BY <1>1, HydratorInvariant, PTL

\* NotesAreTrue: if IsHydrated finds the dry SHA of a request in the note of a
\* commit, the commit has the manifests of that revision for all of a group of
\* the dry repository.  AddNote stores the SHA only, so it need not be the group
\* of the request.
THEOREM NotesTellTheTruth == Spec => []NotesAreTrue
<1>1. Inv => NotesAreTrue
  BY DEF Inv
<1> QED  BY <1>1, HydratorInvariant, PTL

\* Only AddAndPushNote changes the note of a commit.
LEMMA NotesChangeByPush ==
    ASSUME Inv, [Next]_vars, NEW i \in DOMAIN notes, notes'[i] # notes[i]
    PROVE  \E k \in Keys : PushNotes(k)
<1>1. ASSUME NEW k \in Keys, CommitAndPush(k) PROVE FALSE
  <2>1. notes \in Seq(Notes)
    BY DEF Inv, BranchTyped
  <2>2. CASE notes' = Append(notes, NoNote)
    <3>1. i \in 1..Len(notes)
      BY <2>1
    <3>2. notes'[i] = notes[i]
      BY <2>1, <2>2, <3>1
    <3> QED  BY <3>2
  <2> QED  BY <1>1, <2>2 DEF CommitAndPush
<1>2. ASSUME NEW k \in Keys, CommitServerStep(k) PROVE PushNotes(k)
  BY <1>1, <1>2, ZenonT(30) DEF CommitServerStep, ServeRequest, initGitClient, IsHydrated, WriteUnchanged,
     FetchNotes, PushNotesRefused, RequestFails
<1>3. ASSUME NEW k \in Keys, Hydrate(k) \/ ListFails(k) \/ RenderFails(k) \/ SubmitFails(k) \/ DryCommit(k)
      PROVE  FALSE
  <2>1. UNCHANGED notes
    BY <1>3 DEF Hydrate, ListFails, RenderFails, SubmitFails, DryCommit, Dequeue, markAppsHydrating,
       RenderFirst, Submit, Answer, setAppHydratorError, RecordSuccess, server
  <2> QED  BY <2>1
<1>4. ASSUME \/ \E a \in Apps : CheckApp(a) \/ WatchEvent(a) \/ TimePasses(a) \/ RefreshApp(a)
             \/ EndCheck \/ Crash \/ UNCHANGED vars
      PROVE  FALSE
  <2>1. UNCHANGED notes
    BY <1>4, ZenonT(30) DEF CheckApp, WatchEvent, TimePasses, RefreshApp, EndCheck, Crash, vars, server
  <2> QED  BY <2>1
<1> QED  BY <1>2, <1>3, <1>4 DEF Next

\* NotesAreKept: the pushes of notes by concurrent requests (AddAndPushNote,
\* fetch, merge and retry) lose no note that another request has pushed.
THEOREM NotesStay == Spec => NotesAreKept
<1>1. ASSUME Inv, [Next]_vars, NEW i \in DOMAIN notes, notes'[i] # notes[i]
      PROVE  /\ notes'[i] # NoNote
             /\ \E k \in Keys : req[k].at = "pushNotes" /\ req[k].sha = i /\ notes'[i] = NoteOf(k)
  <2>1. PICK k \in Keys : PushNotes(k)
    BY <1>1, NotesChangeByPush
  <2>2. BranchTyped /\ req[k].at = "pushNotes"
    BY <1>1, <2>1 DEF Inv, PushNotes
  <2>3. notes' = [notes EXCEPT ![req[k].sha] = NoteOf(k)]
    BY <2>1, <2>2, NotesAfterPush
  <2>4. req[k].sha = i /\ notes'[i] = NoteOf(k)
    BY <1>1, <2>3
  <2>5. NoteOf(k) # NoNote
    BY NoteIsNote DEF NoteOf
  <2> QED  BY <2>2, <2>4, <2>5
<1>2. Inv /\ [Next]_vars =>
        [\A i \in DOMAIN notes : notes'[i] # notes[i] =>
          /\ notes'[i] # NoNote
          /\ \E k \in Keys : req[k].at = "pushNotes" /\ req[k].sha = i /\ notes'[i] = NoteOf(k)]_server
  BY <1>1
<1> QED  BY <1>2, HydratorInvariant, PTL DEF Spec, NotesAreKept

=============================================================================
