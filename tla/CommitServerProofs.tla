------------------------- MODULE CommitServerProofs -------------------------
(***************************************************************************)
(* The inductive invariant of the hydrator and its commit server, and that *)
(* every step of the commit server keeps it: a request is about a commit   *)
(* with its manifests from the moment it has written one, whatever the     *)
(* other requests push in between, unless it is cut short by a note: then  *)
(* the commit has the manifests of some group of the same dry repository.  *)
(***************************************************************************)
EXTENDS Hydrator, TLAPS

-----------------------------------------------------------------------------
(* The inductive invariant.                                                *)

AnyRevision == UNION {Revisions(k) : k \in Keys}
Contents == {0} \cup UNION {{Manifests[a][n] : a \in Group(k), n \in Revisions(k)} : k \in Keys}
Notes == {NoNote} \cup ({DryRepo[k] : k \in Keys} \X AnyRevision)

\* Commit i has the manifests of revision n for all of the group, or of another
\* one of the same repository: a dry SHA says no more.
Vouched(k, n, i) == \E l \in Sharing(k) : Holds(l, n, i)
Known(i) == i \in 1..Len(commits)

BranchTyped ==
    /\ commits \in Seq([Apps -> Contents]) /\ Len(commits) \in Nat \ {0}
    /\ notes \in Seq(Notes) /\ Len(notes) = Len(commits)
    /\ \A k \in Keys : dry[k] \in Revisions(k)
    /\ dry = [k \in Keys |-> dry[k]]

\* A note is true of its commit, for one of the groups it may be about.
NotesAreTrue ==
    \A i \in 1..Len(commits), k \in Keys : \A n \in Revisions(k) :
        notes[i] = <<DryRepo[k], n>> => Vouched(k, n, i)

\* A request is for the revision of its worker; from the write on it is about a
\* commit that has its manifests, or that a note vouches for.
ReqOf(at, n, paths, base, local, sha) ==
    [at |-> at, dry |-> n, paths |-> paths, base |-> base, local |-> local, sha |-> sha]

Shaped(r) == r = ReqOf(r.at, r.dry, r.paths, r.base, r.local, r.sha)

ReqTrue(k, r, w) ==
    /\ Shaped(r)
    /\ r.at # "none" =>
          /\ w.pc = "commit" /\ w.dry = r.dry /\ r.dry \in Revisions(k)
          /\ r.paths = [a \in Group(k) |-> Manifests[a][r.dry]]
    /\ r.at \in {"check", "write"} => Known(r.base)
    /\ r.at = "write" => r.sha = r.base
    /\ r.at \in {"fetchNotes", "pushNotes", "done"} => Known(r.sha) /\ Vouched(k, r.dry, r.sha)

\* A worker has copies of its group; what it records as a success is vouched for.
WorkOf(pc, i, apps, n, sha) == [pc |-> pc, i |-> i, apps |-> apps, dry |-> n, sha |-> sha]
Steps == {"mark", "render", "submit", "commit", "record", "fail"}

Fields == {"phase", "spec", "dry", "sha", "cmp", "okDry", "okSha", "ask"}
IsStatus(c) == c = [f \in Fields |-> c[f]]

WorkTyped(k, w) ==
    w = Idle \/ /\ w = WorkOf(w.pc, w.i, w.apps, w.dry, w.sha)
                /\ w.pc \in Steps
                /\ w.i \in DOMAIN Groups[k]
                /\ w.apps = [j \in DOMAIN Groups[k] |-> w.apps[j]]
                /\ \A j \in DOMAIN Groups[k] : IsStatus(w.apps[j])

WorkTrue(k, w) ==
    /\ w.pc \in {"submit", "commit", "record"} => w.dry \in Revisions(k)
    /\ w.pc = "record" => Known(w.sha) /\ Vouched(k, w.dry, w.sha)

\* Nobody else records a success for the group meanwhile: the copies of a worker
\* agree with the stored status, as far as it did not write it itself.
SameOutcome(c, d) == c.okDry = d.okDry /\ c.okSha = d.okSha

CopiesAgree(k, w) ==
    w # Idle => \A j \in DOMAIN Groups[k] :
        (w.pc = "record" => j >= w.i) => SameOutcome(w.apps[j], st[Groups[k][j]])

StatusTyped ==
    /\ st = [a \in Apps |-> st[a]] /\ inf = [a \in Apps |-> inf[a]]
    /\ \A a \in Apps : IsStatus(st[a]) /\ IsStatus(inf[a])
    /\ checker # NoCheck => checker.app \in Apps /\ IsStatus(checker.copy)

\* The last success an application has is one of a whole group.
OutcomesAreTrue ==
    \A k \in Keys : \A a \in Group(k) : st[a].okDry # 0 =>
        /\ st[a].okDry \in Revisions(k) /\ Known(st[a].okSha)
        /\ Vouched(k, st[a].okDry, st[a].okSha)

WorkersAgree ==
    /\ req = [k \in Keys |-> req[k]] /\ work = [k \in Keys |-> work[k]]
    /\ \A k \in Keys : /\ ReqTrue(k, req[k], work[k]) /\ WorkTyped(k, work[k])
                        /\ WorkTrue(k, work[k]) /\ CopiesAgree(k, work[k])

Inv ==
    /\ BranchTyped /\ NotesAreTrue /\ RevisionsAreNotMixed
    /\ StatusTyped /\ OutcomesAreTrue /\ WorkersAgree

-----------------------------------------------------------------------------
(* Groups, and what changes of one part leave alone in the others.         *)

LEMMA GroupFacts ==
    ASSUME NEW k \in Keys
    PROVE  /\ Len(Groups[k]) \in Nat \ {0} /\ DOMAIN Groups[k] = 1..Len(Groups[k])
           /\ Group(k) \subseteq Apps
           /\ \A i \in DOMAIN Groups[k] : Groups[k][i] \in Group(k)
           /\ \A i, j \in DOMAIN Groups[k] : Groups[k][i] = Groups[k][j] => i = j
           /\ \A l \in Keys : \A a \in Group(k) : a \in Group(l) => k = l
<1>1. \A i \in DOMAIN Groups[k] : Groups[k][i] \in Group(k)
  BY DEF Group
<1>2. ASSUME NEW l \in Keys, NEW a \in Group(k), a \in Group(l) PROVE k = l
  <2>1. Group(k) \cap Group(l) # {}
    BY <1>2
  <2> QED  BY <2>1, GroupsAreProper
<1> QED  BY <1>1, <1>2, GroupsAreProper DEF Apps

LEMMA NoteIsNote ==
    ASSUME NEW k, NEW n
    PROVE  <<k, n>> # NoNote
<1>1. Len(<<k, n>>) = 2 /\ Len(<<>>) = 0
  OBVIOUS
<1> QED  BY <1>1 DEF NoNote

\* Only the request of k changes.
LEMMA RequestStep ==
    ASSUME Inv, NEW k \in Keys, NEW r, req' = [req EXCEPT ![k] = r], ReqTrue(k, r, work[k]),
           UNCHANGED <<commits, notes, dry, st, inf, checker, work>>
    PROVE  Inv'
<1>1. BranchTyped' /\ NotesAreTrue' /\ RevisionsAreNotMixed' /\ StatusTyped' /\ OutcomesAreTrue'
  <2>1. BranchTyped'  BY DEF Inv, BranchTyped
  <2>2. NotesAreTrue'  BY DEF Inv, NotesAreTrue, Vouched, Holds
  <2>3. RevisionsAreNotMixed'  BY DEF Inv, RevisionsAreNotMixed
  <2>4. StatusTyped'  BY DEF Inv, StatusTyped
  <2>5. OutcomesAreTrue'  BY DEF Inv, OutcomesAreTrue, Vouched, Holds, Known
  <2> QED  BY <2>1, <2>2, <2>3, <2>4, <2>5
<1>2. ASSUME NEW l \in Keys PROVE ReqTrue(l, req[l], work[l])'
  <2>1. req'[l] = IF l = k THEN r ELSE req[l]
    BY DEF Inv, WorkersAgree
  <2>2. ReqTrue(l, req'[l], work[l])
    BY <2>1 DEF Inv, WorkersAgree
  <2> QED  BY <2>2 DEF ReqTrue, Vouched, Holds, Known
<1>3. ASSUME NEW l \in Keys PROVE (WorkTrue(l, work[l]) /\ WorkTyped(l, work[l]) /\ CopiesAgree(l, work[l]))'
  BY SMTT(60) DEF Inv, WorkersAgree, WorkTrue, WorkTyped, CopiesAgree, Vouched, Holds, Known
<1>4. (req = [l \in Keys |-> req[l]] /\ work = [l \in Keys |-> work[l]])'
  BY DEF Inv, WorkersAgree
<1> QED  BY <1>1, <1>2, <1>3, <1>4 DEF Inv, WorkersAgree

\* What is true of a commit stays true when the branch grows.
LEMMA BranchGrows ==
    ASSUME BranchTyped, NEW c \in [Apps -> Contents], commits' = Append(commits, c)
    PROVE  /\ commits' \in Seq([Apps -> Contents]) /\ Len(commits') = Len(commits) + 1
           /\ commits'[Len(commits) + 1] = c
           /\ \A i : Known(i) => Known(i)' /\ commits'[i] = commits[i]
           /\ \A k, n, i : Known(i) => (Holds(k, n, i)' <=> Holds(k, n, i))
           /\ \A k, n, i : Known(i) => (Vouched(k, n, i)' <=> Vouched(k, n, i))
<1>1. /\ commits' \in Seq([Apps -> Contents]) /\ Len(commits') = Len(commits) + 1
      /\ commits'[Len(commits) + 1] = c
      /\ \A i \in 1..Len(commits) : commits'[i] = commits[i]
  BY DEF BranchTyped
<1>2. \A i : Known(i) => Known(i)' /\ commits'[i] = commits[i]
  BY <1>1 DEF Known, BranchTyped
<1>3. ASSUME NEW k, NEW n, NEW i, Known(i) PROVE Holds(k, n, i)' <=> Holds(k, n, i)
  BY <1>2, <1>3, ZenonT(30) DEF Holds
<1>4. ASSUME NEW k, NEW n, NEW i, Known(i) PROVE Vouched(k, n, i)' <=> Vouched(k, n, i)
  BY <1>3, <1>4, ZenonT(30) DEF Vouched
<1> QED  BY <1>1, <1>2, <1>3, <1>4, ZenonT(30)

\* The manifests of a group vouch for themselves, and for the repository.
LEMMA OwnManifests ==
    ASSUME NEW k \in Keys, NEW n, NEW i, Holds(k, n, i)
    PROVE  Vouched(k, n, i)
BY ZenonT(30) DEF Vouched, Sharing

LEMMA SharedManifests ==
    ASSUME NEW k \in Keys, NEW l \in Keys, DryRepo[k] = DryRepo[l], NEW n, NEW i, Vouched(k, n, i)
    PROVE  Vouched(l, n, i)
BY ZenonT(30) DEF Vouched, Sharing

-----------------------------------------------------------------------------
(* The commit server.                                                      *)

LEMMA ShapeOfRequest ==
    ASSUME Inv, NEW k \in Keys
    PROVE  /\ req = [l \in Keys |-> req[l]] /\ ReqTrue(k, req[k], work[k])
           /\ Shaped(req[k]) /\ Known(Tip)
BY DEF Inv, WorkersAgree, ReqTrue, Known, Tip, BranchTyped

\* The request of k goes on with the same revision and manifests.
LEMMA RequestMoves ==
    ASSUME Inv, NEW k \in Keys, NEW r, req' = [req EXCEPT ![k] = r], req[k].at # "none",
           r = ReqOf(r.at, req[k].dry, req[k].paths, r.base, r.local, r.sha),
           r.at \in {"check", "write"} => Known(r.base),
           r.at = "write" => r.sha = r.base,
           r.at \in {"fetchNotes", "pushNotes", "done"} => Known(r.sha) /\ Vouched(k, req[k].dry, r.sha),
           UNCHANGED <<commits, notes, dry, st, inf, checker, work>>
    PROVE  Inv'
<1>1. PICK q : q = req[k]
  OBVIOUS
<1>2. ReqTrue(k, q, work[k])
  BY <1>1, ShapeOfRequest
<1>3. /\ work[k].pc = "commit" /\ work[k].dry = q.dry /\ q.dry \in Revisions(k)
      /\ q.paths = [a \in Group(k) |-> Manifests[a][q.dry]]
  BY <1>1, <1>2 DEF ReqTrue
<1>4. Shaped(r) /\ r.dry = q.dry /\ r.paths = q.paths
  BY <1>1 DEF Shaped, ReqOf
<1>5. ReqTrue(k, r, work[k])
  BY <1>1, <1>3, <1>4 DEF ReqTrue
<1> QED  BY <1>5, RequestStep, ZenonT(30)

LEMMA CloneKeepsInv ==
    ASSUME Inv, NEW k \in Keys, initGitClient(k), UNCHANGED <<dry, st, inf, checker, work>>
    PROVE  Inv'
<1>1. PICK q, r : q = req[k] /\ r = [q EXCEPT !.at = "check", !.base = Tip]
  BY ZenonT(30)
<1>2. q.at = "init" /\ req' = [req EXCEPT ![k] = r] /\ UNCHANGED <<commits, notes>>
  BY <1>1, ShapeOfRequest, ZenonT(30) DEF initGitClient
<1>3. /\ r.at = "check" /\ r.base = Tip /\ r.sha = q.sha
      /\ r = ReqOf(r.at, q.dry, q.paths, r.base, r.local, r.sha)
  <2>1. Shaped(q)
    BY <1>1, ShapeOfRequest
  <2> QED  BY <2>1, <1>1, ZenonT(30) DEF Shaped, ReqOf
<1> QED  BY <1>1, <1>2, <1>3, ShapeOfRequest, RequestMoves, ZenonT(30)

\* A note of the request on the commit it checked out says that there is
\* nothing to do.
LEMMA IsHydratedKeepsInv ==
    ASSUME Inv, NEW k \in Keys, NEW fetchFails \in BOOLEAN, IsHydrated(k, fetchFails),
           UNCHANGED <<dry, st, inf, checker, work>>
    PROVE  Inv'
<1>1. PICK q, fetched : q = req[k] /\ fetched = IF fetchFails THEN NoNote ELSE notes[q.base]
  OBVIOUS
<1>2. PICK at : at = IF AlreadyHydrated(k, fetched) THEN "done" ELSE "write"
  OBVIOUS
<1>3. PICK r : r = [q EXCEPT !.at = at, !.sha = q.base]
  OBVIOUS
<1>4. q.at = "check" /\ req' = [req EXCEPT ![k] = r] /\ UNCHANGED <<commits, notes>>
  BY <1>1, <1>2, <1>3, ShapeOfRequest, ZenonT(30) DEF IsHydrated
<1>5. /\ r.at = at /\ r.base = q.base /\ r.sha = q.base
      /\ r = ReqOf(r.at, q.dry, q.paths, r.base, r.local, r.sha)
  <2>1. Shaped(q)
    BY <1>1, ShapeOfRequest
  <2> QED  BY <2>1, <1>1, <1>3, ZenonT(30) DEF Shaped, ReqOf
<1>6. Known(q.base) /\ q.dry \in Revisions(k)
  BY <1>1, <1>4, ShapeOfRequest, ZenonT(30) DEF ReqTrue
<1>7. ASSUME at = "done" PROVE Vouched(k, q.dry, q.base)
  <2>1. notes[q.base] = <<DryRepo[k], q.dry>>
    BY <1>1, <1>2, <1>7, NoteIsNote DEF AlreadyHydrated, NoteOf
  <2> QED  BY <2>1, <1>6 DEF Inv, NotesAreTrue, Known
<1> QED  BY <1>1, <1>2, <1>4, <1>5, <1>6, <1>7, RequestMoves, ZenonT(30)

LEMMA UnchangedKeepsInv ==
    ASSUME Inv, NEW k \in Keys, WriteUnchanged(k), UNCHANGED <<dry, st, inf, checker, work>>
    PROVE  Inv'
<1>1. PICK q, r : q = req[k] /\ r = [q EXCEPT !.at = "fetchNotes"]
  BY ZenonT(30)
<1>2. q.at = "write" /\ req' = [req EXCEPT ![k] = r] /\ UNCHANGED <<commits, notes>>
  BY <1>1, ShapeOfRequest DEF WriteUnchanged, Goto
<1>3. /\ r.at = "fetchNotes" /\ r.base = q.base /\ r.sha = q.sha
      /\ r = ReqOf(r.at, q.dry, q.paths, r.base, r.local, r.sha)
  <2>1. Shaped(q)
    BY <1>1, ShapeOfRequest
  <2> QED  BY <2>1, <1>1 DEF Shaped, ReqOf
<1>4. /\ Known(q.base) /\ q.sha = q.base
      /\ q.paths = [a \in Group(k) |-> Manifests[a][q.dry]]
  BY <1>1, <1>2, ShapeOfRequest DEF ReqTrue
<1>5. Vouched(k, q.dry, q.sha)
  <2> SUFFICES ASSUME NEW a \in Group(k) PROVE commits[q.base][a] = Manifests[a][q.dry]
    BY <1>4, OwnManifests, ZenonT(30) DEF Holds
  <2>1. commits[q.base] = Written(k) /\ a \in Apps
    BY <1>1, GroupFacts DEF WriteUnchanged
  <2> QED  BY <1>1, <1>4, <2>1 DEF Written
<1> QED  BY <1>1, <1>2, <1>3, <1>4, <1>5, RequestMoves, ZenonT(30)

LEMMA FetchKeepsInv ==
    ASSUME Inv, NEW k \in Keys, FetchNotes(k), UNCHANGED <<dry, st, inf, checker, work>>
    PROVE  Inv'
<1>1. PICK q, r : q = req[k] /\ r = [q EXCEPT !.at = "pushNotes", !.local = notes]
  BY ZenonT(30)
<1>2. q.at = "fetchNotes" /\ req' = [req EXCEPT ![k] = r] /\ UNCHANGED <<commits, notes>>
  BY <1>1, ShapeOfRequest, ZenonT(30) DEF FetchNotes
<1>3. /\ r.at = "pushNotes" /\ r.base = q.base /\ r.sha = q.sha
      /\ r = ReqOf(r.at, q.dry, q.paths, r.base, r.local, r.sha)
  <2>1. Shaped(q)
    BY <1>1, ShapeOfRequest
  <2> QED  BY <2>1, <1>1, ZenonT(30) DEF Shaped, ReqOf
<1>4. Known(q.sha) /\ Vouched(k, q.dry, q.sha)
  BY <1>1, <1>2, ShapeOfRequest, ZenonT(30) DEF ReqTrue
<1> QED  BY <1>1, <1>2, <1>3, <1>4, RequestMoves, ZenonT(30)

\* A request that fails, or has its push of notes refused.
LEMMA FailureKeepsInv ==
    ASSUME Inv, NEW k \in Keys, NEW at \in {"failed", "fetchNotes"},
           req[k].at # "none", at = "fetchNotes" => req[k].at = "pushNotes",
           req' = [req EXCEPT ![k].at = at, ![k].local = <<>>],
           UNCHANGED <<commits, notes, dry, st, inf, checker, work>>
    PROVE  Inv'
<1>1. PICK q, r : q = req[k] /\ r = [q EXCEPT !.at = at, !.local = <<>>]
  BY ZenonT(30)
<1>2. req' = [req EXCEPT ![k] = r]
  BY <1>1, ShapeOfRequest, ZenonT(30)
<1>3. /\ r.at = at /\ r.base = q.base /\ r.sha = q.sha
      /\ r = ReqOf(r.at, q.dry, q.paths, r.base, r.local, r.sha)
  <2>1. Shaped(q)
    BY <1>1, ShapeOfRequest
  <2> QED  BY <2>1, <1>1, ZenonT(30) DEF Shaped, ReqOf
<1>4. r.at \in {"failed", "fetchNotes"} /\ (r.at = "fetchNotes" => Known(r.sha) /\ Vouched(k, q.dry, r.sha))
  BY <1>1, <1>3, ShapeOfRequest, ZenonT(30) DEF ReqTrue
<1>5. q = req[k]
  BY <1>1
<1> QED  BY <1>2, <1>3, <1>4, <1>5, RequestMoves, ZenonT(40)

\* What is known of requests, workers and outcomes stays true when the branch
\* grows, for all but the request that made it grow.
LEMMA TruthSurvives ==
    ASSUME Inv, NEW c \in [Apps -> Contents], commits' = Append(commits, c),
           UNCHANGED <<st, inf, checker, work>>
    PROVE  /\ OutcomesAreTrue'
           /\ \A l \in Keys : (req'[l] = req[l]) => ReqTrue(l, req[l], work[l])'
           /\ \A l \in Keys : (WorkTyped(l, work[l]) /\ WorkTrue(l, work[l]) /\ CopiesAgree(l, work[l]))'
<1>1. /\ \A i : Known(i) => Known(i)'
      /\ \A k, n, i : Known(i) => (Vouched(k, n, i)' <=> Vouched(k, n, i))
  BY BranchGrows DEF Inv
<1>2. OutcomesAreTrue'
  BY <1>1 DEF Inv, OutcomesAreTrue
<1>3. ASSUME NEW l \in Keys, req'[l] = req[l] PROVE ReqTrue(l, req[l], work[l])'
  <2>1. ReqTrue(l, req[l], work[l])
    BY DEF Inv, WorkersAgree
  <2> QED  BY <1>1, <1>3, <2>1 DEF ReqTrue
<1>4. ASSUME NEW l \in Keys
      PROVE  (WorkTyped(l, work[l]) /\ WorkTrue(l, work[l]) /\ CopiesAgree(l, work[l]))'
  <2>1. WorkTyped(l, work[l]) /\ WorkTrue(l, work[l]) /\ CopiesAgree(l, work[l])
    BY DEF Inv, WorkersAgree
  <2>2. WorkTyped(l, work[l])'
    BY <2>1 DEF WorkTyped
  <2>3. WorkTrue(l, work[l])'
    BY <2>1, <1>1 DEF WorkTrue
  <2>4. CopiesAgree(l, work[l])'
    BY <2>1 DEF CopiesAgree
  <2> QED  BY <2>2, <2>3, <2>4
<1> QED  BY <1>2, <1>3, <1>4

\* A new commit has the group of the request at its revision, and the others as
\* the commit before.
LEMMA PushKeepsInv ==
    ASSUME Inv, NEW k \in Keys, CommitAndPush(k), UNCHANGED <<dry, st, inf, checker, work>>
    PROVE  Inv'
<1> DEFINE c == Written(k)
<1>0. PICK q, top : q = req[k] /\ top = Len(commits)
  BY ZenonT(30)
<1>1. q.at = "write" /\ ReqTrue(k, q, work[k]) /\ Known(q.base)
  BY <1>0, ShapeOfRequest DEF CommitAndPush, ReqTrue
<1>2. CASE Tip # q.base
  <2>1. PICK r : r = [q EXCEPT !.at = "failed"]
    BY ZenonT(30)
  <2>2. req' = [req EXCEPT ![k] = r] /\ UNCHANGED <<commits, notes>>
    BY <1>0, <1>2, <2>1, ShapeOfRequest DEF CommitAndPush, Goto
  <2>3. /\ r.at = "failed" /\ r.base = q.base /\ r.sha = q.sha
        /\ r = ReqOf(r.at, q.dry, q.paths, r.base, r.local, r.sha)
    <3>1. Shaped(q)
      BY <1>0, ShapeOfRequest
    <3> QED  BY <3>1, <1>0, <2>1 DEF Shaped, ReqOf
  <2> QED  BY <1>0, <1>1, <2>2, <2>3, RequestMoves, ZenonT(30)
<1>3. CASE Tip = q.base
  <2>0. PICK r : r = [q EXCEPT !.at = "fetchNotes", !.sha = top + 1]
    OBVIOUS
  <2>1. /\ commits' = Append(commits, c) /\ notes' = Append(notes, NoNote)
        /\ req' = [req EXCEPT ![k] = r]
    BY <1>0, <1>3, <2>0, ShapeOfRequest, ZenonT(30) DEF CommitAndPush, Tip
  <2>2. /\ commits \in Seq([Apps -> Contents]) /\ top \in Nat \ {0} /\ notes \in Seq(Notes)
        /\ Len(notes) = top /\ commits[top] \in [Apps -> Contents] /\ q.base = top
        /\ DOMAIN commits = 1..top
    BY <1>0, <1>3 DEF Inv, BranchTyped, Tip
  <2>3. \A a \in Group(k) : q.paths[a] \in Contents /\ q.paths[a] = Manifests[a][q.dry]
    BY <1>1 DEF ReqTrue, Contents
  <2>4. /\ c \in [Apps -> Contents]
        /\ \A a \in Group(k) : c[a] = Manifests[a][q.dry]
        /\ \A a \in Apps \ Group(k) : c[a] = commits[top][a]
    BY <1>0, <2>2, <2>3, GroupFacts DEF Written
  <2> HIDE DEF c
  <2>5. /\ commits' \in Seq([Apps -> Contents]) /\ Len(commits') = top + 1
        /\ commits'[top + 1] = c /\ \A i \in 1..top : commits'[i] = commits[i]
        /\ \A d, n, i : Known(i) => (Vouched(d, n, i)' <=> Vouched(d, n, i))
    BY <1>0, <2>1, <2>4, BranchGrows DEF Inv, Known
  <2>6. /\ notes' \in Seq(Notes) /\ Len(notes') = top + 1
        /\ notes'[top + 1] = NoNote /\ \A i \in 1..top : notes'[i] = notes[i]
    BY <2>1, <2>2 DEF Notes
  <2>7. BranchTyped'
    BY <2>2, <2>5, <2>6 DEF Inv, BranchTyped
  <2>8. NotesAreTrue'
    <3> SUFFICES ASSUME NEW i \in 1..(top + 1), NEW l \in Keys, NEW n \in Revisions(l),
                        notes'[i] = <<DryRepo[l], n>>
                 PROVE  Vouched(l, n, i)'
      BY <2>5 DEF NotesAreTrue
    <3>1. i \in 1..top
      <4>1. i # top + 1
        BY <2>6, NoteIsNote, ZenonT(30)
      <4> QED  BY <4>1, <2>2
    <3>2. Vouched(l, n, i)
      BY <1>0, <3>1, <2>6 DEF Inv, NotesAreTrue
    <3> QED  BY <1>0, <3>1, <3>2, <2>5 DEF Known
  <2>9. RevisionsAreNotMixed'
    <3> SUFFICES ASSUME NEW i \in 1..(top + 1), NEW l \in Keys
                 PROVE  \/ \A a \in Group(l) : commits'[i][a] = 0
                        \/ \E n \in Revisions(l) : \A a \in Group(l) : commits'[i][a] = Manifests[a][n]
      BY <2>5 DEF RevisionsAreNotMixed
    <3>1. \A j \in 1..top : \/ \A a \in Group(l) : commits[j][a] = 0
                            \/ \E n \in Revisions(l) : \A a \in Group(l) : commits[j][a] = Manifests[a][n]
      <4>1. RevisionsAreNotMixed
        BY DEF Inv
      <4> QED  BY <4>1, <2>2, SMTT(30) DEF RevisionsAreNotMixed
    <3>2. CASE i \in 1..top
      BY <3>1, <3>2, <2>5
    <3>3. CASE i = top + 1 /\ l = k
      BY <3>3, <2>4, <2>5, <1>1 DEF ReqTrue
    <3>4. CASE i = top + 1 /\ l # k
      <4>1. \A a \in Group(l) : c[a] = commits[top][a]
        BY <3>4, <2>4, GroupFacts
      <4> QED  BY <3>4, <4>1, <3>1, <2>2, <2>5, SMTT(30)
    <3> QED  BY <3>2, <3>3, <3>4, <2>2
  <2>10. StatusTyped'
    BY DEF Inv, StatusTyped
  <2>11. /\ OutcomesAreTrue'
         /\ \A l \in Keys : (req'[l] = req[l]) => ReqTrue(l, req[l], work[l])'
         /\ \A l \in Keys : (WorkTyped(l, work[l]) /\ WorkTrue(l, work[l]) /\ CopiesAgree(l, work[l]))'
    <3>1. PICK d \in [Apps -> Contents] : commits' = Append(commits, d)
      BY <2>1, <2>4
    <3> QED  BY <3>1, TruthSurvives
  <2>12. Known(top + 1)' /\ Vouched(k, q.dry, top + 1)'
    <3>1. Known(top + 1)' /\ Holds(k, q.dry, top + 1)'
      BY <2>2, <2>4, <2>5 DEF Known, Holds
    <3>2. k \in Sharing(k)
      BY DEF Sharing
    <3> QED  BY <3>1, <3>2, ZenonT(30) DEF Vouched
  <2>13. ReqTrue(k, r, work[k])'
    <3>1. /\ r.at = "fetchNotes" /\ r.base = q.base /\ r.sha = top + 1
          /\ r = ReqOf(r.at, q.dry, q.paths, r.base, r.local, r.sha)
      <4>1. Shaped(q)
        BY <1>0, ShapeOfRequest
      <4> QED  BY <4>1, <1>0, <2>0, ZenonT(30) DEF Shaped, ReqOf
    <3>2. Shaped(r) /\ r.dry = q.dry /\ r.paths = q.paths
      BY <3>1 DEF Shaped, ReqOf
    <3> QED  BY <1>1, <2>12, <3>1, <3>2 DEF ReqTrue, Known, Vouched, Holds
  <2>14. req' = [l \in Keys |-> req'[l]] /\ req'[k] = r /\ \A l \in Keys \ {k} : req'[l] = req[l]
    BY <2>1, ShapeOfRequest, ZenonT(30)
  <2>15. \A l \in Keys : ReqTrue(l, req[l], work[l])'
    BY <2>11, <2>13, <2>14
  <2>16. work' = [l \in Keys |-> work'[l]]
    BY DEF Inv, WorkersAgree
  <2> QED  BY <2>7, <2>8, <2>9, <2>10, <2>11, <2>14, <2>15, <2>16 DEF Inv, WorkersAgree
<1> QED  BY <1>2, <1>3

\* An accepted push changes the note of the commit of the request only.
LEMMA NotesAfterPush ==
    ASSUME BranchTyped, NEW k \in Keys, PushNotes(k)
    PROVE  notes' = [notes EXCEPT ![req[k].sha] = NoteOf(k)]
<1>1. notes = [i \in DOMAIN notes |-> notes[i]]
  BY DEF BranchTyped
<1>2. \A i \in DOMAIN notes :
        notes[i] = IF i \in DOMAIN req[k].local THEN req[k].local[i] ELSE NoNote
  BY DEF PushNotes, NotePushAccepted
<1>3. notes' = [i \in DOMAIN notes |-> IF i = req[k].sha THEN NoteOf(k) ELSE notes[i]]
  BY <1>2 DEF PushNotes, WithNote
<1> QED  BY <1>1, <1>3

LEMMA NotesKeepInv ==
    ASSUME Inv, NEW k \in Keys, PushNotes(k), UNCHANGED <<dry, st, inf, checker, work>>
    PROVE  Inv'
<1>1. PICK q, r : q = req[k] /\ r = [q EXCEPT !.at = "done", !.local = <<>>]
  BY ZenonT(30)
<1>2. /\ q.at = "pushNotes" /\ req' = [req EXCEPT ![k] = r] /\ commits' = commits
      /\ notes' = [notes EXCEPT ![q.sha] = <<DryRepo[k], q.dry>>]
  <2>1. BranchTyped
    BY DEF Inv
  <2> QED  BY <1>1, <2>1, NotesAfterPush, ShapeOfRequest, ZenonT(30) DEF PushNotes, NoteOf
<1>3. Known(q.sha) /\ Vouched(k, q.dry, q.sha) /\ q.dry \in Revisions(k)
  BY <1>1, <1>2, ShapeOfRequest, ZenonT(30) DEF ReqTrue
<1>4. /\ r.at = "done" /\ r.sha = q.sha /\ r.dry = q.dry /\ r.paths = q.paths /\ Shaped(r)
  <2>1. Shaped(q)
    BY <1>1, ShapeOfRequest
  <2> QED  BY <2>1, <1>1, ZenonT(30) DEF Shaped, ReqOf
<1>5. BranchTyped'
  <2>1. <<DryRepo[k], q.dry>> \in Notes
    BY <1>3 DEF Notes, AnyRevision
  <2>2. notes \in Seq(Notes) /\ Len(notes) = Len(commits)
    BY DEF Inv, BranchTyped
  <2>3. q.sha \in 1..Len(notes)
    BY <1>3, <2>2 DEF Known
  <2>4. notes' \in Seq(Notes) /\ Len(notes') = Len(notes)
    BY <1>2, <2>1, <2>2, <2>3
  <2> QED  BY <1>2, <2>2, <2>4 DEF Inv, BranchTyped
<1>6. NotesAreTrue'
  <2> SUFFICES ASSUME NEW i \in 1..Len(commits), NEW l \in Keys, NEW n \in Revisions(l),
                      notes'[i] = <<DryRepo[l], n>>
               PROVE  Vouched(l, n, i)
    BY <1>2 DEF NotesAreTrue, Vouched, Holds
  <2>1. DOMAIN notes = 1..Len(commits)
    BY DEF Inv, BranchTyped
  <2>2. CASE i = q.sha
    <3>1. <<DryRepo[k], q.dry>> = <<DryRepo[l], n>>
      BY <1>2, <2>1, <2>2
    <3>2. DryRepo[k] = DryRepo[l] /\ q.dry = n
      BY <3>1
    <3> QED  BY <2>2, <3>2, <1>3, SharedManifests, ZenonT(30)
  <2>3. CASE i # q.sha
    <3>1. notes[i] = <<DryRepo[l], n>>
      BY <1>2, <2>1, <2>3
    <3> QED  BY <3>1 DEF Inv, NotesAreTrue
  <2> QED  BY <2>2, <2>3
<1>7. RevisionsAreNotMixed' /\ StatusTyped' /\ OutcomesAreTrue'
  <2>1. RevisionsAreNotMixed'  BY <1>2 DEF Inv, RevisionsAreNotMixed
  <2>2. StatusTyped'  BY DEF Inv, StatusTyped
  <2>3. OutcomesAreTrue'  BY <1>2 DEF Inv, OutcomesAreTrue, Vouched, Holds, Known
  <2> QED  BY <2>1, <2>2, <2>3
<1>8. ASSUME NEW l \in Keys PROVE ReqTrue(l, req[l], work[l])'
  <2>1. req'[l] = IF l = k THEN r ELSE req[l]
    BY <1>2, ShapeOfRequest
  <2>2. ReqTrue(k, r, work[k])
    BY <1>1, <1>2, <1>3, <1>4, ShapeOfRequest DEF ReqTrue
  <2>3. ReqTrue(l, req'[l], work[l])
    BY <2>1, <2>2 DEF Inv, WorkersAgree
  <2> QED  BY <1>2, <2>3, SMTT(30) DEF ReqTrue, Vouched, Holds, Known
<1>9. ASSUME NEW l \in Keys PROVE (WorkTrue(l, work[l]) /\ WorkTyped(l, work[l]) /\ CopiesAgree(l, work[l]))'
  BY <1>2, SMTT(30) DEF Inv, WorkersAgree, WorkTrue, WorkTyped, CopiesAgree, Vouched, Holds, Known
<1>10. (req = [l \in Keys |-> req[l]] /\ work = [l \in Keys |-> work[l]])'
  BY <1>2, ShapeOfRequest DEF Inv, WorkersAgree
<1> QED  BY <1>5, <1>6, <1>7, <1>8, <1>9, <1>10 DEF Inv, WorkersAgree

LEMMA CommitServerKeepsInv ==
    ASSUME Inv, NEW k \in Keys, CommitServerStep(k)
    PROVE  Inv'
<1>1. UNCHANGED <<dry, st, inf, checker, work>>
  BY DEF CommitServerStep, controller
<1>2. ASSUME RequestFails(k) PROVE Inv'
  BY <1>1, <1>2, FailureKeepsInv, ZenonT(30) DEF RequestFails
<1>3. ASSUME NEW giveUp \in BOOLEAN, PushNotesRefused(k, giveUp) PROVE Inv'
  BY <1>1, <1>3, FailureKeepsInv, ZenonT(30) DEF PushNotesRefused
<1> QED
  BY <1>1, <1>2, <1>3, CloneKeepsInv, IsHydratedKeepsInv, UnchangedKeepsInv, PushKeepsInv, FetchKeepsInv,
     NotesKeepInv, ZenonT(30) DEF CommitServerStep, ServeRequest
=============================================================================
