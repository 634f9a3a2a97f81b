--------------------------- MODULE RequestProofs ----------------------------
(***************************************************************************)
(* What requests do with the manifest cache of the repo server, for any    *)
(* number of requests, repositories and commits: generation pauses only    *)
(* after failures.                                                         *)
(***************************************************************************)
EXTENDS RepoServerProofs

-----------------------------------------------------------------------------
(* What each step makes of a request.                                        *)

ReqsShaped == req = [p \in Reqs |-> req[p]] /\ \A p \in Reqs : Shaped(req[p])

\* Request p becomes r, the others stay.
Becomes(p, r) == req' = [d \in Reqs |-> IF d = p THEN r ELSE req[d]]

\* A request at another position, with another copy of a cache entry.
Moved(r, pc) == ReqOf(pc, r.left, r.rev, r.refs, r.locked, r.copy, r.saw)
MovedWith(r, pc, copy) == ReqOf(pc, r.left, r.rev, r.refs, r.locked, copy, r.saw)

LEMMA FieldsOf ==
    ASSUME NEW pc, NEW left, NEW rev, NEW refs, NEW locked, NEW copy, NEW saw, NEW r,
           r = ReqOf(pc, left, rev, refs, locked, copy, saw)
    PROVE  /\ Shaped(r)
           /\ r.pc = pc /\ r.left = left /\ r.rev = rev /\ r.refs = refs
           /\ r.locked = locked /\ r.copy = copy /\ r.saw = saw
BY DEF Shaped, ReqOf

\* Updates of the record of a request.
LEMMA CopyUpdate ==
    ASSUME NEW r, Shaped(r), NEW pc, NEW copy, NEW x, x = [r EXCEPT !.copy = copy, !.pc = pc]
    PROVE  x = ReqOf(pc, r.left, r.rev, r.refs, r.locked, copy, r.saw)
BY ZenonT(60) DEF Shaped, ReqOf

LEMMA UpdateCopy ==
    ASSUME NEW r, Shaped(r), NEW pc, NEW copy, NEW x, x = [r EXCEPT !.pc = pc, !.copy = copy]
    PROVE  x = ReqOf(pc, r.left, r.rev, r.refs, r.locked, copy, r.saw)
BY ZenonT(60) DEF Shaped, ReqOf

LEMMA RevisionUpdate ==
    ASSUME NEW r, Shaped(r), NEW pc, NEW rev, NEW refs, NEW x,
           x = [r EXCEPT !.rev = rev, !.refs = refs, !.pc = pc]
    PROVE  x = ReqOf(pc, r.left, rev, refs, r.locked, r.copy, r.saw)
BY ZenonT(60) DEF Shaped, ReqOf

LEMMA SawUpdate ==
    ASSUME NEW r, Shaped(r), NEW pc, NEW saw, NEW x, x = [r EXCEPT !.saw = saw, !.pc = pc]
    PROVE  x = ReqOf(pc, r.left, r.rev, r.refs, r.locked, r.copy, saw)
BY ZenonT(60) DEF Shaped, ReqOf

LEMMA LockedUpdate ==
    ASSUME NEW r, Shaped(r), NEW pc, NEW locked, NEW x, x = [r EXCEPT !.locked = locked, !.pc = pc]
    PROVE  x = ReqOf(pc, r.left, r.rev, r.refs, locked, r.copy, r.saw)
BY ZenonT(60) DEF Shaped, ReqOf

LEMMA GotoBecomes ==
    ASSUME ReqsShaped, NEW p \in Reqs, NEW pc, Goto(p, pc)
    PROVE  Becomes(p, Moved(req[p], pc))
<1>1. PICK r : r = req[p] /\ Shaped(r)
  BY DEF ReqsShaped
<1>2. [r EXCEPT !.pc = pc] = Moved(r, pc)
  BY <1>1 DEF Shaped, ReqOf, Moved
<1>3. req' = [d \in Reqs |-> IF d = p THEN [req[p] EXCEPT !.pc = pc] ELSE req[d]]
  BY DEF ReqsShaped, Goto
<1> QED  BY <1>1, <1>2, <1>3 DEF Becomes

LEMMA CopyBecomes ==
    ASSUME ReqsShaped, NEW p \in Reqs, NEW pc, NEW copy,
           \/ req' = [req EXCEPT ![p].copy = copy, ![p].pc = pc]
           \/ req' = [req EXCEPT ![p].pc = pc, ![p].copy = copy]
    PROVE  Becomes(p, MovedWith(req[p], pc, copy))
<1>1. PICK r : r = req[p] /\ Shaped(r)
  BY DEF ReqsShaped
<1>2. CASE req' = [req EXCEPT ![p].copy = copy, ![p].pc = pc]
  <2>1. PICK x : /\ x = [r EXCEPT !.copy = copy, !.pc = pc]
                 /\ req' = [d \in Reqs |-> IF d = p THEN x ELSE req[d]]
    BY <1>1, <1>2 DEF ReqsShaped
  <2>2. x = ReqOf(pc, r.left, r.rev, r.refs, r.locked, copy, r.saw)
    BY <1>1, <2>1, CopyUpdate, ZenonT(60)
  <2> QED  BY <1>1, <2>1, <2>2 DEF Becomes, MovedWith
<1>3. CASE req' = [req EXCEPT ![p].pc = pc, ![p].copy = copy]
  <2>0. req' = [d \in Reqs |-> IF d = p THEN [req[p] EXCEPT !.pc = pc, !.copy = copy] ELSE req[d]]
    BY <1>3 DEF ReqsShaped
  <2>1. PICK x : /\ x = [r EXCEPT !.pc = pc, !.copy = copy]
                 /\ req' = [d \in Reqs |-> IF d = p THEN x ELSE req[d]]
    BY <1>1, <2>0, ZenonT(60)
  <2>2. x = ReqOf(pc, r.left, r.rev, r.refs, r.locked, copy, r.saw)
    BY <1>1, <2>1, UpdateCopy, ZenonT(60)
  <2> QED  BY <1>1, <2>1, <2>2 DEF Becomes, MovedWith
<1> QED  BY <1>2, <1>3

LEMMA ResolveBecomes ==
    ASSUME ReqsShaped, NEW p \in Reqs, Resolve(p)
    PROVE  LET q == plan.reqs[p]
               r == req[p]
           IN \E v \in Resolutions(q.path, q.rev, q.noCache), rs \in [DOMAIN q.refs -> Revisions],
                 pc \in {"compare", "permit", "cached"} :
                 /\ Becomes(p, ReqOf(pc, r.left, v, rs, r.locked, r.copy, r.saw))
                 /\ pc = "compare" <=> q.kind = "compare"
<1> DEFINE q == plan.reqs[p]
<1>1. PICK r : r = req[p] /\ Shaped(r)
  BY DEF ReqsShaped
<1>2. PICK pc \in {"compare", "permit", "cached"} :
         /\ pc = CASE q.kind = "compare" -> "compare"
                   [] q.kind = "manifest" /\ q.noCache -> "permit"
                   [] OTHER -> "cached"
         /\ pc = "compare" <=> q.kind = "compare"
  OBVIOUS
<1>3. PICK v \in Resolutions(q.path, q.rev, q.noCache), rs \in [DOMAIN q.refs -> Revisions] :
         req' = [req EXCEPT ![p].rev = v, ![p].refs = rs, ![p].pc = pc]
  BY <1>2, ZenonT(60) DEF Resolve
<1>4. PICK x : /\ x = [r EXCEPT !.rev = v, !.refs = rs, !.pc = pc]
               /\ req' = [d \in Reqs |-> IF d = p THEN x ELSE req[d]]
  BY <1>1, <1>3 DEF ReqsShaped
<1>5. x = ReqOf(pc, r.left, v, rs, r.locked, r.copy, r.saw)
  BY <1>1, <1>4, RevisionUpdate, ZenonT(60)
<1>6. Becomes(p, ReqOf(pc, r.left, v, rs, r.locked, r.copy, r.saw))
  BY <1>4, <1>5 DEF Becomes
<1> QED  BY <1>1, <1>2, <1>6, SMTT(60)

LEMMA GenerateBecomes ==
    ASSUME ReqsShaped, NEW p \in Reqs, Generate(p)
    PROVE  LET r == req[p] IN
           \E pc \in {"plugin", "store"} :
              Becomes(p, ReqOf(pc, r.left, r.rev, r.refs, r.locked, r.copy, Manifest(p)))
<1>1. PICK r : r = req[p] /\ Shaped(r)
  BY DEF ReqsShaped
<1>2. PICK m : m = Manifest(p)
  OBVIOUS
<1>3. PICK pc \in {"plugin", "store"} : req' = [req EXCEPT ![p].saw = m, ![p].pc = pc]
  BY <1>2, ZenonT(60) DEF Generate
<1>4. PICK x : /\ x = [r EXCEPT !.saw = m, !.pc = pc]
               /\ req' = [d \in Reqs |-> IF d = p THEN x ELSE req[d]]
  BY <1>1, <1>3 DEF ReqsShaped
<1>5. x = ReqOf(pc, r.left, r.rev, r.refs, r.locked, r.copy, m)
  BY <1>1, <1>4, SawUpdate, ZenonT(60)
<1> QED  BY <1>1, <1>2, <1>4, <1>5 DEF Becomes

\* The next reference is not to be had, is one to a clone that is locked, or
\* is to be locked, at the request's own revision if it is its own repository.
LEMMA ResolveRefBecomes ==
    ASSUME ReqsShaped, NEW p \in Reqs, ResolveRef(p)
    PROVE  LET q == plan.reqs[p]
               r == req[p]
               i == Len(r.locked) + 1
               With(pc, v) == ReqOf(pc, r.left, r.rev, r.refs, Append(r.locked, v), r.copy, r.saw)
           IN \/ Becomes(p, Moved(r, "done"))
              \/ \E j \in SameBefore(q, i) : Becomes(p, With("refs", r.locked[j]))
              \/ \E v \in Resolutions(q.refs[i].path, q.refs[i].rev, q.noCache) :
                    /\ SameBefore(q, i) = {}
                    /\ q.refs[i].path = q.path => v = r.rev
                    /\ Becomes(p, With("lockRef", v))
<1> DEFINE q == plan.reqs[p]
           i == Len(req[p].locked) + 1
           same == SameBefore(q, i)
           With(r, pc, v) == ReqOf(pc, r.left, r.rev, r.refs, Append(r.locked, v), r.copy, r.saw)
<1>1. PICK r : r = req[p] /\ Shaped(r)
  BY DEF ReqsShaped
<1>2. r.pc = "refs"
  BY <1>1, ZenonT(60) DEF ResolveRef
<1>3. PICK v \in Resolutions(q.refs[i].path, q.refs[i].rev, q.noCache) :
        \/ Goto(p, "done")
        \/ same # {} /\ req' = [req EXCEPT ![p].locked = Append(@, @[CHOOSE j \in same : TRUE])]
        \/ /\ same = {}
           /\ q.refs[i].path = q.path => v = req[p].rev
           /\ req' = [req EXCEPT ![p].locked = Append(@, v), ![p].pc = "lockRef"]
  BY ZenonT(60) DEF ResolveRef, Goto
<1>4. CASE Goto(p, "done")
  BY <1>4, GotoBecomes, ZenonT(60)
<1>5. CASE same # {} /\ req' = [req EXCEPT ![p].locked = Append(@, @[CHOOSE j \in same : TRUE])]
  <2>1. PICK j \in same : j = CHOOSE k \in same : TRUE
    BY <1>5, ZenonT(60)
  <2>2. req' = [d \in Reqs |-> IF d = p THEN [req[p] EXCEPT !.locked = Append(req[p].locked, req[p].locked[j])]
                                        ELSE req[d]]
    BY <1>5, <2>1, ZenonT(60) DEF ReqsShaped
  <2>3. PICK more : more = Append(r.locked, r.locked[j])
    BY ZenonT(60)
  <2>4. [r EXCEPT !.locked = more] = ReqOf("refs", r.left, r.rev, r.refs, more, r.copy, r.saw)
    BY <1>1, <1>2, SMTT(60) DEF Shaped, ReqOf
  <2>5. Becomes(p, With(r, "refs", r.locked[j]))
    BY <1>1, <2>2, <2>3, <2>4, ZenonT(60) DEF Becomes
  <2> QED  BY <1>1, <2>5, ZenonT(60)
<1>6. CASE /\ same = {}
           /\ q.refs[i].path = q.path => v = req[p].rev
           /\ req' = [req EXCEPT ![p].locked = Append(@, v), ![p].pc = "lockRef"]
  <2>1. PICK more : more = Append(r.locked, v)
    BY ZenonT(60)
  <2>2. PICK x : /\ x = [r EXCEPT !.locked = more, !.pc = "lockRef"]
                 /\ req' = [d \in Reqs |-> IF d = p THEN x ELSE req[d]]
    BY <1>1, <1>6, <2>1, ZenonT(60) DEF ReqsShaped
  <2>3. x = ReqOf("lockRef", r.left, r.rev, r.refs, more, r.copy, r.saw)
    BY <1>1, <2>2, LockedUpdate, ZenonT(60)
  <2>4. Becomes(p, With(r, "lockRef", v))
    BY <1>1, <2>1, <2>2, <2>3, ZenonT(60) DEF Becomes
  <2> QED  BY <1>1, <1>6, <2>4, ZenonT(60)
<1> QED  BY <1>3, <1>4, <1>5, <1>6, ZenonT(60)

\* A comparison ends, gets one repository further, or has one to lock.
LEMMA CompareSourceBecomes ==
    ASSUME ReqsShaped, NEW p \in Reqs, CompareSource(p)
    PROVE  LET q == plan.reqs[p]
               r == req[p]
               i == Len(r.locked)
               With(pc, refs, locked) == ReqOf(pc, r.left, r.rev, refs, locked, r.copy, r.saw)
           IN \E v \in IF i = 0 THEN {r.rev} ELSE Resolutions(PathOf(q, i), q.refs[i].rev, q.noCache) :
              \E refs \in {IF i = 0 THEN r.refs ELSE [r.refs EXCEPT ![i] = v]} :
                 \/ Becomes(p, With("done", refs, r.locked))
                 \/ ~ChangedFiles(q, i, v) /\ Becomes(p, With("compare", refs, Append(r.locked, v)))
                 \/ Becomes(p, With("lockDiff", refs, r.locked))
<1> DEFINE q == plan.reqs[p]
           i == Len(req[p].locked)
           With(r, pc, refs, locked) == ReqOf(pc, r.left, r.rev, refs, locked, r.copy, r.saw)
<1>1. PICK r : r = req[p] /\ Shaped(r) /\ r.pc = "compare"
  BY DEF ReqsShaped, CompareSource
<1>2. PICK v \in IF i = 0 THEN {req[p].rev} ELSE Resolutions(PathOf(q, i), q.refs[i].rev, q.noCache) :
        \E now \in {IF i = 0 THEN req[p] ELSE [req[p] EXCEPT !.refs[i] = v]} :
          \/ req' = [req EXCEPT ![p] = [now EXCEPT !.pc = "done"]]
          \/ ~ChangedFiles(q, i, v) /\ req' = [req EXCEPT ![p] = [now EXCEPT !.locked = Append(@, v)]]
          \/ req' = [req EXCEPT ![p] = [now EXCEPT !.pc = "lockDiff"]]
  BY ZenonT(60) DEF CompareSource, CompareAt
<1>3. PICK now \in {IF i = 0 THEN r ELSE [r EXCEPT !.refs[i] = v]} :
          \/ req' = [req EXCEPT ![p] = [now EXCEPT !.pc = "done"]]
          \/ ~ChangedFiles(q, i, v) /\ req' = [req EXCEPT ![p] = [now EXCEPT !.locked = Append(@, v)]]
          \/ req' = [req EXCEPT ![p] = [now EXCEPT !.pc = "lockDiff"]]
  BY <1>1, <1>2, SMTT(60)
<1>4. PICK refs \in {IF i = 0 THEN r.refs ELSE [r.refs EXCEPT ![i] = v]} :
         now = ReqOf("compare", r.left, r.rev, refs, r.locked, r.copy, r.saw)
  <2>1. PICK refs : refs = IF i = 0 THEN r.refs ELSE [r.refs EXCEPT ![i] = v]
    BY ZenonT(60)
  <2>2. now = [r EXCEPT !.refs = refs]
    <3>1. r = [r EXCEPT !.refs = r.refs]
      BY <1>1 DEF Shaped, ReqOf
    <3> QED  BY <1>3, <2>1, <3>1
  <2>3. now = ReqOf("compare", r.left, r.rev, refs, r.locked, r.copy, r.saw)
    BY <1>1, <2>2 DEF Shaped, ReqOf
  <2> QED  BY <2>1, <2>3
<1>5. /\ now.locked = r.locked
      /\ [now EXCEPT !.pc = "done"] = With(r, "done", refs, r.locked)
      /\ [now EXCEPT !.pc = "lockDiff"] = With(r, "lockDiff", refs, r.locked)
      /\ \A more : [now EXCEPT !.locked = more] = With(r, "compare", refs, more)
  BY <1>4, SMTT(60) DEF ReqOf
<1>6. \A x : req' = [req EXCEPT ![p] = x] => Becomes(p, x)
  BY DEF ReqsShaped, Becomes
<1>7. CASE req' = [req EXCEPT ![p] = [now EXCEPT !.pc = "done"]]
  <2>1. Becomes(p, With(r, "done", refs, r.locked))
    BY <1>5, <1>6, <1>7, ZenonT(60)
  <2> QED  BY <1>1, <1>2, <1>4, <2>1, ZenonT(60)
<1>8. CASE ~ChangedFiles(q, i, v) /\ req' = [req EXCEPT ![p] = [now EXCEPT !.locked = Append(@, v)]]
  <2>1. PICK more : more = Append(r.locked, v)
    BY ZenonT(60)
  <2>2. [now EXCEPT !.locked = Append(@, v)] = With(r, "compare", refs, more)
    BY <1>5, <2>1, ZenonT(60)
  <2>3. Becomes(p, With(r, "compare", refs, more))
    BY <1>6, <1>8, <2>2, ZenonT(60)
  <2> QED  BY <1>1, <1>2, <1>4, <1>8, <2>1, <2>3, ZenonT(60)
<1>9. CASE req' = [req EXCEPT ![p] = [now EXCEPT !.pc = "lockDiff"]]
  <2>1. Becomes(p, With(r, "lockDiff", refs, r.locked))
    BY <1>5, <1>6, <1>9, ZenonT(60)
  <2> QED  BY <1>1, <1>2, <1>4, <2>1, ZenonT(60)
<1> QED  BY <1>3, <1>7, <1>8, <1>9, ZenonT(60)

LEMMA CompareBecomes ==
    ASSUME ReqsShaped, NEW p \in Reqs, Compare(p)
    PROVE  LET q == plan.reqs[p]
               r == req[p]
               v == Resolved(p, Len(r.locked))
           IN \/ Becomes(p, Moved(r, "done"))
              \/ /\ ~ChangedFiles(q, Len(r.locked), v)
                 /\ Becomes(p, ReqOf("compare", r.left, r.rev, r.refs, Append(r.locked, v), r.copy, r.saw))
<1> DEFINE q == plan.reqs[p]
<1>1. PICK r, v : r = req[p] /\ Shaped(r) /\ v = Resolved(p, Len(r.locked))
  BY DEF ReqsShaped
<1>2. CASE Goto(p, "done")
  BY <1>2, GotoBecomes
<1>3. CASE /\ ~ChangedFiles(q, Len(req[p].locked), Resolved(p, Len(req[p].locked)))
           /\ req' = [req EXCEPT ![p].locked = Append(@, Resolved(p, Len(req[p].locked))), ![p].pc = "compare"]
  <2>1. PICK more : more = Append(r.locked, v)
    BY ZenonT(60)
  <2>2. PICK x : /\ x = [r EXCEPT !.locked = more, !.pc = "compare"]
                 /\ req' = [d \in Reqs |-> IF d = p THEN x ELSE req[d]]
    BY <1>1, <1>3, <2>1, ZenonT(60) DEF ReqsShaped
  <2>3. x = ReqOf("compare", r.left, r.rev, r.refs, more, r.copy, r.saw)
    BY <1>1, <2>2, LockedUpdate, ZenonT(60)
  <2>4. Becomes(p, ReqOf("compare", r.left, r.rev, r.refs, more, r.copy, r.saw))
    BY <1>1, <2>2, <2>3 DEF Becomes
  <2> QED  BY <1>1, <1>3, <2>1, <2>4
<1> QED  BY <1>2, <1>3, SMTT(60) DEF Compare, CompareAt

LEMMA FinishBecomes ==
    ASSUME ReqsShaped, NEW p \in Reqs, Finish(p)
    PROVE  Becomes(p, ReqOf("idle", req[p].left - 1, None, << >>, << >>, NoEntry, NoManifest))
BY DEF ReqsShaped, Finish, Becomes, Idle, ReqOf

\* A call of Lock: the request goes on if it is in.
LEMMA EnterBecomes ==
    ASSUME ReqsShaped, NEW p \in Reqs, NEW c, NEW path, NEW rev, NEW shared, NEW sub, NEW next,
           Enter(p, c, path, rev, shared, sub, next)
    PROVE  \/ call'[c].at = "in" /\ Becomes(p, Moved(req[p], next))
           \/ call'[c].at # "in" /\ req' = req
BY GotoBecomes DEF Enter, Goto

-----------------------------------------------------------------------------
(* The pause of manifest generation.                                         *)

IsEntry(e) ==
    /\ e = [ok |-> e.ok, failures |-> e.failures, returned |-> e.returned]
    /\ e.failures \in Nat

EntriesTyped ==
    /\ \A k \in DOMAIN cache : IsEntry(cache[k])
    /\ \A k \in DOMAIN failed : failed[k] \in Nat

CopiesTyped == \A p \in Reqs : IsEntry(req[p].copy)

PauseInv == ReqsShaped /\ EntriesTyped /\ CopiesTyped /\ PauseIsEarned

LEMMA NoEntryTyped == IsEntry(NoEntry)
BY DEF IsEntry, NoEntry

LEMMA GetTyped ==
    ASSUME EntriesTyped, NEW k
    PROVE  IsEntry(Get(cache, k, NoEntry)) /\ Get(failed, k, 0) \in Nat
BY NoEntryTyped DEF EntriesTyped, Get

\* Only one request has changed, and has a copy of an entry or none.
LEMMA OneShaped ==
    ASSUME ReqsShaped, NEW p \in Reqs, NEW r, Becomes(p, r), Shaped(r)
    PROVE  ReqsShaped'
<1>1. \A d \in Reqs : req'[d] = IF d = p THEN r ELSE req[d]
  BY DEF Becomes
<1>2. req' = [d \in Reqs |-> req'[d]]
  BY DEF Becomes
<1>3. \A d \in Reqs : Shaped(req'[d])
  BY <1>1 DEF ReqsShaped
<1> QED  BY <1>2, <1>3 DEF ReqsShaped

LEMMA OneCopy ==
    ASSUME CopiesTyped, NEW p \in Reqs, NEW r, Becomes(p, r), IsEntry(r.copy)
    PROVE  CopiesTyped'
<1>1. \A d \in Reqs : req'[d] = IF d = p THEN r ELSE req[d]
  BY DEF Becomes
<1>2. ASSUME NEW d \in Reqs PROVE IsEntry(req'[d].copy)
  BY <1>1 DEF CopiesTyped
<1> QED  BY <1>2 DEF CopiesTyped

\* What a step of a request makes of its record.
LEMMA RequestGoesOn ==
    ASSUME ReqsShaped, EntriesTyped, CopiesTyped, NEW p \in Reqs,
           Resolve(p) \/ Step(p) \/ CheckoutFails(p) \/ GenerateFails(p)
    PROVE  req' = req \/ \E r : Becomes(p, r) /\ Shaped(r) /\ IsEntry(r.copy)
<1>0. PICK r : r = req[p] /\ IsEntry(r.copy)
  BY DEF CopiesTyped
<1>1. ASSUME NEW pc, Goto(p, pc) PROVE \E x : Becomes(p, x) /\ Shaped(x) /\ IsEntry(x.copy)
  <2>1. PICK x : x = Moved(r, pc)
    OBVIOUS
  <2>2. Shaped(x) /\ x.copy = r.copy
    BY <2>1, FieldsOf DEF Moved
  <2>3. Becomes(p, x)
    BY <1>0, <1>1, <2>1, GotoBecomes
  <2> QED  BY <1>0, <2>2, <2>3
<1>2. ASSUME NEW pc, NEW left, NEW rev, NEW refs, NEW locked, NEW saw, NEW copy, IsEntry(copy),
             Becomes(p, ReqOf(pc, left, rev, refs, locked, copy, saw))
      PROVE  \E x : Becomes(p, x) /\ Shaped(x) /\ IsEntry(x.copy)
  <2>1. PICK x : x = ReqOf(pc, left, rev, refs, locked, copy, saw)
    OBVIOUS
  <2>2. Shaped(x) /\ x.copy = copy
    BY <2>1, FieldsOf
  <2> QED  BY <1>2, <2>1, <2>2
<1>3. CASE \/ Recheck(p) \/ CountAnswer(p) \/ ResetEntry(p) \/ AcquirePermit(p) \/ Prepare(p)
           \/ PluginAnswers(p) \/ RecordFailure(p) \/ Store(p) \/ MoveManifests(p) \/ CheckoutFails(p)
  <2>1. \E pc : Goto(p, pc)
    BY <1>3, ZenonT(30) DEF Recheck, CountAnswer, ResetEntry, AcquirePermit, Prepare, PluginAnswers,
                RecordFailure, Store, MoveManifests, CheckoutFails
  <2> QED  BY <1>1, <2>1
<1>4. CASE Leave(p) \/ Wake(p) \/ ReleasePermit(p)
  BY <1>4 DEF Leave, Wake, ReleasePermit
<1>5. CASE LockMain(p) \/ LockRef(p) \/ LockToCompare(p)
  <2>1. PICK c, path, rev, shared, sub, next : Enter(p, c, path, rev, shared, sub, next)
    BY <1>5, ZenonT(30) DEF LockMain, LockRef, LockToCompare
  <2>2. req' = req \/ \E pc : Goto(p, pc)
    BY <2>1, ZenonT(60) DEF Enter, Goto
  <2> QED  BY <1>1, <2>2
<1>6. CASE Resolve(p)
  <2>1. \E pc, v, rs : Becomes(p, ReqOf(pc, r.left, v, rs, r.locked, r.copy, r.saw))
    BY <1>0, <1>6, ResolveBecomes
  <2> QED  BY <1>0, <1>2, <2>1
<1>7. CASE CheckCache(p) \/ GenerateFails(p)
  <2>1. PICK pc, copy : /\ IsEntry(copy)
                        /\ \/ req' = [req EXCEPT ![p].copy = copy, ![p].pc = pc]
                           \/ req' = [req EXCEPT ![p].pc = pc, ![p].copy = copy]
    <3>1. CASE CheckCache(p)
      <4>1. PICK v, pc :
              /\ v \in Verdicts(LookupKey(p))
              /\ req' = [req EXCEPT ![p].copy = IF v = "paused" THEN cache[LookupKey(p)] ELSE NoEntry,
                                    ![p].pc = pc]
        BY <3>1, ZenonT(30) DEF CheckCache
      <4>2. v = "paused" => LookupKey(p) \in DOMAIN cache
        BY <4>1 DEF Verdicts
      <4>3. IsEntry(IF v = "paused" THEN cache[LookupKey(p)] ELSE NoEntry)
        BY <4>2, NoEntryTyped DEF EntriesTyped
      <4> QED  BY <4>1, <4>3, ZenonT(60)
    <3>2. CASE GenerateFails(p)
      <4>1. PICK pc, copy : /\ copy \in {Get(cache, StoreKey(p), NoEntry), NoEntry}
                            /\ req' = [req EXCEPT ![p].pc = pc, ![p].copy = copy]
        BY <3>2, ZenonT(60) DEF GenerateFails
      <4> QED  BY <4>1, GetTyped, NoEntryTyped, ZenonT(60)
    <3> QED  BY <1>7, <3>1, <3>2, ZenonT(60)
  <2>2. Becomes(p, MovedWith(r, pc, copy))
    BY <1>0, <2>1, CopyBecomes, ZenonT(60)
  <2> QED  BY <1>2, <2>1, <2>2 DEF MovedWith
<1>8. CASE Generate(p)
  <2>1. \E pc, m : Becomes(p, ReqOf(pc, r.left, r.rev, r.refs, r.locked, r.copy, m))
    BY <1>0, <1>8, GenerateBecomes
  <2> QED  BY <1>0, <1>2, <2>1
<1>9. CASE ResolveRef(p)
  <2>1. \E pc, more : Becomes(p, ReqOf(pc, r.left, r.rev, r.refs, more, r.copy, r.saw))
    BY <1>0, <1>9, ResolveRefBecomes, ZenonT(30) DEF Moved
  <2> QED  BY <1>0, <1>2, <2>1
<1>10. CASE CompareSource(p) \/ Compare(p)
  <2>1. \E pc, refs, more : Becomes(p, ReqOf(pc, r.left, r.rev, refs, more, r.copy, r.saw))
    BY <1>0, <1>10, CompareSourceBecomes, CompareBecomes, ZenonT(30) DEF Moved
  <2> QED  BY <1>0, <1>2, <2>1
<1>11. CASE Finish(p)
  BY <1>2, <1>11, FinishBecomes, NoEntryTyped
<1> QED  BY <1>3, <1>4, <1>5, <1>6, <1>7, <1>8, <1>9, <1>10, <1>11 DEF Step

\* An entry is written back from a copy: it counts no more failures than the
\* entry it replaces, or it is late.
LEMMA WriteBackKeeps ==
    ASSUME EntriesTyped, PauseIsEarned, NEW k, NEW copy, NEW e, IsEntry(copy), IsEntry(e),
           WriteBack(k, copy, e),
           \/ failed' = failed /\ e.failures = copy.failures
           \/ /\ failed' = Put(failed, k, Get(failed, k, 0) + 1)
              /\ e.failures = copy.failures + 1
    PROVE  EntriesTyped' /\ PauseIsEarned'
<1>1. /\ DOMAIN cache' = DOMAIN cache \cup {k}
      /\ \A x \in DOMAIN cache' : cache'[x] = IF x = k THEN e ELSE cache[x]
  BY DEF WriteBack, Put
<1>2. PICK f, g : f = Get(failed, k, 0) /\ g = Get(cache, k, NoEntry).failures /\ f \in Nat /\ g \in Nat
  BY GetTyped DEF IsEntry
<1>3. late \subseteq late' /\ (g < copy.failures => k \in late')
  BY <1>2 DEF WriteBack
<1>4. /\ \A x : x # k => Get(failed, x, 0)' = Get(failed, x, 0)
      /\ \/ Get(failed, k, 0)' = f /\ e.failures = copy.failures
         \/ Get(failed, k, 0)' = f + 1 /\ e.failures = copy.failures + 1
      /\ \A x \in DOMAIN failed' : failed'[x] \in Nat
  BY <1>2 DEF Get, Put, EntriesTyped
<1>5. g <= f \/ k \in late
  BY <1>2 DEF PauseIsEarned, Get, NoEntry
<1>6. EntriesTyped'
  BY <1>1, <1>4 DEF EntriesTyped
<1>7. ASSUME NEW x \in DOMAIN cache' PROVE cache'[x].failures <= Get(failed, x, 0)' \/ x \in late'
  <2>1. CASE x = k
    BY <1>1, <1>2, <1>3, <1>4, <1>5, <2>1 DEF IsEntry
  <2>2. CASE x # k
    BY <1>1, <1>3, <1>4, <2>2 DEF PauseIsEarned
  <2> QED  BY <2>1, <2>2
<1> QED  BY <1>6, <1>7 DEF PauseIsEarned

\* Entry and count are forgotten together, or a new entry counts nothing.
LEMMA ForgetKeeps ==
    ASSUME EntriesTyped, PauseIsEarned, NEW k, UNCHANGED late, failed' = Without(failed, k),
           \/ cache' = Without(cache, k)
           \/ \E m : cache' = Put(cache, k, [NoEntry EXCEPT !.ok = m])
    PROVE  EntriesTyped' /\ PauseIsEarned'
<1>1. PICK e : /\ IsEntry(e) /\ e.failures = 0
               /\ cache' = Without(cache, k) \/ cache' = Put(cache, k, e)
  <2>1. CASE cache' = Without(cache, k)
    BY <2>1, NoEntryTyped DEF NoEntry
  <2>2. ASSUME NEW m, cache' = Put(cache, k, [NoEntry EXCEPT !.ok = m])
        PROVE  \E e : IsEntry(e) /\ e.failures = 0 /\ cache' = Put(cache, k, e)
    <3>1. PICK e : e = [NoEntry EXCEPT !.ok = m]
      BY ZenonT(60)
    <3>2. e = [ok |-> m, failures |-> 0, returned |-> 0]
      BY <3>1 DEF NoEntry
    <3> QED  BY <2>2, <3>1, <3>2, ZenonT(60) DEF IsEntry
  <2> QED  BY <2>1, <2>2, ZenonT(60)
<1>2. \A x \in DOMAIN cache' : \/ x = k /\ cache'[x] = e
                               \/ x # k /\ x \in DOMAIN cache /\ cache'[x] = cache[x]
  BY <1>1 DEF Put, Without
<1>3. /\ Get(failed, k, 0)' = 0
      /\ \A x : x # k => Get(failed, x, 0)' = Get(failed, x, 0)
      /\ \A x \in DOMAIN failed' : failed'[x] \in Nat
  BY DEF Without, Get, EntriesTyped
<1>4. EntriesTyped'
  BY <1>1, <1>2, <1>3 DEF EntriesTyped
<1>5. ASSUME NEW x \in DOMAIN cache' PROVE cache'[x].failures <= Get(failed, x, 0)' \/ x \in late'
  <2>1. CASE x = k
    BY <1>1, <1>2, <1>3, <2>1
  <2>2. CASE x # k
    BY <1>2, <1>3, <2>2 DEF PauseIsEarned
  <2> QED  BY <2>1, <2>2
<1> QED  BY <1>4, <1>5 DEF PauseIsEarned

\* An entry moves to the key of the revisions compared, with what it counts.
LEMMA MoveKeeps ==
    ASSUME EntriesTyped, PauseIsEarned, NEW old \in DOMAIN cache, NEW new,
           cache' = Without(Put(cache, new, cache[old]), old),
           failed' = Without(Put(failed, new, Get(failed, old, 0)), old),
           late' = IF old \in late THEN late \cup {new} ELSE late
    PROVE  EntriesTyped' /\ PauseIsEarned'
<1>1. \A x \in DOMAIN cache' : \/ x = new /\ x # old /\ cache'[x] = cache[old]
                               \/ x # new /\ x # old /\ x \in DOMAIN cache /\ cache'[x] = cache[x]
  BY DEF Put, Without
<1>2. PICK f : f = Get(failed, old, 0) /\ f \in Nat
  BY GetTyped
<1>3. /\ new # old => Get(failed, new, 0)' = f
      /\ \A x : x # new /\ x # old => Get(failed, x, 0)' = Get(failed, x, 0)
      /\ \A x \in DOMAIN failed' : failed'[x] \in Nat
  BY <1>2 DEF Without, Put, Get, EntriesTyped
<1>4. EntriesTyped'
  BY <1>1, <1>3 DEF EntriesTyped
<1>5. cache[old].failures <= f \/ old \in late
  BY <1>2 DEF PauseIsEarned
<1>6. ASSUME NEW x \in DOMAIN cache' PROVE cache'[x].failures <= Get(failed, x, 0)' \/ x \in late'
  <2>1. CASE x = new /\ x # old /\ cache'[x] = cache[old]
    BY <1>3, <1>5, <2>1
  <2>2. CASE x # new /\ x # old /\ x \in DOMAIN cache /\ cache'[x] = cache[x]
    BY <1>3, <2>2 DEF PauseIsEarned
  <2> QED  BY <1>1, <2>1, <2>2
<1> QED  BY <1>4, <1>6 DEF PauseIsEarned

LEMMA CacheKeeps ==
    ASSUME EntriesTyped, PauseIsEarned, CopiesTyped, NEW p \in Reqs,
           Resolve(p) \/ Step(p) \/ CheckoutFails(p) \/ GenerateFails(p)
    PROVE  EntriesTyped' /\ PauseIsEarned'
<1>0. PICK c : c = req[p].copy /\ IsEntry(c)
  BY DEF CopiesTyped
<1>1. CASE CountAnswer(p)
  <2>1. PICK e : e = [c EXCEPT !.returned = @ + 1]
    BY ZenonT(60)
  <2>2. IsEntry(e) /\ e.failures = c.failures
    BY <1>0, <2>1 DEF IsEntry
  <2>3. WriteBack(LookupKey(p), c, e) /\ failed' = failed
    BY <1>0, <1>1, <2>1 DEF CountAnswer
  <2> QED  BY <1>0, <2>2, <2>3, WriteBackKeeps
<1>2. CASE RecordFailure(p)
  <2>1. PICK e : e = [c EXCEPT !.failures = @ + 1]
    BY ZenonT(60)
  <2>2. IsEntry(e) /\ e.failures = c.failures + 1
    BY <1>0, <2>1 DEF IsEntry
  <2>3. /\ WriteBack(StoreKey(p), c, e)
        /\ failed' = Put(failed, StoreKey(p), Get(failed, StoreKey(p), 0) + 1)
    BY <1>0, <1>2, <2>1 DEF RecordFailure
  <2> QED  BY <1>0, <2>2, <2>3, WriteBackKeeps
<1>3. CASE ResetEntry(p)
  BY <1>3, ForgetKeeps DEF ResetEntry
<1>4. CASE Store(p)
  BY <1>4, ForgetKeeps, ZenonT(60) DEF Store
<1>5. ASSUME UNCHANGED <<cache, failed, late>> PROVE EntriesTyped' /\ PauseIsEarned'
  BY <1>5 DEF EntriesTyped, PauseIsEarned, Get
<1>6. CASE MoveManifests(p)
  <2>1. PICK q : q = plan.reqs[p]
    OBVIOUS
  <2>2. PICK old, new : old = Key(q.app, q.synced, SyncedRefs(q)) /\ new = LookupKey(p)
    OBVIOUS
  <2>3. PICK moves : moves = ((\E i \in 0..Len(q.refs) : Differs(p, i)) /\ old \in DOMAIN cache)
    BY ZenonT(60)
  <2>4. /\ cache' = IF moves THEN Without(Put(cache, new, cache[old]), old) ELSE cache
        /\ failed' = IF moves THEN Without(Put(failed, new, Get(failed, old, 0)), old) ELSE failed
        /\ late' = IF moves /\ old \in late THEN late \cup {new} ELSE late
    BY <1>6, <2>1, <2>2, <2>3, ZenonT(60) DEF MoveManifests
  <2>5. CASE moves
    <3>1. /\ old \in DOMAIN cache
          /\ cache' = Without(Put(cache, new, cache[old]), old)
          /\ failed' = Without(Put(failed, new, Get(failed, old, 0)), old)
          /\ late' = IF old \in late THEN late \cup {new} ELSE late
      BY <2>3, <2>4, <2>5, ZenonT(60)
    <3> QED  BY <3>1, MoveKeeps, ZenonT(60)
  <2>6. CASE ~moves
    <3>1. UNCHANGED <<cache, failed, late>>
      BY <2>4, <2>6, ZenonT(60)
    <3> QED  BY <1>5, <3>1
  <2> QED  BY <2>5, <2>6
<1>7. CASE \/ Resolve(p) \/ CheckCache(p) \/ Recheck(p) \/ AcquirePermit(p) \/ LockMain(p)
           \/ ResolveRef(p) \/ LockRef(p) \/ Prepare(p) \/ Generate(p) \/ PluginAnswers(p)
           \/ CompareSource(p) \/ LockToCompare(p) \/ Compare(p) \/ Leave(p) \/ Wake(p)
           \/ ReleasePermit(p) \/ Finish(p) \/ CheckoutFails(p) \/ GenerateFails(p)
  <2>1. UNCHANGED <<cache, failed, late>>
    BY <1>7, ZenonT(30) DEF Resolve, CheckCache, Recheck, AcquirePermit, LockMain, ResolveRef, LockRef,
       Prepare, Generate, PluginAnswers, CompareSource, LockToCompare, Compare, Leave, Wake,
       ReleasePermit, Finish, CheckoutFails, GenerateFails, Enter, histories
  <2> QED  BY <1>5, <2>1
<1> QED  BY <1>1, <1>2, <1>3, <1>4, <1>6, <1>7 DEF Step

\* Manifest generation pauses only after failures that happened, counted since
\* the last success or reset, or because of an entry written back late:
\* whatever requests do between reading an entry and writing it.
THEOREM PausesAreEarned == Spec => []PauseIsEarned
<1>1. Init => PauseInv
  <2> SUFFICES ASSUME Init PROVE PauseInv
    OBVIOUS
  <2>1. \A p \in Reqs : req[p] = Idle(plan.reqs[p].times) /\ req = [d \in Reqs |-> req[d]]
    BY DEF Init
  <2>2. ASSUME NEW p \in Reqs PROVE Shaped(req[p]) /\ IsEntry(req[p].copy)
    <3>1. PICK n, x : n = plan.reqs[p].times /\ x = req[p]
      OBVIOUS
    <3>2. x = Idle(n)
      BY <2>1, <3>1
    <3>3. Shaped(x) /\ x.copy = NoEntry
      BY <3>2 DEF Idle, Shaped, ReqOf
    <3> QED  BY <3>1, <3>3, NoEntryTyped
  <2>3. ReqsShaped /\ CopiesTyped
    BY <2>2 DEF ReqsShaped, CopiesTyped, Init
  <2>4. EntriesTyped /\ PauseIsEarned
    BY DEF Init, EntriesTyped, PauseIsEarned
  <2> QED  BY <2>3, <2>4 DEF PauseInv
<1>2. PauseInv /\ [Next]_vars => PauseInv'
  <2> SUFFICES ASSUME PauseInv, [Next]_vars PROVE PauseInv'
    OBVIOUS
  <2>1. ASSUME UNCHANGED <<req, cache, failed, late>> PROVE PauseInv'
    BY <2>1 DEF PauseInv, ReqsShaped, EntriesTyped, CopiesTyped, PauseIsEarned, Get
  <2>2. CASE UNCHANGED vars
    BY <2>1, <2>2 DEF vars
  <2>3. CASE Push
    BY <2>1, <2>3 DEF Push, histories
  <2>4. ASSUME NEW p \in Reqs, Resolve(p) \/ Step(p) \/ CheckoutFails(p) \/ GenerateFails(p)
        PROVE  PauseInv'
    <3>1. EntriesTyped' /\ PauseIsEarned'
      BY <2>4, CacheKeeps DEF PauseInv
    <3>2. ReqsShaped' /\ CopiesTyped'
      <4>1. CASE req' = req
        BY <4>1 DEF PauseInv, ReqsShaped, CopiesTyped
      <4>2. ASSUME NEW r, Becomes(p, r), Shaped(r), IsEntry(r.copy) PROVE ReqsShaped' /\ CopiesTyped'
        BY <4>2, OneShaped, OneCopy DEF PauseInv
      <4> QED  BY <2>4, <4>1, <4>2, RequestGoesOn DEF PauseInv
    <3> QED  BY <3>1, <3>2 DEF PauseInv
  <2> QED  BY <2>2, <2>3, <2>4 DEF Next
<1>3. PauseInv => PauseIsEarned
  BY DEF PauseInv
<1> QED  BY <1>1, <1>2, <1>3, PTL DEF Spec

=============================================================================
