-------------------------- MODULE RepoServerProofs --------------------------
(***************************************************************************)
(* The repo server uses its lock the way RepositoryLock says, for any      *)
(* number of requests, repositories and commits, provided that requests    *)
(* that edit files say so.  What is proved of the lock then holds of the   *)
(* server.                                                                 *)
(***************************************************************************)
EXTENDS RepoServer, RepositoryLockProofs

\* What AllowsConcurrentProcessing should say of every request.
EditsAreDeclared ==
    \A pl \in Plans : \A p \in Reqs :
        EditsFiles(pl.reqs[p]) =>
            pl.reqs[p].kind = "manifest" /\ ~AllowsConcurrentProcessing(pl.reqs[p])

-----------------------------------------------------------------------------
(* The inductive invariant: requests ask the lock for commits of known       *)
(* repositories, and one that edits is never inside as one that shares.      *)

ReqOf(pc, left, rev, refs, locked, copy, saw) ==
    [pc |-> pc, left |-> left, rev |-> rev, refs |-> refs, locked |-> locked,
     copy |-> copy, saw |-> saw]

Shaped(r) == r = ReqOf(r.pc, r.left, r.rev, r.refs, r.locked, r.copy, r.saw)

ReqTyped(p, r) ==
    LET q == plan.reqs[p] IN
    /\ r.pc # "idle" => r.rev \in Revisions /\ r.refs \in [DOMAIN q.refs -> Revisions]
    /\ r.locked \in Seq(Revisions)
    /\ r.pc = "lockRef" => 1 <= Len(r.locked) /\ Len(r.locked) <= Len(q.refs)
    /\ r.pc \in {"lockDiff", "differ"} => Len(r.locked) <= Len(q.refs)
    /\ r.pc \in {"compare", "lockDiff", "differ"} => q.kind = "compare"

HeadTyped ==
    /\ head = [r \in Paths |-> head[r]]
    /\ \A r \in Paths : head[r] \in 1..plan.last[r]

ReqsTyped ==
    /\ req = [p \in Reqs |-> req[p]]
    /\ \A p \in Reqs : Shaped(req[p]) /\ ReqTyped(p, req[p])

EditorsAlone ==
    \A p \in Reqs : EditsFiles(plan.reqs[p]) /\ call[Main(p)].at = "in" => ~call[Main(p)].shared

ServerInv == plan \in Plans /\ LockInv /\ HeadTyped /\ ReqsTyped /\ EditorsAlone

-----------------------------------------------------------------------------
(* Steps of the server are steps of the lock.                                *)

LEMMA MainIsCall ==
    ASSUME NEW p \in Reqs, NEW i \in 0..MaxRefs
    PROVE  <<p, i>> \in Calls /\ Main(p) \in Calls
BY RequestConstants DEF Main

\* What a plan says of a request.
LEMMA RequestTyped ==
    ASSUME plan \in Plans, NEW p \in Reqs
    PROVE  LET q == plan.reqs[p] IN
           /\ q.kind \in {"manifest", "files", "compare"}
           /\ q.path \in Paths /\ q.rev \in Revisions \cup {None} /\ q.submodules \in BOOLEAN
           /\ Len(q.refs) \in 0..MaxRefs /\ DOMAIN q.refs = 1..Len(q.refs)
           /\ \A i \in 1..Len(q.refs) : /\ q.refs[i].path \in Paths
                                        /\ q.refs[i].rev \in Revisions \cup {None}
                                        /\ q.refs[i].synced \in Revisions
<1> DEFINE q == plan.reqs[p]
<1>1. PICK Refs : Refs = [path : Paths, rev : Revisions \cup {None}, synced : Revisions]
  BY ZenonT(60)
<1>2. /\ q.kind \in {"manifest", "files", "compare"}
      /\ q.path \in Paths /\ q.rev \in Revisions \cup {None} /\ q.submodules \in BOOLEAN
      /\ q.refs \in Seq(Refs) /\ Len(q.refs) <= MaxRefs /\ MaxRefs \in Nat
  BY <1>1, PlansTyped, RequestConstants, ZenonT(60)
<1>3. PICK refs \in Seq(Refs) : refs = q.refs
  BY <1>2
<1>4. Len(refs) \in Nat /\ DOMAIN refs = 1..Len(refs) /\ \A i \in 1..Len(refs) : refs[i] \in Refs
  OBVIOUS
<1>5. \A r \in Refs : r.path \in Paths /\ r.rev \in Revisions \cup {None} /\ r.synced \in Revisions
  BY <1>1
<1>6. Len(q.refs) \in 0..MaxRefs /\ DOMAIN q.refs = 1..Len(q.refs)
  BY <1>2, <1>3, <1>4
<1>7. \A i \in 1..Len(q.refs) : /\ q.refs[i].path \in Paths
                              /\ q.refs[i].rev \in Revisions \cup {None}
                              /\ q.refs[i].synced \in Revisions
  BY <1>3, <1>4, <1>5
<1> QED
  BY <1>2, <1>6, <1>7, SMTT(60)

\* A branch stands for a commit.
LEMMA ResolutionsAreCommits ==
    ASSUME plan \in Plans, HeadTyped, NEW r \in Paths, NEW wanted \in Revisions \cup {None},
           NEW fresh, NEW v \in Resolutions(r, wanted, fresh)
    PROVE  v \in Revisions
<1>1. head[r] \in 1..plan.last[r] /\ plan.last[r] \in Nat /\ 1..plan.last[r] \subseteq Revisions
  BY PlansTyped, ZenonT(60) DEF HeadTyped
<1>2. wanted # None => wanted \in Revisions
  OBVIOUS
<1> QED
  BY <1>1, <1>2 DEF Resolutions

\* Positions that ask nothing of the revisions a request has taken.
PlainPcs == {"cached", "count", "reset", "permit", "lock", "recheck", "refs", "generate",
             "plugin", "store", "failed", "done"}

\* A request changes its position and keeps its revisions.
Moves(p, pcs) ==
    /\ req' = [d \in Reqs |-> req'[d]]
    /\ \A d \in Reqs \ {p} : req'[d] = req[d]
    /\ Shaped(req'[p])
    /\ req'[p].pc \in pcs
    /\ req'[p].rev = req[p].rev /\ req'[p].refs = req[p].refs /\ req'[p].locked = req[p].locked

\* Only one request has changed.
LEMMA OneTyped ==
    ASSUME NEW p \in Reqs, ReqsTyped, UNCHANGED plan, req' = [d \in Reqs |-> req'[d]],
           \A d \in Reqs \ {p} : req'[d] = req[d],
           Shaped(req'[p]), ReqTyped(p, req'[p])
    PROVE  ReqsTyped'
<1>1. ASSUME NEW d \in Reqs PROVE Shaped(req'[d]) /\ ReqTyped(d, req[d])'
  <2>1. CASE d = p
    BY <2>1 DEF ReqTyped
  <2>2. CASE d # p
    <3>1. Shaped(req[d]) /\ ReqTyped(d, req[d]) /\ req'[d] = req[d]
      BY <2>2 DEF ReqsTyped
    <3> QED
      BY <3>1, SMTT(60) DEF ReqTyped
  <2> QED
    BY <2>1, <2>2
<1> QED
  BY <1>1 DEF ReqsTyped

LEMMA MovesTyped ==
    ASSUME NEW p \in Reqs, ReqsTyped, UNCHANGED plan, req[p].pc # "idle", Moves(p, PlainPcs)
    PROVE  ReqsTyped'
<1>1. ReqTyped(p, req[p])
  BY DEF ReqsTyped
<1>2. ReqTyped(p, req'[p])
  BY <1>1 DEF ReqTyped, Moves, PlainPcs
<1> QED
  BY <1>2, OneTyped DEF Moves

\* A request that goes on, or keeps to its place.
LEMMA GotoMoves ==
    ASSUME NEW p \in Reqs, ReqsTyped, NEW pc, Goto(p, pc)
    PROVE  Moves(p, {pc})
<1>1. Shaped(req[p]) /\ req = [d \in Reqs |-> req[d]]
  BY DEF ReqsTyped
<1>2. req'[p] = [req[p] EXCEPT !.pc = pc]
      /\ req' = [d \in Reqs |-> req'[d]]
      /\ \A d \in Reqs \ {p} : req'[d] = req[d]
  BY <1>1 DEF Goto
<1>3. req'[p] = ReqOf(pc, req[p].left, req[p].rev, req[p].refs, req[p].locked, req[p].copy, req[p].saw)
  BY <1>1, <1>2 DEF Shaped, ReqOf
<1> QED
  BY <1>2, <1>3 DEF Moves, Shaped, ReqOf

\* It takes a copy of a cache entry.
LEMMA CopyMoves ==
    ASSUME NEW p \in Reqs, ReqsTyped, NEW copy, NEW pc,
           req' = [req EXCEPT ![p].copy = copy, ![p].pc = pc]
    PROVE  Moves(p, {pc})
<1>1. Shaped(req[p]) /\ req = [d \in Reqs |-> req[d]]
  BY DEF ReqsTyped
<1>2. req'[p] = [req[p] EXCEPT !.copy = copy, !.pc = pc]
      /\ req' = [d \in Reqs |-> req'[d]]
      /\ \A d \in Reqs \ {p} : req'[d] = req[d]
  BY <1>1
<1>3. req'[p] = ReqOf(pc, req[p].left, req[p].rev, req[p].refs, req[p].locked, copy, req[p].saw)
  BY <1>1, <1>2, ZenonT(60) DEF Shaped, ReqOf
<1> QED
  BY <1>2, <1>3, ZenonT(60) DEF Moves, Shaped, ReqOf

\* It has read the clones.
LEMMA SawMoves ==
    ASSUME NEW p \in Reqs, ReqsTyped, NEW saw, NEW pc,
           req' = [req EXCEPT ![p].saw = saw, ![p].pc = pc]
    PROVE  Moves(p, {pc})
<1>1. Shaped(req[p]) /\ req = [d \in Reqs |-> req[d]]
  BY DEF ReqsTyped
<1>2. req'[p] = [req[p] EXCEPT !.saw = saw, !.pc = pc]
      /\ req' = [d \in Reqs |-> req'[d]]
      /\ \A d \in Reqs \ {p} : req'[d] = req[d]
  BY <1>1
<1>3. req'[p] = ReqOf(pc, req[p].left, req[p].rev, req[p].refs, req[p].locked, req[p].copy, saw)
  BY <1>1, <1>2, ZenonT(60) DEF Shaped, ReqOf
<1> QED
  BY <1>2, <1>3, ZenonT(60) DEF Moves, Shaped, ReqOf

\* A step that leaves the lock alone.
LEMMA QuietStep ==
    ASSUME ServerInv, NEW p \in Reqs, req[p].pc # "idle", Moves(p, PlainPcs),
           UNCHANGED <<plan, head, lockVars>>
    PROVE  ServerInv'
<1>1. ReqsTyped'
  BY MovesTyped DEF ServerInv
<1>2. LockInv'
  BY StepInv DEF ServerInv
<1>3. HeadTyped' /\ EditorsAlone'
  BY DEF ServerInv, HeadTyped, EditorsAlone, lockVars
<1> QED
  BY <1>1, <1>2, <1>3 DEF ServerInv

\* Looks at the cache, its entries, the permit, generation and its outcome.
LEMMA QuietActions ==
    ASSUME ServerInv, NEW p \in Reqs,
           \/ CheckCache(p) \/ Recheck(p) \/ CountAnswer(p) \/ ResetEntry(p) \/ AcquirePermit(p)
           \/ Generate(p) \/ PluginAnswers(p) \/ GenerateFails(p) \/ RecordFailure(p) \/ Store(p)
           \/ MoveManifests(p)
    PROVE  ServerInv' /\ UNCHANGED lockVars
<1>1. ReqsTyped /\ UNCHANGED <<plan, head, lockVars>>
  <2>1. ReqsTyped
    BY DEF ServerInv
  <2>2. CASE CheckCache(p) \/ Recheck(p) \/ CountAnswer(p)
    BY <2>1, <2>2, SMTT(60) DEF CheckCache, Recheck, CountAnswer
  <2>3. CASE ResetEntry(p) \/ AcquirePermit(p) \/ Generate(p) \/ PluginAnswers(p)
    BY <2>1, <2>3, SMTT(60) DEF ResetEntry, AcquirePermit, Generate, PluginAnswers
  <2>4. CASE GenerateFails(p) \/ RecordFailure(p) \/ Store(p)
    BY <2>1, <2>4, SMTT(60) DEF GenerateFails, RecordFailure, Store
  <2>5. CASE MoveManifests(p)
    BY <2>1, <2>5, SMTT(60) DEF MoveManifests
  <2> QED
    BY <2>2, <2>3, <2>4, <2>5, ZenonT(60)
<1>2. Moves(p, PlainPcs)
  <2>1. CASE CheckCache(p)
    <3>1. PICK v : req' = [req EXCEPT ![p].copy = IF v = "paused" THEN cache[LookupKey(p)] ELSE NoEntry,
                     ![p].pc = CASE v = "hit" -> "done"
                                 [] v = "paused" -> "count"
                                 [] v = "reset" -> "reset"
                                 [] v = "miss" /\ plan.reqs[p].kind = "manifest" -> "permit"
                                 [] OTHER -> "lock"]
      BY <2>1, ZenonT(60) DEF CheckCache
    <3>2. PICK copy : copy = IF v = "paused" THEN cache[LookupKey(p)] ELSE NoEntry
      OBVIOUS
    <3>3. PICK pc \in PlainPcs : pc = CASE v = "hit" -> "done"
                                 [] v = "paused" -> "count"
                                 [] v = "reset" -> "reset"
                                 [] v = "miss" /\ plan.reqs[p].kind = "manifest" -> "permit"
                                 [] OTHER -> "lock"
      BY DEF PlainPcs
    <3>4. req' = [req EXCEPT ![p].copy = copy, ![p].pc = pc]
      BY <3>1, <3>2, <3>3
    <3>5. Moves(p, {pc})
      BY <1>1, <3>4, CopyMoves, ZenonT(60)
    <3> QED
      BY <3>3, <3>5 DEF Moves
  <2>2. CASE Recheck(p)
    <3>1. \E pc \in PlainPcs : Goto(p, pc)
      BY <2>2 DEF Recheck, PlainPcs
    <3> QED
      BY <1>1, <3>1, GotoMoves DEF Moves
  <2>3. CASE \/ CountAnswer(p) \/ ResetEntry(p) \/ AcquirePermit(p) \/ PluginAnswers(p)
             \/ RecordFailure(p) \/ Store(p) \/ MoveManifests(p)
    <3>1. \E pc \in PlainPcs : Goto(p, pc)
      <4>1. CASE CountAnswer(p) \/ ResetEntry(p) \/ AcquirePermit(p) \/ PluginAnswers(p)
        BY <4>1, SMTT(60) DEF CountAnswer, ResetEntry, AcquirePermit, PluginAnswers, PlainPcs
      <4>2. CASE RecordFailure(p) \/ Store(p)
        BY <4>2, SMTT(60) DEF RecordFailure, Store, PlainPcs
      <4>3. CASE MoveManifests(p)
        BY <4>3, SMTT(60) DEF MoveManifests, PlainPcs
      <4> QED
        BY <2>3, <4>1, <4>2, <4>3
    <3> QED
      BY <1>1, <3>1, GotoMoves DEF Moves
  <2>4. CASE Generate(p)
    <3>1. PICK saw : saw = Manifest(p)
      OBVIOUS
    <3>2. PICK pc \in PlainPcs : pc = IF plan.reqs[p].plugin THEN "plugin" ELSE "store"
      BY DEF PlainPcs
    <3>3. req' = [req EXCEPT ![p].saw = saw, ![p].pc = pc]
      BY <2>4, <3>1, <3>2 DEF Generate
    <3>4. Moves(p, {pc})
      BY <1>1, <3>3, SawMoves, ZenonT(60)
    <3> QED
      BY <3>2, <3>4 DEF Moves
  <2>5. CASE GenerateFails(p)
    <3> DEFINE counts == plan.reqs[p].kind = "manifest" /\ plan.threshold > 0
    <3>1. PICK copy : copy = IF counts THEN Get(cache, StoreKey(p), NoEntry) ELSE NoEntry
      OBVIOUS
    <3>2. PICK pc \in PlainPcs : pc = IF counts THEN "failed" ELSE "done"
      BY DEF PlainPcs
    <3>3. req' = [req EXCEPT ![p].pc = pc, ![p].copy = copy]
      BY <2>5, <3>1, <3>2 DEF GenerateFails
    <3>4. req' = [req EXCEPT ![p].copy = copy, ![p].pc = pc]
      BY <1>1, <3>3, ZenonT(60) DEF ReqsTyped, Shaped, ReqOf
    <3>5. Moves(p, {pc})
      BY <1>1, <3>4, CopyMoves, ZenonT(60)
    <3> QED
      BY <3>2, <3>5 DEF Moves
  <2> QED
    BY <2>1, <2>2, <2>3, <2>4, <2>5
<1>3. req[p].pc # "idle"
  BY ZenonT(60) DEF CheckCache, Recheck, CountAnswer, ResetEntry, AcquirePermit, Generate,
         PluginAnswers, GenerateFails, RecordFailure, Store, MoveManifests
<1> QED
  BY <1>1, <1>2, <1>3, QuietStep

-----------------------------------------------------------------------------
(* The lock.                                                                 *)

\* A request asks for a clone.
LEMMA EnterStep ==
    ASSUME ServerInv, NEW p \in Reqs, NEW i \in 0..MaxRefs, NEW path \in Paths,
           NEW rev \in Revisions, NEW shared \in BOOLEAN, NEW sub \in BOOLEAN, NEW next,
           Enter(p, <<p, i>>, path, rev, shared, sub, next),
           req[p].pc # "idle",
           next \in PlainPcs \/ (next = "differ" /\ req[p].pc = "lockDiff"),
           i = 0 /\ EditsFiles(plan.reqs[p]) => ~shared
    PROVE  ServerInv' /\ LockNext
<1> DEFINE c == <<p, i>>
<1>1. LockNext
  BY MainIsCall DEF Enter, LockNext
<1>2. LockInv'
  BY <1>1, StepInv DEF ServerInv
<1>3. UNCHANGED <<plan, head>>
  BY DEF Enter
<1>4. ReqsTyped'
  <2>1. CASE req' = req
    BY <1>3, <2>1 DEF ServerInv, ReqsTyped, ReqTyped
  <2>2. CASE Goto(p, next)
    <3>1. Moves(p, {next})
      BY <2>2, GotoMoves DEF ServerInv
    <3>2. ReqTyped(p, req[p])
      BY DEF ServerInv, ReqsTyped
    <3>3. ReqTyped(p, req'[p])
      BY <3>1, <3>2, SMTT(60) DEF ReqTyped, Moves, PlainPcs
    <3> QED
      BY <1>3, <3>1, <3>3, OneTyped DEF Moves, ServerInv
  <2> QED
    BY <2>1, <2>2 DEF Enter, Goto
<1>5. EditorsAlone'
  <2>1. /\ call \in [Calls -> CallStates]
        /\ \A d \in Reqs : Main(d) \in Calls
        /\ c \in Calls
    BY MainIsCall, ZenonT(60) DEF ServerInv, LockInv, LockTypeOK
  <2>2. \/ call' = [call EXCEPT ![c] = At("in", path, rev, shared)]
        \/ call' = [call EXCEPT ![c] = At("asleep", path, rev, shared)]
    BY DEF Enter, Lock, LockFirst, LockJoin, LockWait
  <2>3. call'[c].shared = shared /\ \A d \in Calls \ {c} : call'[d] = call[d]
    BY <2>1, <2>2 DEF At
  <2>4. ASSUME NEW d \in Reqs, EditsFiles(plan.reqs[d]), call'[Main(d)].at = "in"
        PROVE  ~call'[Main(d)].shared
    <3>1. CASE Main(d) = c
      <4>1. d = p /\ i = 0
        BY <3>1 DEF Main
      <4> QED
        BY <2>3, <2>4, <3>1, <4>1
    <3>2. CASE Main(d) # c
      BY <2>1, <2>3, <2>4, <3>2 DEF ServerInv, EditorsAlone
    <3> QED
      BY <3>1, <3>2
  <2> QED
    BY <1>3, <2>4 DEF EditorsAlone
<1>6. HeadTyped'
  BY <1>3 DEF ServerInv, HeadTyped
<1> QED
  BY <1>1, <1>2, <1>3, <1>4, <1>5, <1>6 DEF ServerInv

\* A call that is over and those it wakes are not inside.
LEMMA OutStep ==
    ASSUME ServerInv, UNCHANGED <<plan, head, req>>, LockNext,
           \A d \in Calls : call'[d].at = "in" => call'[d] = call[d]
    PROVE  ServerInv'
<1>1. LockInv'
  BY StepInv DEF ServerInv
<1>2. HeadTyped' /\ ReqsTyped'
  BY DEF ServerInv, HeadTyped, ReqsTyped, ReqTyped
<1>3. \A d \in Reqs : Main(d) \in Calls
  BY RequestConstants DEF Main
<1>4. EditorsAlone'
  BY <1>3 DEF ServerInv, EditorsAlone
<1> QED
  BY <1>1, <1>2, <1>4 DEF ServerInv

LEMMA LeaveActions ==
    ASSUME ServerInv, NEW p \in Reqs, Leave(p) \/ Wake(p)
    PROVE  ServerInv' /\ LockNext
<1>1. PICK c \in CallsOf(p) : Close(c) \/ Broadcast(c)
  BY DEF Leave, Wake
<1>2. c \in Calls
  BY MainIsCall DEF CallsOf
<1>3. LockNext
  BY <1>1, <1>2 DEF LockNext
<1>4. call \in [Calls -> CallStates]
  BY DEF ServerInv, LockInv, LockTypeOK
<1>5. \A d \in Calls : call'[d].at = "in" => call'[d] = call[d]
  <2>1. CASE Close(c)
    BY <1>2, <1>4, <2>1 DEF Close, CallStates, Out
  <2>2. CASE Broadcast(c)
    BY <1>2, <1>4, <2>2 DEF Broadcast, Out
  <2> QED
    BY <1>1, <2>1, <2>2
<1>6. UNCHANGED <<plan, head, req>>
  BY DEF Leave, Wake
<1> QED
  BY <1>3, <1>5, <1>6, OutStep

LEMMA LockActions ==
    ASSUME EditsAreDeclared, ServerInv, NEW p \in Reqs,
           LockMain(p) \/ LockRef(p) \/ LockToCompare(p)
    PROVE  ServerInv' /\ LockNext
<1> DEFINE q == plan.reqs[p]
<1>1. /\ EditsFiles(q) => q.kind = "manifest" /\ ~AllowsConcurrentProcessing(q)
      /\ q.path \in Paths /\ q.submodules \in BOOLEAN
      /\ Len(q.refs) \in 0..MaxRefs /\ MaxRefs \in Nat /\ DOMAIN q.refs = 1..Len(q.refs)
      /\ \A i \in 1..Len(q.refs) : q.refs[i].path \in Paths
  BY RequestTyped, RequestConstants, SMTT(60) DEF EditsAreDeclared, ServerInv
<1>2. ReqTyped(p, req[p])
  BY DEF ServerInv, ReqsTyped
<1>3. CASE LockMain(p)
  <2> DEFINE shared == q.kind = "files" \/ AllowsConcurrentProcessing(q)
  <2>1. PICK next \in PlainPcs : Enter(p, <<p, 0>>, q.path, req[p].rev, shared, q.submodules, next)
    BY <1>3, SMTT(60) DEF LockMain, Main, PlainPcs
  <2>2. shared \in BOOLEAN /\ (EditsFiles(q) => ~shared)
    BY <1>1, SMTT(60) DEF AllowsConcurrentProcessing
  <2>3. req[p].pc # "idle" /\ req[p].rev \in Revisions /\ 0 \in 0..MaxRefs
    BY <1>1, <1>2, <1>3, SMTT(60) DEF LockMain, ReqTyped
  <2>4. PICK path \in Paths, rev \in Revisions, sh \in BOOLEAN, sub \in BOOLEAN :
           path = q.path /\ rev = req[p].rev /\ sh = shared /\ sub = q.submodules
    BY <1>1, <2>2, <2>3, ZenonT(60)
  <2>5. Enter(p, <<p, 0>>, path, rev, sh, sub, next)
    BY <2>1, <2>4
  <2> QED
    BY <2>2, <2>3, <2>4, <2>5, EnterStep, ZenonT(60)
<1>4. CASE LockRef(p)
  <2>0. req[p].pc = "lockRef" /\ Len(req[p].locked) \in 1..Len(q.refs) /\ Len(q.refs) \in Nat
    <3>1. req[p].pc = "lockRef"
      BY <1>4, ZenonT(60) DEF LockRef
    <3>2. Len(req[p].locked) \in Nat
      BY <1>2 DEF ReqTyped
    <3>3. 1 <= Len(req[p].locked) /\ Len(req[p].locked) <= Len(q.refs)
      BY ONLY <1>2, <3>1 DEF ReqTyped
    <3> QED
      BY <1>1, <3>1, <3>2, <3>3
  <2>1. PICK i \in 0..MaxRefs : i = Len(req[p].locked) /\ i \in 1..Len(q.refs)
    BY <1>1, <2>0, SMTT(60)
  <2>2. q.refs[i].path \in Paths /\ req[p].locked[i] \in Revisions /\ i # 0 /\ req[p].pc # "idle"
    <3>1. q.refs[i].path \in Paths
      BY <1>1, <2>1, SMTT(60)
    <3>2. req[p].locked[i] \in Revisions
      BY <1>2, <2>1 DEF ReqTyped
    <3> QED
      BY <2>0, <2>1, <3>1, <3>2, SMTT(60)
  <2>3. PICK path \in Paths, rev \in Revisions, sub \in BOOLEAN :
           path = q.refs[i].path /\ rev = req[p].locked[i] /\ sub = q.submodules
    BY <1>1, <2>2, SMTT(60)
  <2>4. Enter(p, <<p, i>>, path, rev, TRUE, sub, "refs")
    BY <1>4, <2>1, <2>3, ZenonT(60) DEF LockRef
  <2> QED
    BY <2>2, <2>4, EnterStep, ZenonT(60) DEF PlainPcs
<1>5. CASE LockToCompare(p)
  <2>1. PICK i \in 0..MaxRefs : i = CompareAt(p) /\ i \in 0..Len(q.refs)
    BY <1>1, <1>2, <1>5, SMTT(60) DEF LockToCompare, ReqTyped, CompareAt
  <2>2. /\ PathOf(q, i) \in Paths /\ Resolved(p, i) \in Revisions
        /\ req[p].pc = "lockDiff" /\ q.kind = "compare"
    <3>1. req[p].pc = "lockDiff" /\ q.kind = "compare"
      BY <1>2, <1>5 DEF LockToCompare, ReqTyped
    <3>2. CASE i = 0
      BY <1>1, <1>2, <3>1, <3>2 DEF ReqTyped, PathOf, Resolved
    <3>3. CASE i # 0
      <4>1. i \in DOMAIN q.refs
        BY <1>1, <2>1, <3>3
      <4>2. q.refs[i].path \in Paths
        BY <1>1, <4>1
      <4>3. req[p].refs[i] \in Revisions
        BY <1>2, <3>1, <4>1 DEF ReqTyped
      <4> QED
        BY <3>1, <3>3, <4>2, <4>3 DEF PathOf, Resolved
    <3> QED
      BY <3>2, <3>3
  <2>3. PICK path \in Paths, rev \in Revisions : path = PathOf(q, i) /\ rev = Resolved(p, i)
    BY <2>2
  <2>4. Enter(p, <<p, i>>, path, rev, TRUE, FALSE, "differ")
    BY <1>5, <2>1, <2>3, ZenonT(60) DEF LockToCompare
  <2> QED
    BY <1>1, <2>2, <2>4, EnterStep, ZenonT(60)
<1> QED
  BY <1>3, <1>4, <1>5

\* Chart dependencies and edits.
LEMMA PrepareStep ==
    ASSUME ServerInv, NEW p \in Reqs, Prepare(p)
    PROVE  ServerInv' /\ [LockNext]_lockVars
<1>1. Goto(p, "generate") /\ UNCHANGED <<plan, head>> /\ req[p].pc # "idle"
  BY DEF Prepare
<1>2. Main(p) \in Calls
  BY RequestConstants DEF Main
<1>3. UNCHANGED call /\ [LockNext]_lockVars
  <2>1. CASE Build(Main(p))
    BY <1>2, <2>1, ZenonT(60) DEF Build, LockNext
  <2>2. CASE EditsFiles(plan.reqs[p]) /\ Edit(Main(p))
    <3>1. ~call[Main(p)].shared
      BY <2>2 DEF Edit, ServerInv, EditorsAlone
    <3> QED
      BY <1>2, <2>2, <3>1, ZenonT(60) DEF Edit, LockNext
  <2>3. CASE UNCHANGED lockVars
    BY <2>3 DEF lockVars
  <2> QED
    BY <2>1, <2>2, <2>3, ZenonT(60) DEF Prepare, EditsFiles
<1>4. LockInv'
  BY <1>3, StepInv DEF ServerInv
<1>5. Moves(p, {"generate"})
  BY <1>1, GotoMoves DEF ServerInv
<1>6. Moves(p, PlainPcs)
  BY <1>5 DEF Moves, PlainPcs
<1>7. ReqsTyped'
  BY <1>1, <1>6, MovesTyped DEF ServerInv
<1>8. HeadTyped' /\ EditorsAlone'
  BY <1>1, <1>3 DEF ServerInv, HeadTyped, EditorsAlone
<1> QED
  BY <1>1, <1>3, <1>4, <1>7, <1>8 DEF ServerInv

LEMMA CheckoutFailsStep ==
    ASSUME ServerInv, NEW p \in Reqs, CheckoutFails(p)
    PROVE  ServerInv' /\ [LockNext]_lockVars
<1> DEFINE q == plan.reqs[p]
           i == Len(req[p].locked)
<1>1. Goto(p, "done") /\ UNCHANGED <<plan, head>> /\ req[p].pc # "idle"
  BY SMTT(60) DEF CheckoutFails
<1>2. ReqTyped(p, req[p]) /\ MaxRefs \in Nat
  BY RequestConstants DEF ServerInv, ReqsTyped
<1>3. /\ q.path \in Paths /\ Len(q.refs) \in 0..MaxRefs /\ DOMAIN q.refs = 1..Len(q.refs)
      /\ \A j \in 1..Len(q.refs) : q.refs[j].path \in Paths
  BY RequestTyped, SMTT(60) DEF ServerInv
<1>4. \E c \in Calls, path \in Paths, rev \in Revisions : LockFails(c, path, rev)
  <2>1. CASE req[p].pc = "lock" /\ LockFails(Main(p), q.path, req[p].rev)
    BY <1>2, <1>3, <2>1, MainIsCall, ZenonT(60) DEF ReqTyped
  <2>2. CASE req[p].pc = "lockRef" /\ LockFails(<<p, i>>, q.refs[i].path, req[p].locked[i])
    <3>0. i \in Nat /\ 1 <= i /\ i <= Len(q.refs)
      <4>1. i \in Nat
        BY <1>2 DEF ReqTyped
      <4>2. 1 <= i /\ i <= Len(q.refs)
        BY ONLY <1>2, <2>2, ZenonT(60) DEF ReqTyped
      <4> QED
        BY <4>1, <4>2
    <3>1. i \in 1..Len(q.refs) /\ i \in 0..MaxRefs
      BY <1>2, <1>3, <3>0, SMTT(60)
    <3>2. req[p].locked[i] \in Revisions
      BY <1>2, <3>1 DEF ReqTyped
    <3>3. <<p, i>> \in Calls /\ q.refs[i].path \in Paths
      BY <1>3, <3>1, MainIsCall, SMTT(60)
    <3> QED
      BY <2>2, <3>2, <3>3, ZenonT(60)
  <2>3. CASE req[p].pc = "lockDiff" /\ LockFails(<<p, i>>, PathOf(q, i), Resolved(p, i))
    <3>1. i \in 0..Len(q.refs) /\ i \in 0..MaxRefs
      BY <1>2, <1>3, <2>3, SMTT(60) DEF ReqTyped
    <3>2. PathOf(q, i) \in Paths
      BY <1>3, <3>1, SMTT(60) DEF PathOf
    <3>3. Resolved(p, i) \in Revisions
      BY <1>2, <1>3, <2>3, <3>1, SMTT(60) DEF Resolved, ReqTyped
    <3> QED
      BY <2>3, <3>1, <3>2, <3>3, MainIsCall
  <2> QED
    BY <2>1, <2>2, <2>3, SMTT(60) DEF CheckoutFails
<1>5. LockNext /\ UNCHANGED call
  BY <1>4, ZenonT(60) DEF LockNext, LockFails
<1>6. LockInv'
  BY <1>5, StepInv DEF ServerInv
<1>7. Moves(p, {"done"})
  BY <1>1, GotoMoves DEF ServerInv
<1>8. Moves(p, PlainPcs)
  BY <1>7 DEF Moves, PlainPcs
<1>9. ReqsTyped'
  BY <1>1, <1>8, MovesTyped DEF ServerInv
<1>10. HeadTyped' /\ EditorsAlone'
  BY <1>1, <1>5 DEF ServerInv, HeadTyped, EditorsAlone
<1> QED
  BY <1>1, <1>5, <1>6, <1>9, <1>10 DEF ServerInv

-----------------------------------------------------------------------------
(* Revisions.                                                                *)

\* Only the record of one request changes, and stays of its type.
LEMMA RecordStep ==
    ASSUME ServerInv, NEW p \in Reqs, UNCHANGED <<plan, head, lockVars>>,
           req' = [d \in Reqs |-> req'[d]], \A d \in Reqs \ {p} : req'[d] = req[d],
           Shaped(req'[p]), ReqTyped(p, req'[p])
    PROVE  ServerInv'
<1>1. ReqsTyped'
  BY OneTyped DEF ServerInv
<1>2. LockInv'
  BY StepInv DEF ServerInv
<1>3. HeadTyped' /\ EditorsAlone'
  BY DEF ServerInv, HeadTyped, EditorsAlone, lockVars
<1> QED
  BY <1>1, <1>2, <1>3 DEF ServerInv

LEMMA ResolveStep ==
    ASSUME ServerInv, NEW p \in Reqs, Resolve(p)
    PROVE  ServerInv' /\ UNCHANGED lockVars
<1> DEFINE q == plan.reqs[p]
<1>1. Shaped(req[p]) /\ req = [d \in Reqs |-> req[d]] /\ ReqTyped(p, req[p])
  BY DEF ServerInv, ReqsTyped
<1>0. PICK pc : pc = CASE q.kind = "compare" -> "compare"
                       [] q.kind = "manifest" /\ q.noCache -> "permit"
                       [] OTHER -> "cached"
  OBVIOUS
<1>2. PICK v \in Resolutions(q.path, q.rev, q.noCache), rs \in [DOMAIN q.refs -> Revisions] :
        req' = [req EXCEPT ![p].rev = v, ![p].refs = rs, ![p].pc = pc]
  BY <1>0, ZenonT(60) DEF Resolve
<1>3. v \in Revisions
  BY RequestTyped, ResolutionsAreCommits, ZenonT(60) DEF ServerInv
<1>4. /\ req'[p] = [req[p] EXCEPT !.rev = v, !.refs = rs, !.pc = pc]
      /\ req' = [d \in Reqs |-> req'[d]]
      /\ \A d \in Reqs \ {p} : req'[d] = req[d]
  BY <1>1, <1>2, ZenonT(60)
<1>5. req'[p] = ReqOf(pc, req[p].left, v, rs, req[p].locked, req[p].copy, req[p].saw)
  BY <1>1, <1>4, ZenonT(60) DEF Shaped, ReqOf
<1>6. Shaped(req'[p])
  BY <1>5, SMTT(60) DEF Shaped, ReqOf
<1>7. ReqTyped(p, req'[p])
  BY <1>0, <1>1, <1>2, <1>3, <1>5, SMTT(60) DEF ReqTyped, ReqOf
<1> QED
  BY <1>4, <1>6, <1>7, RecordStep, ZenonT(60) DEF Resolve

LEMMA ResolveRefStep ==
    ASSUME ServerInv, NEW p \in Reqs, ResolveRef(p)
    PROVE  ServerInv' /\ UNCHANGED lockVars
<1> DEFINE q == plan.reqs[p]
           i == Len(req[p].locked) + 1
           same == SameBefore(q, i)
<1>1. /\ Shaped(req[p]) /\ req = [d \in Reqs |-> req[d]] /\ ReqTyped(p, req[p])
      /\ UNCHANGED <<plan, head, lockVars>> /\ req[p].pc = "refs" /\ i <= Len(q.refs)
  BY ZenonT(60) DEF ServerInv, ReqsTyped, ResolveRef
<1>2. /\ Len(req[p].locked) \in Nat /\ Len(q.refs) \in Nat /\ i \in 1..Len(q.refs)
      /\ \A j \in 1..Len(req[p].locked) : req[p].locked[j] \in Revisions
      /\ req[p].locked \in Seq(Revisions)
  BY <1>1, RequestTyped, SMTT(60) DEF ReqTyped, ServerInv
<1>3. q.refs[i].path \in Paths /\ q.refs[i].rev \in Revisions \cup {None}
  BY <1>2, RequestTyped, ZenonT(60) DEF ServerInv
<1>4. PICK v \in Revisions :
        \/ Goto(p, "done")
        \/ /\ same # {}
           /\ req' = [req EXCEPT ![p].locked = Append(@, @[CHOOSE j \in same : TRUE])]
        \/ req' = [req EXCEPT ![p].locked = Append(@, v), ![p].pc = "lockRef"]
  <2>1. PICK v \in Resolutions(q.refs[i].path, q.refs[i].rev, q.noCache) :
        \/ Goto(p, "done")
        \/ /\ same # {}
           /\ req' = [req EXCEPT ![p].locked = Append(@, @[CHOOSE j \in same : TRUE])]
        \/ req' = [req EXCEPT ![p].locked = Append(@, v), ![p].pc = "lockRef"]
    BY ZenonT(60) DEF ResolveRef, Goto
  <2>2. v \in Revisions
    BY <1>3, ResolutionsAreCommits, ZenonT(60) DEF ServerInv
  <2> QED
    BY <2>1, <2>2, ZenonT(60)
<1>5. CASE Goto(p, "done")
  <2>1. Moves(p, {"done"})
    BY <1>5, GotoMoves DEF ServerInv
  <2>2. Moves(p, PlainPcs)
    BY <2>1 DEF Moves, PlainPcs
  <2> QED
    BY <1>1, <2>2, QuietStep
<1>6. ASSUME NEW w \in Revisions, NEW pc \in {"refs", "lockRef"},
             req' = [req EXCEPT ![p].locked = Append(req[p].locked, w), ![p].pc = pc]
      PROVE  ServerInv' /\ UNCHANGED lockVars
  <2>1. PICK locked : locked = Append(req[p].locked, w)
    BY ZenonT(60)
  <2>2. /\ req'[p] = [req[p] EXCEPT !.locked = locked, !.pc = pc]
        /\ req' = [d \in Reqs |-> req'[d]]
        /\ \A d \in Reqs \ {p} : req'[d] = req[d]
    BY <1>1, <1>6, <2>1, ZenonT(60)
  <2>3. req'[p] = ReqOf(pc, req[p].left, req[p].rev, req[p].refs, locked, req[p].copy, req[p].saw)
    BY <1>1, <2>2, ZenonT(60) DEF Shaped, ReqOf
  <2>4. Shaped(req'[p])
    BY <2>3 DEF Shaped, ReqOf
  <2>5. locked \in Seq(Revisions) /\ Len(locked) = i
    BY <1>2, <2>1
  <2>6. ReqTyped(p, req'[p])
    BY <1>1, <1>2, <2>3, <2>5, SMTT(60) DEF ReqTyped, ReqOf
  <2> QED
    BY <1>1, <2>2, <2>4, <2>6, RecordStep
<1>7. CASE same # {} /\ req' = [req EXCEPT ![p].locked = Append(@, @[CHOOSE j \in same : TRUE])]
  <2>1. PICK j : j \in same /\ j = CHOOSE k \in same : TRUE
    BY <1>7
  <2>2. req[p].locked[j] \in Revisions
    <3>1. j \in 1..(i - 1)
      BY ONLY <2>1, ZenonT(60) DEF SameBefore
    <3>2. i - 1 = Len(req[p].locked)
      BY <1>2
    <3> QED
      BY <1>2, <3>1, <3>2
  <2>3. PICK w \in Revisions : w = req[p].locked[j]
    BY <2>2
  <2>4. req' = [req EXCEPT ![p].locked = Append(req[p].locked, w)]
    BY <1>1, <1>7, <2>1, <2>3
  <2>5. req' = [req EXCEPT ![p].locked = Append(req[p].locked, w), ![p].pc = "refs"]
    BY <1>1, <2>4, ZenonT(60) DEF Shaped, ReqOf
  <2> QED
    BY <1>6, <2>5, ZenonT(60)
<1>8. CASE req' = [req EXCEPT ![p].locked = Append(@, v), ![p].pc = "lockRef"]
  BY <1>6, <1>8, ZenonT(60)
<1> QED
  BY <1>4, <1>5, <1>7, <1>8, ZenonT(60)

\* A comparison has more of its repositories behind it, or one to lock.
LEMMA CompareRecord ==
    ASSUME ServerInv, NEW p \in Reqs, UNCHANGED <<plan, head, lockVars>>,
           req[p].pc \in {"compare", "differ"},
           NEW refs \in [DOMAIN plan.reqs[p].refs -> Revisions],
           NEW locked \in Seq(Revisions), NEW pc \in {"done", "compare", "lockDiff"},
           pc = "lockDiff" => Len(locked) <= Len(plan.reqs[p].refs),
           NEW now, now = ReqOf(pc, req[p].left, req[p].rev, refs, locked, req[p].copy, req[p].saw),
           req' = [req EXCEPT ![p] = now]
    PROVE  ServerInv'
<1>1. req = [d \in Reqs |-> req[d]] /\ ReqTyped(p, req[p])
  BY DEF ServerInv, ReqsTyped
<1>2. /\ req'[p] = now
      /\ req' = [d \in Reqs |-> req'[d]]
      /\ \A d \in Reqs \ {p} : req'[d] = req[d]
  BY <1>1, SMTT(60)
<1>3. Shaped(now)
  BY DEF Shaped, ReqOf
<1>4. ReqTyped(p, now)
  BY <1>1, SMTT(60) DEF ReqTyped, ReqOf
<1> QED
  BY <1>2, <1>3, <1>4, RecordStep, ZenonT(60)

LEMMA CompareSourceStep ==
    ASSUME ServerInv, NEW p \in Reqs, CompareSource(p)
    PROVE  ServerInv' /\ UNCHANGED lockVars
<1> DEFINE q == plan.reqs[p]
           i == CompareAt(p)
           r == req[p]
<1>1. /\ Shaped(r) /\ ReqTyped(p, r)
      /\ UNCHANGED <<plan, head, lockVars>> /\ r.pc = "compare" /\ i <= Len(q.refs)
  BY DEF ServerInv, ReqsTyped, CompareSource
<1>2. /\ r.locked \in Seq(Revisions) /\ r.rev \in Revisions
      /\ r.refs \in [DOMAIN q.refs -> Revisions]
  BY <1>1 DEF ReqTyped
<1>3. i \in Nat /\ Len(q.refs) \in Nat /\ DOMAIN q.refs = 1..Len(q.refs)
  BY <1>2, RequestTyped, SMTT(60) DEF ServerInv, CompareAt
<1>0. PICK v \in IF i = 0 THEN {r.rev} ELSE Resolutions(PathOf(q, i), q.refs[i].rev, q.noCache) :
        \E now \in {IF i = 0 THEN r ELSE [r EXCEPT !.refs[i] = v]} :
          \/ req' = [req EXCEPT ![p] = [now EXCEPT !.pc = "done"]]
          \/ req' = [req EXCEPT ![p] = [now EXCEPT !.locked = Append(@, v)]]
          \/ req' = [req EXCEPT ![p] = [now EXCEPT !.pc = "lockDiff"]]
  BY ZenonT(60) DEF CompareSource
<1>4. PICK now \in {IF i = 0 THEN r ELSE [r EXCEPT !.refs[i] = v]} :
        \/ req' = [req EXCEPT ![p] = [now EXCEPT !.pc = "done"]]
        \/ req' = [req EXCEPT ![p] = [now EXCEPT !.locked = Append(@, v)]]
        \/ req' = [req EXCEPT ![p] = [now EXCEPT !.pc = "lockDiff"]]
  BY <1>0, SMTT(60)
<1>5. v \in Revisions
  <2>1. CASE i = 0
    BY <1>0, <1>2, <2>1
  <2>2. CASE i # 0
    <3>1. i \in 1..Len(q.refs)
      BY <1>1, <1>3, <2>2
    <3>2. q.refs[i].path \in Paths /\ q.refs[i].rev \in Revisions \cup {None}
      BY <3>1, RequestTyped, SMTT(60) DEF ServerInv
    <3>3. v \in Resolutions(q.refs[i].path, q.refs[i].rev, q.noCache)
      BY <1>0, <2>2, SMTT(60) DEF PathOf
    <3> QED
      BY <3>2, <3>3, ResolutionsAreCommits DEF ServerInv
  <2> QED
    BY <2>1, <2>2
<1>6. PICK refs \in [DOMAIN q.refs -> Revisions] :
        now = ReqOf("compare", r.left, r.rev, refs, r.locked, r.copy, r.saw)
  <2>1. CASE i = 0
    BY <1>1, <1>2, <1>4, <2>1 DEF Shaped
  <2>2. CASE i # 0
    <3>1. PICK refs : refs = [r.refs EXCEPT ![i] = v]
      BY ZenonT(60)
    <3>2. refs \in [DOMAIN q.refs -> Revisions]
      BY <1>2, <1>5, <3>1, ZenonT(60)
    <3>3. now = [r EXCEPT !.refs = refs]
      BY <1>4, <2>2, <3>1
    <3>4. now = ReqOf(r.pc, r.left, r.rev, refs, r.locked, r.copy, r.saw)
      BY <1>1, <3>3 DEF Shaped, ReqOf
    <3> QED
      BY <1>1, <3>2, <3>4
  <2> QED
    BY <2>1, <2>2
<1>7. PICK more \in Seq(Revisions) : more = Append(r.locked, v)
  <2>1. PICK locked \in Seq(Revisions) : locked = r.locked
    BY <1>2
  <2>2. Append(locked, v) \in Seq(Revisions)
    BY <1>5
  <2> QED
    BY <2>1, <2>2, ZenonT(60)
<1>8. CASE req' = [req EXCEPT ![p] = [now EXCEPT !.pc = "done"]]
  <2>1. PICK new : new = ReqOf("done", r.left, r.rev, refs, r.locked, r.copy, r.saw)
    OBVIOUS
  <2>2. req' = [req EXCEPT ![p] = new]
    <3>1. [now EXCEPT !.pc = "done"] = new
      BY <1>6, <2>1 DEF ReqOf
    <3> QED
      BY <1>8, <3>1, ZenonT(60)
  <2> QED
    BY <1>1, <1>2, <2>1, <2>2, CompareRecord, ZenonT(60)
<1>9. CASE req' = [req EXCEPT ![p] = [now EXCEPT !.locked = Append(@, v)]]
  <2>1. PICK new : new = ReqOf("compare", r.left, r.rev, refs, more, r.copy, r.saw)
    OBVIOUS
  <2>2. req' = [req EXCEPT ![p] = new]
    <3>0. now.locked = r.locked
      BY <1>6 DEF ReqOf
    <3>2. [now EXCEPT !.locked = more] = new
      BY <1>6, <2>1 DEF ReqOf
    <3>1. [now EXCEPT !.locked = Append(@, v)] = new
      BY <1>7, <3>0, <3>2
    <3> QED
      BY <1>9, <3>1, ZenonT(60)
  <2> QED
    BY <1>1, <1>7, <2>1, <2>2, CompareRecord, ZenonT(60)
<1>10. CASE req' = [req EXCEPT ![p] = [now EXCEPT !.pc = "lockDiff"]]
  <2>1. PICK new : new = ReqOf("lockDiff", r.left, r.rev, refs, r.locked, r.copy, r.saw)
    OBVIOUS
  <2>2. req' = [req EXCEPT ![p] = new]
    <3>1. [now EXCEPT !.pc = "lockDiff"] = new
      BY <1>6, <2>1 DEF ReqOf
    <3> QED
      BY <1>10, <3>1, ZenonT(60)
  <2>3. Len(r.locked) <= Len(q.refs)
    BY <1>1, SMTT(60) DEF CompareAt
  <2> QED
    BY <1>1, <1>2, <2>1, <2>2, <2>3, CompareRecord, ZenonT(60)
<1> QED
  BY <1>1, <1>4, <1>8, <1>9, <1>10

LEMMA CompareStep ==
    ASSUME ServerInv, NEW p \in Reqs, Compare(p)
    PROVE  ServerInv' /\ UNCHANGED lockVars
<1> DEFINE q == plan.reqs[p]
           i == CompareAt(p)
           r == req[p]
<1>1. /\ Shaped(r) /\ ReqTyped(p, r)
      /\ UNCHANGED <<plan, head, lockVars>> /\ r.pc = "differ"
  BY DEF ServerInv, ReqsTyped, Compare
<1>2. /\ r.locked \in Seq(Revisions) /\ r.rev \in Revisions
      /\ r.refs \in [DOMAIN q.refs -> Revisions]
      /\ Len(r.locked) <= Len(q.refs)
  BY <1>1, SMTT(60) DEF ReqTyped
<1>3. CASE Goto(p, "done")
  <2>1. Moves(p, {"done"})
    BY <1>3, GotoMoves DEF ServerInv
  <2>2. Moves(p, PlainPcs)
    BY <2>1 DEF Moves, PlainPcs
  <2> QED
    BY <1>1, <2>2, QuietStep
<1>4. CASE req' = [req EXCEPT ![p].locked = Append(@, Resolved(p, i)), ![p].pc = "compare"]
  <2>1. Resolved(p, i) \in Revisions
    <3>1. CASE i = 0
      BY <1>2, <3>1 DEF Resolved
    <3>2. CASE i # 0
      <4>1. i \in Nat /\ i <= Len(q.refs)
        BY <1>2 DEF CompareAt
      <4>2. Len(q.refs) \in Nat /\ DOMAIN q.refs = 1..Len(q.refs)
        BY RequestTyped, SMTT(60) DEF ServerInv
      <4>3. i \in DOMAIN q.refs
        BY <3>2, <4>1, <4>2
      <4> QED
        BY <1>2, <3>2, <4>3 DEF Resolved
    <3> QED
      BY <3>1, <3>2
  <2>2. PICK locked \in Seq(Revisions) : locked = r.locked
    BY <1>2
  <2>3. Append(locked, Resolved(p, i)) \in Seq(Revisions)
    BY <2>1
  <2>4. PICK more \in Seq(Revisions) : more = Append(r.locked, Resolved(p, i))
    BY <2>2, <2>3, ZenonT(60)
  <2>5. PICK now : now = [r EXCEPT !.locked = more, !.pc = "compare"]
    OBVIOUS
  <2>6. now = ReqOf("compare", r.left, r.rev, r.refs, more, r.copy, r.saw)
    <3>1. Shaped(r)
      BY <1>1
    <3> QED
      BY ONLY <2>5, <3>1, ZenonT(60) DEF Shaped, ReqOf
  <2>7. req' = [req EXCEPT ![p] = now]
    BY <1>4, <2>4, <2>5, ZenonT(60)
  <2> QED
    BY <1>1, <1>2, <2>6, <2>7, CompareRecord, ZenonT(60)
<1> QED
  BY <1>3, <1>4 DEF Compare

-----------------------------------------------------------------------------
(* The end of a request, and the repositories.                               *)

LEMMA FinishStep ==
    ASSUME ServerInv, NEW p \in Reqs, Finish(p)
    PROVE  ServerInv' /\ UNCHANGED lockVars
<1>1. PICK idle : idle = Idle(req[p].left - 1)
  OBVIOUS
<1>2. UNCHANGED <<plan, head, lockVars>> /\ req' = [req EXCEPT ![p] = idle]
  BY <1>1 DEF Finish
<1>3. req = [d \in Reqs |-> req[d]]
  BY DEF ServerInv, ReqsTyped
<1>4. /\ req'[p] = idle
      /\ req' = [d \in Reqs |-> req'[d]]
      /\ \A d \in Reqs \ {p} : req'[d] = req[d]
  BY <1>2, <1>3
<1>5. Shaped(idle) /\ ReqTyped(p, idle)
  BY <1>1, SMTT(60) DEF Idle, Shaped, ReqOf, ReqTyped
<1> QED
  BY <1>2, <1>4, <1>5, RecordStep, ZenonT(60)

LEMMA PushStep ==
    ASSUME ServerInv, Push
    PROVE  ServerInv' /\ UNCHANGED lockVars
<1>1. UNCHANGED <<lockVars, plan, req>>
  BY DEF Push
<1>2. PICK r \in Paths : head[r] < plan.last[r] /\ head' = [head EXCEPT ![r] = @ + 1]
  BY ZenonT(60) DEF Push
<1>3. HeadTyped'
  <2>1. \A d \in Paths : plan.last[d] \in Nat /\ head[d] \in 1..plan.last[d]
    BY PlansTyped, ZenonT(60) DEF ServerInv, HeadTyped
  <2>2. head = [d \in Paths |-> head[d]]
    BY DEF ServerInv, HeadTyped
  <2> QED
    BY <1>1, <1>2, <2>1, <2>2 DEF HeadTyped
<1>4. LockInv'
  BY <1>1, StepInv DEF ServerInv
<1>5. ReqsTyped' /\ EditorsAlone'
  BY <1>1, SMTT(60) DEF ServerInv, ReqsTyped, ReqTyped, EditorsAlone, lockVars
<1> QED
  BY <1>1, <1>3, <1>4, <1>5 DEF ServerInv

LEMMA ReleasePermitStep ==
    ASSUME ServerInv, NEW p \in Reqs, ReleasePermit(p)
    PROVE  ServerInv' /\ UNCHANGED lockVars
<1>1. UNCHANGED <<lockVars, plan, head, req>>
  BY DEF ReleasePermit
<1>2. LockInv'
  BY <1>1, StepInv DEF ServerInv
<1> QED
  BY <1>1, <1>2, SMTT(60) DEF ServerInv, HeadTyped, ReqsTyped, ReqTyped, EditorsAlone, lockVars

-----------------------------------------------------------------------------
(* The theorems.                                                             *)

LEMMA ServerInit ==
    ASSUME Init
    PROVE  ServerInv /\ LockInit
<1>1. plan \in Plans /\ tree \in [Paths -> Trees]
  BY PlansTyped, ZenonT(60) DEF Init
<1>2. LockInit
  BY <1>1 DEF Init, LockInit
<1>3. LockInv
  BY <1>2, InitInv
<1>4. HeadTyped
  BY PlansTyped, SMTT(60) DEF Init, HeadTyped
<1>5. ReqsTyped
  <2>1. \A p \in Reqs : req[p] = Idle(plan.reqs[p].times) /\ req = [d \in Reqs |-> req[d]]
    BY DEF Init
  <2>2. ASSUME NEW p \in Reqs PROVE Shaped(req[p]) /\ ReqTyped(p, req[p])
    <3>1. PICK idle : idle = Idle(plan.reqs[p].times)
      OBVIOUS
    <3>2. Shaped(idle) /\ ReqTyped(p, idle)
      BY <3>1 DEF Idle, Shaped, ReqOf, ReqTyped
    <3>3. req[p] = idle
      BY <2>1, <3>1
    <3> QED
      BY <3>2, <3>3
  <2> QED
    BY <2>2 DEF ReqsTyped, Init
<1>6. EditorsAlone
  <2>1. \A p \in Reqs : Main(p) \in Calls
    BY RequestConstants DEF Main
  <2> QED
    BY <2>1 DEF EditorsAlone, Init, Out
<1> QED
  BY <1>1, <1>2, <1>3, <1>4, <1>5, <1>6 DEF ServerInv

\* Every step of the server is a step of the lock, or none for the lock.
LEMMA ServerStep ==
    ASSUME EditsAreDeclared, ServerInv, [Next]_vars
    PROVE  ServerInv' /\ [LockNext]_lockVars
<1>1. CASE UNCHANGED vars
  <2>1. UNCHANGED <<lockVars, plan, head, req>>
    BY <1>1 DEF vars, lockVars
  <2>2. LockInv'
    BY <2>1, StepInv DEF ServerInv
  <2> QED
    BY <2>1, <2>2, SMTT(60) DEF ServerInv, HeadTyped, ReqsTyped, ReqTyped, EditorsAlone, lockVars
<1>2. CASE Push
  BY <1>2, PushStep
<1>3. ASSUME NEW p \in Reqs, Resolve(p) \/ Step(p) \/ CheckoutFails(p) \/ GenerateFails(p)
      PROVE  ServerInv' /\ [LockNext]_lockVars
  <2>1. CASE \/ CheckCache(p) \/ Recheck(p) \/ CountAnswer(p) \/ ResetEntry(p) \/ AcquirePermit(p)
             \/ Generate(p) \/ PluginAnswers(p) \/ GenerateFails(p) \/ RecordFailure(p) \/ Store(p)
             \/ MoveManifests(p)
    BY <2>1, QuietActions
  <2>2. CASE LockMain(p) \/ LockRef(p) \/ LockToCompare(p)
    BY <2>2, LockActions
  <2>3. CASE Leave(p) \/ Wake(p)
    BY <2>3, LeaveActions
  <2>4. CASE Prepare(p)
    BY <2>4, PrepareStep
  <2>5. CASE CheckoutFails(p)
    BY <2>5, CheckoutFailsStep
  <2>6. CASE Resolve(p)
    BY <2>6, ResolveStep
  <2>7. CASE ResolveRef(p)
    BY <2>7, ResolveRefStep
  <2>8. CASE CompareSource(p)
    BY <2>8, CompareSourceStep
  <2>9. CASE Compare(p)
    BY <2>9, CompareStep
  <2>10. CASE Finish(p)
    BY <2>10, FinishStep
  <2>11. CASE ReleasePermit(p)
    BY <2>11, ReleasePermitStep
  <2> QED
    BY <1>3, <2>1, <2>2, <2>3, <2>4, <2>5, <2>6, <2>7, <2>8, <2>9, <2>10, <2>11, SMTT(60) DEF Step
<1> QED
  BY <1>1, <1>2, <1>3 DEF Next

\* Refinement: if every request that edits files of the clone is one for which
\* AllowsConcurrentProcessing says so, the server uses the lock as specified.
THEOREM ServerUsesLock ==
    ASSUME EditsAreDeclared
    PROVE  Spec => UsesLock
<1>1. Init => ServerInv /\ LockInit
  BY ServerInit
<1>2. ServerInv /\ [Next]_vars => ServerInv' /\ [LockNext]_lockVars
  BY ServerStep
<1> QED
  BY <1>1, <1>2, PTL DEF Spec, UsesLock, LockSpec

\* Each request that works in a clone finds the commit it asked for, and in
\* its files no edits but its own, under the same condition.
THEOREM RequestsOwnTheirClones ==
    ASSUME EditsAreDeclared
    PROVE  Spec => []CloneIsTheirs
<1>1. Spec => LockSpec
  BY ServerUsesLock DEF UsesLock
<1> QED
  BY <1>1, CloneBelongsToCalls, PTL
=============================================================================
