------------------------ MODULE RepositoryLockProofs ------------------------
(***************************************************************************)
(* Theorems about RepositoryLock, for any number of calls, repositories    *)
(* and commits: a call in a clone finds its revision and no edits but its  *)
(* own there, and no call that waits is forgotten.                         *)
(***************************************************************************)
EXTENDS RepositoryLock, FiniteSetTheorems, TLAPS

-----------------------------------------------------------------------------
(* The inductive invariant: the count of a repository's state is that of    *)
(* the calls inside, which have the revision and the mode of the state.     *)

\* A call that is on its way is about a repository and a commit.
CallsTyped ==
    \A c \in Calls : call[c].at # "out" => call[c].path \in Paths /\ call[c].rev \in Revisions

\* The state of a repository tells who is inside.
StateAgrees(path) ==
    /\ state[path].processCount = Cardinality(Inside(path))
    /\ state[path].revision = None <=> Inside(path) = {}
    /\ \A c \in Inside(path) : /\ call[c].rev = state[path].revision
                               /\ call[c].shared <=> state[path].allowConcurrent
    /\ ~state[path].allowConcurrent => \A c, d \in Inside(path) : c = d

\* The files of a repository in use are those of its revision; only a call
\* that is alone has edited them.
TreeAgrees(path) ==
    state[path].revision # None =>
        /\ tree[path].rev = state[path].revision
        /\ state[path].allowConcurrent => tree[path].edits = {}
        /\ tree[path].edits \subseteq Inside(path)

\* A call that sleeps waits for calls inside, or for a broadcast to come.
WokenAt(path) ==
    \A c \in Calls : call[c].at = "asleep" /\ call[c].path = path =>
        \/ Inside(path) # {}
        \/ \E d \in Calls : call[d].at = "notify" /\ call[d].path = path

LockInv ==
    /\ LockTypeOK
    /\ CallsTyped
    /\ \A path \in Paths : StateAgrees(path) /\ TreeAgrees(path) /\ WokenAt(path)

-----------------------------------------------------------------------------
(* The calls inside a repository.                                            *)

LEMMA InsideFinite ==
    ASSUME NEW path
    PROVE  /\ IsFiniteSet(Inside(path))
           /\ Cardinality(Inside(path)) \in Nat
           /\ Cardinality(Inside(path)) = 0 <=> Inside(path) = {}
<1>1. Inside(path) \in SUBSET Calls
  BY DEF Inside
<1>2. IsFiniteSet(Inside(path))
  BY <1>1, LockConstants, FS_Subset
<1> QED
  BY <1>2, FS_CardinalityType, FS_EmptySet

LEMMA EnterInside ==
    ASSUME LockTypeOK, NEW c \in Calls, NEW p \in Paths, NEW rev, NEW shared,
           call[c].at = "out", call' = [call EXCEPT ![c] = At("in", p, rev, shared)]
    PROVE  /\ Inside(p)' = Inside(p) \cup {c}
           /\ c \notin Inside(p)
           /\ Cardinality(Inside(p))' = Cardinality(Inside(p)) + 1
           /\ \A q \in Paths \ {p} : Inside(q)' = Inside(q)
<1>1. Inside(p)' = Inside(p) \cup {c} /\ c \notin Inside(p)
  BY DEF Inside, LockTypeOK, At
<1>2. Cardinality(Inside(p))' = Cardinality(Inside(p)) + 1
  <2>1. Cardinality(Inside(p) \cup {c}) = Cardinality(Inside(p)) + 1
    BY <1>1, InsideFinite, FS_AddElement, ZenonT(60)
  <2> QED
    BY <1>1, <2>1
<1>3. \A q \in Paths \ {p} : Inside(q)' = Inside(q)
  BY DEF Inside, LockTypeOK, At
<1> QED
  BY <1>1, <1>2, <1>3

\* A call leaves, for good or to broadcast.
LEMMA LeaveInside ==
    ASSUME NEW c \in Calls, NEW p, call[c].at = "in", call[c].path = p,
           call'[c].at # "in", \A d \in Calls \ {c} : call'[d] = call[d]
    PROVE  /\ Inside(p)' = Inside(p) \ {c}
           /\ c \in Inside(p)
           /\ Cardinality(Inside(p))' = Cardinality(Inside(p)) - 1
           /\ \A q \in Paths \ {p} : Inside(q)' = Inside(q)
<1>1. Inside(p)' = Inside(p) \ {c} /\ c \in Inside(p)
  BY DEF Inside
<1>2. Cardinality(Inside(p))' = Cardinality(Inside(p)) - 1
  <2>1. Cardinality(Inside(p) \ {c}) = Cardinality(Inside(p)) - 1
    BY <1>1, InsideFinite, FS_RemoveElement, ZenonT(60)
  <2> QED
    BY <1>1, <2>1
<1>3. \A q \in Paths \ {p} : Inside(q)' = Inside(q)
  BY DEF Inside
<1> QED
  BY <1>1, <1>2, <1>3

\* Nobody enters and nobody leaves.
LEMMA SameInside ==
    ASSUME NEW p,
           \A d \in Calls : \/ call'[d] = call[d]
                            \/ call[d].at # "in" /\ call'[d].at # "in"
    PROVE  Inside(p)' = Inside(p) /\ Cardinality(Inside(p))' = Cardinality(Inside(p))
<1>1. Inside(p)' = Inside(p)
  BY DEF Inside
<1> QED
  BY <1>1

-----------------------------------------------------------------------------
(* Initially.                                                                *)

LEMMA InitInv == LockInit => LockInv
<1> SUFFICES ASSUME LockInit PROVE LockInv
  OBVIOUS
<1>1. state \in [Paths -> RepositoryStates] /\ call \in [Calls -> CallStates]
  BY DEF LockInit, RepositoryStates, CallStates, Fresh, Out
<1>2. LockTypeOK
  BY <1>1 DEF LockTypeOK, LockInit
<1>3. CallsTyped
  BY DEF CallsTyped, LockInit, Out
<1>4. ASSUME NEW path \in Paths PROVE StateAgrees(path) /\ TreeAgrees(path) /\ WokenAt(path)
  <2>1. Inside(path) = {}
    BY DEF Inside, LockInit, Out
  <2>2. state[path].revision = None /\ state[path].processCount = 0
    BY DEF LockInit, Fresh
  <2>3. Cardinality(Inside(path)) = 0
    BY <2>1, FS_EmptySet
  <2>4. WokenAt(path)
    BY DEF WokenAt, LockInit, Out
  <2> QED
    BY <2>1, <2>2, <2>3, <2>4 DEF StateAgrees, TreeAgrees
<1> QED
  BY <1>2, <1>3, <1>4 DEF LockInv

-----------------------------------------------------------------------------
(* Steps.                                                                    *)

\* Repositories a step does not touch.
LEMMA Elsewhere ==
    ASSUME NEW q \in Paths, StateAgrees(q), TreeAgrees(q),
           state'[q] = state[q], tree'[q] = tree[q], Inside(q)' = Inside(q),
           \A d \in Inside(q) : call'[d] = call[d]
    PROVE  StateAgrees(q)' /\ TreeAgrees(q)'
<1>1. StateAgrees(q)'
  BY DEF StateAgrees
<1>2. TreeAgrees(q)'
  BY DEF TreeAgrees
<1> QED
  BY <1>1, <1>2

LEMMA FirstInv ==
    ASSUME LockInv, NEW c \in Calls, NEW p \in Paths, NEW rev \in Revisions,
           NEW shared \in BOOLEAN, NEW sub \in BOOLEAN, LockFirst(c, p, rev, shared, sub)
    PROVE  LockInv'
<1>1. /\ state' = [state EXCEPT ![p] = [revision |-> rev, processCount |-> 1,
                                        allowConcurrent |-> shared]]
      /\ tree' = [tree EXCEPT ![p] = Checkout(tree[p], rev, ~state[p].allowConcurrent, sub)]
      /\ call' = [call EXCEPT ![c] = At("in", p, rev, shared)]
      /\ call[c].at = "out" /\ state[p].revision = None
  BY DEF LockFirst
<1>2. LockTypeOK /\ CallsTyped
      /\ \A q \in Paths : StateAgrees(q) /\ TreeAgrees(q) /\ WokenAt(q)
  BY DEF LockInv
<1>3. Inside(p)' = {c} /\ Cardinality(Inside(p))' = 1
      /\ \A q \in Paths \ {p} : Inside(q)' = Inside(q)
  <2>1. Inside(p) = {}
    BY <1>1, <1>2 DEF StateAgrees
  <2>2. /\ Inside(p)' = Inside(p) \cup {c}
        /\ Cardinality(Inside(p))' = Cardinality(Inside(p)) + 1
        /\ \A q \in Paths \ {p} : Inside(q)' = Inside(q)
    BY <1>1, <1>2, EnterInside, ZenonT(60)
  <2>3. Cardinality(Inside(p)) = 0
    BY <2>1, FS_EmptySet
  <2> QED
    BY <2>1, <2>2, <2>3
<1>4. LockTypeOK'
  <2>1. state' \in [Paths -> RepositoryStates]
    BY <1>1, <1>2 DEF LockTypeOK, RepositoryStates
  <2>2. tree' \in [Paths -> Trees]
    BY <1>1, <1>2 DEF LockTypeOK, Trees, Checkout
  <2>3. call' \in [Calls -> CallStates]
    BY <1>1, <1>2 DEF LockTypeOK, CallStates, At
  <2> QED
    BY <2>1, <2>2, <2>3 DEF LockTypeOK
<1>5. CallsTyped'
  BY <1>1, <1>2 DEF CallsTyped, LockTypeOK, At
<1>6. ASSUME NEW q \in Paths PROVE StateAgrees(q)' /\ TreeAgrees(q)'
  <2>1. CASE q = p
    <3>1. /\ state'[p].revision = rev /\ state'[p].processCount = 1
          /\ state'[p].allowConcurrent = shared
          /\ tree'[p].rev = rev /\ tree'[p].edits = {}
          /\ call'[c].rev = rev /\ call'[c].shared = shared
      BY <1>1, <1>2 DEF LockTypeOK, Checkout, At
    <3>2. rev # None
      BY LockConstants
    <3>3. StateAgrees(p)'
      BY <1>3, <3>1, <3>2 DEF StateAgrees
    <3>4. TreeAgrees(p)'
      BY <1>3, <3>1, <3>2 DEF TreeAgrees
    <3> QED
      BY <2>1, <3>3, <3>4
  <2>2. CASE q # p
    <3>1. state'[q] = state[q] /\ tree'[q] = tree[q] /\ Inside(q)' = Inside(q)
      BY <1>1, <1>2, <1>3, <2>2 DEF LockTypeOK
    <3>2. \A d \in Inside(q) : call'[d] = call[d]
      BY <1>1, <1>2 DEF LockTypeOK, Inside
    <3> QED
      BY <1>2, <3>1, <3>2, Elsewhere
  <2> QED
    BY <2>1, <2>2
<1>7. ASSUME NEW q \in Paths PROVE WokenAt(q)'
  <2>1. Inside(q) \subseteq Inside(q)'
    BY <1>1, <1>2 DEF Inside, LockTypeOK, At
  <2>2. \A d \in Calls : call[d].at \in {"asleep", "notify"} => call'[d] = call[d]
    BY <1>1, <1>2 DEF LockTypeOK
  <2>3. \A d \in Calls : call'[d].at = "asleep" => call'[d] = call[d]
    BY <1>1, <1>2 DEF LockTypeOK, At
  <2> QED
    BY <1>2, <2>1, <2>2, <2>3 DEF WokenAt
<1> QED
  BY <1>4, <1>5, <1>6, <1>7 DEF LockInv

LEMMA FailsInv ==
    ASSUME LockInv, NEW c \in Calls, NEW p \in Paths, NEW rev \in Revisions, LockFails(c, p, rev)
    PROVE  LockInv'
<1>1. /\ state' = state /\ call' = call
      /\ state[p].revision = None
  BY DEF LockFails
<1>2. LockTypeOK /\ CallsTyped
      /\ \A q \in Paths : StateAgrees(q) /\ TreeAgrees(q) /\ WokenAt(q)
  BY DEF LockInv
<1>3. PICK t \in FailedCheckouts(tree[p], rev) : tree' = [tree EXCEPT ![p] = t]
  BY ZenonT(60) DEF LockFails
<1>4. t \in Trees
  BY <1>2, ZenonT(60) DEF FailedCheckouts, Trees, LockTypeOK
<1>5. LockTypeOK' /\ CallsTyped'
  BY <1>1, <1>2, <1>3, <1>4 DEF LockTypeOK, CallsTyped
<1>6. ASSUME NEW q \in Paths PROVE Inside(q)' = Inside(q)
  BY <1>1 DEF Inside
<1>7. ASSUME NEW q \in Paths PROVE StateAgrees(q)' /\ TreeAgrees(q)' /\ WokenAt(q)'
  <2>1. StateAgrees(q)'
    BY <1>1, <1>2, <1>6 DEF StateAgrees
  <2>2. TreeAgrees(q)'
    <3>1. CASE q = p
      BY <1>1, <3>1 DEF TreeAgrees
    <3>2. CASE q # p
      <4>1. tree'[q] = tree[q]
        BY <1>2, <1>3, <3>2 DEF LockTypeOK
      <4> QED
        BY <1>1, <1>2, <1>6, <4>1 DEF TreeAgrees
    <3> QED
      BY <3>1, <3>2
  <2>3. WokenAt(q)'
    BY <1>1, <1>2, <1>6 DEF WokenAt
  <2> QED
    BY <2>1, <2>2, <2>3
<1> QED
  BY <1>5, <1>7 DEF LockInv

LEMMA JoinInv ==
    ASSUME LockInv, NEW c \in Calls, NEW p \in Paths, NEW rev \in Revisions,
           NEW shared \in BOOLEAN, LockJoin(c, p, rev, shared)
    PROVE  LockInv'
<1>1. /\ state' = [state EXCEPT ![p].processCount = state[p].processCount + 1]
      /\ tree' = tree
      /\ call' = [call EXCEPT ![c] = At("in", p, rev, shared)]
      /\ call[c].at = "out"
      /\ state[p].revision # None /\ state[p].revision = rev
  BY DEF LockJoin, CanJoin
<1>2. LockTypeOK /\ CallsTyped
      /\ \A q \in Paths : StateAgrees(q) /\ TreeAgrees(q) /\ WokenAt(q)
  BY DEF LockInv
<1>3. state[p].allowConcurrent /\ shared
  BY DEF LockJoin, CanJoin
<1>4. /\ Inside(p)' = Inside(p) \cup {c}
      /\ Cardinality(Inside(p))' = Cardinality(Inside(p)) + 1
      /\ \A q \in Paths \ {p} : Inside(q)' = Inside(q)
  BY <1>1, <1>2, EnterInside, ZenonT(60)
<1>5. LockTypeOK'
  <2>1. state' \in [Paths -> RepositoryStates]
    BY <1>1, <1>2 DEF LockTypeOK, RepositoryStates
  <2>2. call' \in [Calls -> CallStates]
    BY <1>1, <1>2 DEF LockTypeOK, CallStates, At
  <2> QED
    BY <1>1, <1>2, <2>1, <2>2 DEF LockTypeOK
<1>6. CallsTyped'
  BY <1>1, <1>2 DEF CallsTyped, LockTypeOK, At
<1>7. \A d \in Calls \ {c} : call'[d] = call[d]
  BY <1>1, <1>2 DEF LockTypeOK
<1>8. ASSUME NEW q \in Paths PROVE StateAgrees(q)' /\ TreeAgrees(q)'
  <2>1. CASE q = p
    <3>1. /\ state'[p].revision = rev
          /\ state'[p].processCount = state[p].processCount + 1
          /\ state'[p].allowConcurrent = state[p].allowConcurrent
          /\ call'[c].rev = rev /\ call'[c].shared = shared
      BY <1>1, <1>2 DEF LockTypeOK, RepositoryStates, At
    <3>2. StateAgrees(p)'
      <4>1. state'[p].processCount = Cardinality(Inside(p))'
        BY <1>2, <1>4, <3>1 DEF StateAgrees
      <4>2. state'[p].revision # None /\ Inside(p)' # {}
        BY <1>1, <1>4, <3>1
      <4>3. \A d \in Inside(p)' : call'[d].rev = state'[p].revision
        <5>1. \A d \in Inside(p) : d \in Calls /\ call[d].rev = rev
          BY <1>1, <1>2, ZenonT(60) DEF StateAgrees, Inside
        <5> QED
          BY <1>4, <1>7, <3>1, <5>1
      <4>4. \A d \in Inside(p)' : call'[d].shared <=> state'[p].allowConcurrent
        BY <1>2, <1>3, <1>4, <1>7, <3>1, ZenonT(60) DEF StateAgrees, Inside
      <4> QED
        BY <1>3, <3>1, <4>1, <4>2, <4>3, <4>4 DEF StateAgrees
    <3>3. TreeAgrees(p)'
      BY <1>1, <1>2, <1>4, <3>1 DEF TreeAgrees
    <3> QED
      BY <2>1, <3>2, <3>3
  <2>2. CASE q # p
    <3>1. state'[q] = state[q] /\ tree'[q] = tree[q] /\ Inside(q)' = Inside(q)
      BY <1>1, <1>2, <1>4, <2>2 DEF LockTypeOK
    <3>2. \A d \in Inside(q) : call'[d] = call[d]
      BY <1>1, <1>7 DEF Inside
    <3> QED
      BY <1>2, <3>1, <3>2, Elsewhere
  <2> QED
    BY <2>1, <2>2
<1>9. ASSUME NEW q \in Paths PROVE WokenAt(q)'
  <2>1. Inside(q) \subseteq Inside(q)'
    BY <1>4
  <2>2. \A d \in Calls : call[d].at \in {"asleep", "notify"} => call'[d] = call[d]
    BY <1>1, <1>7
  <2>3. \A d \in Calls : call'[d].at = "asleep" => call'[d] = call[d]
    BY <1>1, <1>2 DEF LockTypeOK, At
  <2> QED
    BY <1>2, <2>1, <2>2, <2>3 DEF WokenAt
<1> QED
  BY <1>5, <1>6, <1>8, <1>9 DEF LockInv

LEMMA WaitInv ==
    ASSUME LockInv, NEW c \in Calls, NEW p \in Paths, NEW rev \in Revisions,
           NEW shared \in BOOLEAN, LockWait(c, p, rev, shared)
    PROVE  LockInv'
<1>1. /\ state' = state /\ tree' = tree
      /\ call' = [call EXCEPT ![c] = At("asleep", p, rev, shared)]
      /\ call[c].at = "out" /\ state[p].revision # None
  BY DEF LockWait
<1>2. LockTypeOK /\ CallsTyped
      /\ \A q \in Paths : StateAgrees(q) /\ TreeAgrees(q) /\ WokenAt(q)
  BY DEF LockInv
<1>3. /\ \A d \in Calls \ {c} : call'[d] = call[d]
      /\ call'[c].at = "asleep" /\ call'[c].path = p
  BY <1>1, <1>2 DEF LockTypeOK, At
<1>4. LockTypeOK' /\ CallsTyped'
  BY <1>1, <1>2 DEF LockTypeOK, CallStates, CallsTyped, At
<1>5. ASSUME NEW q \in Paths PROVE Inside(q)' = Inside(q)
  BY <1>1, <1>3, SameInside
<1>6. ASSUME NEW q \in Paths PROVE StateAgrees(q)' /\ TreeAgrees(q)'
  <2>1. \A d \in Inside(q) : call'[d] = call[d]
    BY <1>1, <1>3 DEF Inside
  <2> QED
    BY <1>1, <1>2, <1>5, <2>1, Elsewhere
<1>7. ASSUME NEW q \in Paths PROVE WokenAt(q)'
  <2>1. Inside(p) # {}
    BY <1>1, <1>2 DEF StateAgrees
  <2> QED
    BY <1>1, <1>2, <1>3, <1>5, <2>1 DEF WokenAt
<1> QED
  BY <1>4, <1>6, <1>7 DEF LockInv

LEMMA CloseInv ==
    ASSUME LockInv, NEW c \in Calls, Close(c)
    PROVE  LockInv'
<1>1. LockTypeOK /\ CallsTyped /\ call[c].at = "in" /\ tree' = tree
      /\ \A q \in Paths : StateAgrees(q) /\ TreeAgrees(q) /\ WokenAt(q)
  BY DEF LockInv, Close
<1>2. PICK p \in Paths : p = call[c].path
  BY <1>1 DEF CallsTyped
<1>3. PICK left : left = state[p].processCount - 1
  OBVIOUS
<1>4. /\ state' = [state EXCEPT ![p].processCount = left,
                                ![p].revision = IF left = 0 THEN None ELSE @]
      /\ call' = [call EXCEPT ![c] = IF left = 0 THEN [call[c] EXCEPT !.at = "notify"] ELSE Out]
  BY <1>2, <1>3 DEF Close
<1>5. /\ \A d \in Calls \ {c} : call'[d] = call[d]
      /\ call'[c].at \in {"notify", "out"}
      /\ left = 0 => call'[c].at = "notify" /\ call'[c].path = p
  BY <1>1, <1>2, <1>4 DEF LockTypeOK, CallStates, Out
<1>6. /\ Inside(p)' = Inside(p) \ {c}
      /\ c \in Inside(p)
      /\ Cardinality(Inside(p))' = Cardinality(Inside(p)) - 1
      /\ \A q \in Paths \ {p} : Inside(q)' = Inside(q)
  BY <1>1, <1>2, <1>5, LeaveInside
<1>7. left = Cardinality(Inside(p))' /\ left \in Int /\ (left = 0 <=> Inside(p)' = {})
  <2>1. left = Cardinality(Inside(p))'
    BY <1>1, <1>3, <1>6 DEF StateAgrees
  <2>2. IsFiniteSet(Inside(p) \ {c})
    BY InsideFinite, FS_RemoveElement
  <2>3. /\ Cardinality(Inside(p) \ {c}) \in Nat
        /\ Cardinality(Inside(p) \ {c}) = 0 <=> Inside(p) \ {c} = {}
    BY <2>2, FS_CardinalityType, FS_EmptySet
  <2> QED
    BY <1>6, <2>1, <2>3
<1>8. /\ state'[p].processCount = left
      /\ state'[p].revision = IF left = 0 THEN None ELSE state[p].revision
      /\ state'[p].allowConcurrent = state[p].allowConcurrent
      /\ \A q \in Paths \ {p} : state'[q] = state[q]
  BY <1>1, <1>4 DEF LockTypeOK, RepositoryStates
<1>9. LockTypeOK'
  <2>1. state' \in [Paths -> RepositoryStates]
    BY <1>1, <1>4, <1>7, ZenonT(60) DEF LockTypeOK, RepositoryStates
  <2>2. call' \in [Calls -> CallStates]
    BY <1>1, <1>4 DEF LockTypeOK, CallStates, Out
  <2> QED
    BY <1>1, <2>1, <2>2 DEF LockTypeOK
<1>10. CallsTyped'
  <2>1. call'[c].at # "out" => call'[c].path \in Paths /\ call'[c].rev \in Revisions
    BY <1>1, <1>4 DEF CallsTyped, LockTypeOK, CallStates, Out
  <2> QED
    BY <1>1, <1>5, <2>1 DEF CallsTyped
<1>11. ASSUME NEW q \in Paths PROVE StateAgrees(q)' /\ TreeAgrees(q)'
  <2>1. CASE q = p
    <3>1. \A d \in Inside(p) : d \in Calls
      BY DEF Inside
    <3>2. state'[p].revision = None <=> Inside(p)' = {}
      BY <1>1, <1>6, <1>7, <1>8 DEF StateAgrees
    <3>3. \A d \in Inside(p)' : call'[d].rev = state'[p].revision
      BY <1>1, <1>5, <1>6, <1>7, <1>8, <3>1 DEF StateAgrees
    <3>4. \A d \in Inside(p)' : call'[d].shared <=> state'[p].allowConcurrent
      BY <1>1, <1>5, <1>6, <1>8, <3>1 DEF StateAgrees
    <3>5. ~state'[p].allowConcurrent => \A d, e \in Inside(p)' : d = e
      BY <1>1, <1>6, <1>8 DEF StateAgrees
    <3>6. StateAgrees(p)'
      BY <1>7, <1>8, <3>2, <3>3, <3>4, <3>5 DEF StateAgrees
    <3>7. TreeAgrees(p)'
      <4>1. Inside(p)' # {} => state[p].allowConcurrent
        BY <1>1, <1>6 DEF StateAgrees
      <4> QED
        BY <1>1, <1>7, <1>8, <4>1 DEF TreeAgrees
    <3> QED
      BY <2>1, <3>6, <3>7
  <2>2. CASE q # p
    <3>1. \A d \in Inside(q) : call'[d] = call[d]
      BY <1>2, <1>5, <2>2 DEF Inside
    <3> QED
      BY <1>1, <1>6, <1>8, <2>2, <3>1, Elsewhere
  <2> QED
    BY <2>1, <2>2
<1>12. ASSUME NEW q \in Paths PROVE WokenAt(q)'
  <2>1. CASE q = p
    BY <1>5, <1>7, <2>1 DEF WokenAt
  <2>2. CASE q # p
    <3>1. \A d \in Calls : call'[d].at = "asleep" => call'[d] = call[d]
      BY <1>5
    <3>2. \A d \in Calls : call[d].at = "notify" => call'[d] = call[d]
      BY <1>1, <1>5
    <3> QED
      BY <1>1, <1>6, <2>2, <3>1, <3>2 DEF WokenAt
  <2> QED
    BY <2>1, <2>2
<1> QED
  BY <1>9, <1>10, <1>11, <1>12 DEF LockInv

LEMMA BroadcastInv ==
    ASSUME LockInv, NEW c \in Calls, Broadcast(c)
    PROVE  LockInv'
<1>1. /\ state' = state /\ tree' = tree /\ call[c].at = "notify"
      /\ call' = [d \in Calls |->
                    IF d = c \/ (call[d].at = "asleep" /\ call[d].path = call[c].path)
                    THEN Out ELSE call[d]]
  BY DEF Broadcast
<1>2. LockTypeOK /\ CallsTyped
      /\ \A q \in Paths : StateAgrees(q) /\ TreeAgrees(q) /\ WokenAt(q)
  BY DEF LockInv
<1>3. LockTypeOK' /\ CallsTyped'
  BY <1>1, <1>2 DEF LockTypeOK, CallsTyped, CallStates, Out
<1>4. ASSUME NEW q \in Paths PROVE Inside(q)' = Inside(q)
  BY <1>1, SameInside DEF Out
<1>5. ASSUME NEW q \in Paths PROVE StateAgrees(q)' /\ TreeAgrees(q)'
  <2>1. \A d \in Inside(q) : call'[d] = call[d]
    BY <1>1 DEF Inside
  <2> QED
    BY <1>1, <1>2, <1>4, <2>1, Elsewhere
<1>6. ASSUME NEW q \in Paths PROVE WokenAt(q)'
  <2>1. CASE q = call[c].path
    BY <1>1, <2>1 DEF WokenAt, Out
  <2>2. CASE q # call[c].path
    <3>1. \A d \in Calls : call'[d].at = "asleep" => call'[d] = call[d]
      BY <1>1 DEF Out
    <3>2. \A d \in Calls : call[d].at = "notify" /\ call[d].path = q => call'[d] = call[d]
      BY <1>1, <2>2
    <3> QED
      BY <1>2, <1>4, <3>1, <3>2 DEF WokenAt
  <2> QED
    BY <2>1, <2>2
<1> QED
  BY <1>3, <1>5, <1>6 DEF LockInv

\* A call inside changes files: tracked ones only if it is alone.
LEMMA FilesInv ==
    ASSUME LockInv, NEW c \in Calls, (~call[c].shared /\ Edit(c)) \/ Build(c)
    PROVE  LockInv'
<1>1. LockTypeOK /\ CallsTyped /\ call[c].at = "in" /\ state' = state /\ call' = call
      /\ \A q \in Paths : StateAgrees(q) /\ TreeAgrees(q) /\ WokenAt(q)
  BY DEF LockInv, Edit, Build
<1>2. PICK p \in Paths : p = call[c].path
  BY <1>1 DEF CallsTyped
<1>3. c \in Inside(p) /\ call[c].rev \in Revisions
  BY <1>1, <1>2 DEF Inside, CallsTyped
<1>4. LockTypeOK' /\ \A q \in Paths \ {p} : tree'[q] = tree[q]
  <2>1. CASE Edit(c)
    BY <1>1, <1>2, <2>1, SMTT(60) DEF Edit, LockTypeOK, Trees
  <2>2. CASE Build(c)
    BY <1>1, <1>2, <1>3, <2>2, SMTT(60) DEF Build, LockTypeOK, Trees
  <2> QED
    BY <2>1, <2>2
<1>5. /\ tree'[p].rev = tree[p].rev
      /\ tree'[p].edits \subseteq tree[p].edits \cup {c}
      /\ state[p].allowConcurrent => tree'[p].edits = tree[p].edits
  <2>1. CASE ~call[c].shared /\ Edit(c)
    <3>1. tree'[p].rev = tree[p].rev /\ tree'[p].edits = tree[p].edits \cup {c}
      BY <1>1, <1>2, <2>1 DEF Edit, LockTypeOK, Trees
    <3>2. ~state[p].allowConcurrent
      BY <1>1, <1>3, <2>1 DEF StateAgrees
    <3> QED
      BY <3>1, <3>2
  <2>2. CASE Build(c)
    BY <1>1, <1>2, <2>2 DEF Build, LockTypeOK, Trees
  <2> QED
    BY <2>1, <2>2
<1>6. CallsTyped'
  BY <1>1 DEF CallsTyped
<1>7. ASSUME NEW q \in Paths PROVE StateAgrees(q)' /\ TreeAgrees(q)' /\ WokenAt(q)'
  <2>1. Inside(q)' = Inside(q)
    BY <1>1 DEF Inside
  <2>2. StateAgrees(q)' /\ WokenAt(q)'
    BY <1>1, <2>1 DEF StateAgrees, WokenAt
  <2>3. TreeAgrees(q)'
    <3>1. CASE q = p
      BY <1>1, <1>3, <1>5, <2>1, <3>1 DEF TreeAgrees
    <3>2. CASE q # p
      BY <1>1, <1>4, <2>1, <3>2 DEF TreeAgrees
    <3> QED
      BY <3>1, <3>2
  <2> QED
    BY <2>2, <2>3
<1> QED
  BY <1>4, <1>6, <1>7 DEF LockInv

LEMMA StepInv == LockInv /\ [LockNext]_lockVars => LockInv'
<1> SUFFICES ASSUME LockInv, [LockNext]_lockVars PROVE LockInv'
  OBVIOUS
<1>1. CASE LockNext
  <2>1. PICK c \in Calls :
          \/ \E path \in Paths, rev \in Revisions, shared \in BOOLEAN, sub \in BOOLEAN :
                Lock(c, path, rev, shared, sub)
          \/ \E path \in Paths, rev \in Revisions : LockFails(c, path, rev)
          \/ Close(c)
          \/ Broadcast(c)
          \/ ~call[c].shared /\ Edit(c)
          \/ Build(c)
    BY <1>1 DEF LockNext
  <2>2. ASSUME NEW path \in Paths, NEW rev \in Revisions, NEW shared \in BOOLEAN,
               NEW sub \in BOOLEAN, Lock(c, path, rev, shared, sub)
        PROVE  LockInv'
    BY <2>2, FirstInv, JoinInv, WaitInv DEF Lock
  <2>3. ASSUME NEW path \in Paths, NEW rev \in Revisions, LockFails(c, path, rev)
        PROVE  LockInv'
    BY <2>3, FailsInv
  <2>4. CASE Close(c)
    BY <2>4, CloseInv
  <2>5. CASE Broadcast(c)
    BY <2>5, BroadcastInv
  <2>6. CASE (~call[c].shared /\ Edit(c)) \/ Build(c)
    BY <2>6, FilesInv
  <2> QED
    BY <2>1, <2>2, <2>3, <2>4, <2>5, <2>6
<1>2. CASE UNCHANGED lockVars
  <2>1. state' = state /\ tree' = tree /\ call' = call
    BY <1>2 DEF lockVars
  <2>2. ASSUME NEW q \in Paths
        PROVE  StateAgrees(q)' = StateAgrees(q) /\ TreeAgrees(q)' = TreeAgrees(q)
               /\ WokenAt(q)' = WokenAt(q)
    BY <2>1 DEF StateAgrees, TreeAgrees, WokenAt, Inside
  <2> QED
    BY <2>1, <2>2 DEF LockInv, LockTypeOK, CallsTyped
<1> QED
  BY <1>1, <1>2

-----------------------------------------------------------------------------
(* The theorems.                                                             *)

\* The count, the revision and the mode kept for a clone are those of the
\* calls inside, in every state the lock can reach.
THEOREM LockInvariant == LockSpec => []LockInv
BY InitInv, StepInv, PTL DEF LockSpec

\* The calls inside a clone find their revision on disk and no edits but their
\* own, and one that asked to be alone is: what repositoryLock.Lock promises.
THEOREM CloneBelongsToCalls == LockSpec => []CloneIsTheirs
<1>1. LockInv => CloneIsTheirs
  <2> SUFFICES ASSUME LockInv, NEW c \in Calls, call[c].at = "in"
               PROVE  /\ tree[call[c].path].rev = call[c].rev
                      /\ tree[call[c].path].edits \subseteq {c}
                      /\ \A d \in Inside(call[c].path) \ {c} :
                            call[d].rev = call[c].rev /\ call[c].shared /\ call[d].shared
    BY DEF CloneIsTheirs
  <2>1. PICK p \in Paths : p = call[c].path
    BY DEF LockInv, CallsTyped
  <2>2. StateAgrees(p) /\ TreeAgrees(p) /\ c \in Inside(p)
    BY <2>1 DEF LockInv, Inside
  <2>3. state[p].revision # None
    BY <2>2 DEF StateAgrees
  <2>4. tree[p].rev = call[c].rev
    BY <2>2, <2>3 DEF StateAgrees, TreeAgrees
  <2>5. tree[p].edits \subseteq {c}
    BY <2>2, <2>3 DEF StateAgrees, TreeAgrees
  <2>6. ASSUME NEW d \in Inside(p) \ {c}
        PROVE  call[d].rev = call[c].rev /\ call[c].shared /\ call[d].shared
    BY <2>2 DEF StateAgrees
  <2> QED
    BY <2>1, <2>4, <2>5, <2>6
<1> QED
  BY <1>1, LockInvariant, PTL

\* No wakeup is lost: the closer's broadcast comes after its unlock, and a call
\* that goes to sleep in between is woken by it or waits for somebody inside.
THEOREM NoWakeupIsLost == LockSpec => []SleepersAreWoken
<1>1. LockInv => SleepersAreWoken
  <2> SUFFICES ASSUME LockInv, NEW c \in Calls, call[c].at = "asleep"
               PROVE  \/ Inside(call[c].path) # {}
                      \/ \E d \in Calls : call[d].at = "notify" /\ call[d].path = call[c].path
    BY DEF SleepersAreWoken
  <2>1. PICK p \in Paths : p = call[c].path
    BY DEF LockInv, CallsTyped
  <2> QED
    BY <2>1 DEF LockInv, WokenAt
<1> QED
  BY <1>1, LockInvariant, PTL
=============================================================================
