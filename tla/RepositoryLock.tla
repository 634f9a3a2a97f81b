--------------------------- MODULE RepositoryLock ---------------------------
(* The lock of the repo server: one clone of each repository on disk, shared *)
(* by calls that want the same revision and leave its files alone, and given *)
(* to one call at a time otherwise.  The first call to enter checks its      *)
(* revision out; the last one to leave wakes every call that waits.          *)
(*                                                                           *)
(* Every step runs under the mutex of the repository's condition variable,   *)
(* the checkout included, except the broadcast, which follows the unlock.    *)
EXTENDS Integers, FiniteSets

CONSTANTS Calls,      \* calls of Lock that can be in progress
          Paths,      \* root directories of the clones
          Revisions   \* commits

None == 0
NoPath == ""

ASSUME LockConstants ==
    /\ IsFiniteSet(Calls)
    /\ NoPath \notin Paths
    /\ Revisions \subseteq Nat \ {None}

VARIABLES
    state,   \* repositoryState of each path
    tree,    \* files on disk: revision, calls that edited tracked files, and
             \* the revision whose chart dependencies lie there untracked
    call     \* progress of each call: "out", "asleep", "in", "notify"

lockVars == <<state, tree, call>>

RepositoryStates == [revision : Revisions \cup {None}, processCount : Int,
                     allowConcurrent : BOOLEAN]
Trees == [rev : Revisions \cup {None}, edits : SUBSET Calls,
          built : Revisions \cup {None}]
CallStates == [at : {"out", "asleep", "in", "notify"}, path : Paths \cup {NoPath},
               rev : Revisions \cup {None}, shared : BOOLEAN]

Out == [at |-> "out", path |-> NoPath, rev |-> None, shared |-> FALSE]
At(where, path, rev, shared) ==
    [at |-> where, path |-> path, rev |-> rev, shared |-> shared]

Fresh == [revision |-> None, processCount |-> 0, allowConcurrent |-> FALSE]

Inside(path) == {c \in Calls : call[c].at = "in" /\ call[c].path = path}

\* The clones may be left from an earlier run of the server.
LockInit ==
    /\ state = [p \in Paths |-> Fresh]
    /\ tree \in [Paths -> Trees]
    /\ call = [c \in Calls |-> Out]

-----------------------------------------------------------------------------
(* Checkout.  It restores tracked files; untracked ones stay unless the      *)
(* clone is to be cleaned or submodules are on.                              *)

Checkout(t, rev, clean, submodules) ==
    [rev |-> rev, edits |-> {}, built |-> IF clean \/ submodules THEN None ELSE t.built]

\* A fetch that fails leaves the files as they are, a clean that fails comes
\* after the checkout.
FailedCheckouts(t, rev) == {t, [t EXCEPT !.rev = rev, !.edits = {}]}

-----------------------------------------------------------------------------
(* Lock.                                                                     *)

\* Mutant: a call that edits files joins calls that do not.
CanJoinEditing(path, rev, shared) ==
    /\ state[path].revision = rev
    /\ state[path].allowConcurrent

\* Mutant: nobody may join.
CanJoinNever(path, rev, shared) == FALSE

CanJoin(path, rev, shared) ==
    /\ state[path].revision = rev
    /\ state[path].allowConcurrent
    /\ shared

LockFirst(c, path, rev, shared, submodules) ==
    /\ call[c].at = "out"
    /\ state[path].revision = None
    /\ state' = [state EXCEPT ![path] = [revision |-> rev, processCount |-> 1,
                                         allowConcurrent |-> shared]]
    /\ tree' = [tree EXCEPT ![path] = Checkout(@, rev, ~state[path].allowConcurrent,
                                               submodules)]
    /\ call' = [call EXCEPT ![c] = At("in", path, rev, shared)]

\* The checkout fails: the error goes to the caller and the lock stays free.
LockFails(c, path, rev) ==
    /\ call[c].at = "out"
    /\ state[path].revision = None
    /\ \E t \in FailedCheckouts(tree[path], rev) : tree' = [tree EXCEPT ![path] = t]
    /\ UNCHANGED <<state, call>>

LockJoin(c, path, rev, shared) ==
    /\ call[c].at = "out"
    /\ state[path].revision # None
    /\ CanJoin(path, rev, shared)
    /\ state' = [state EXCEPT ![path].processCount = @ + 1]
    /\ call' = [call EXCEPT ![c] = At("in", path, rev, shared)]
    /\ UNCHANGED tree

LockWait(c, path, rev, shared) ==
    /\ call[c].at = "out"
    /\ state[path].revision # None
    /\ ~CanJoin(path, rev, shared)
    /\ call' = [call EXCEPT ![c] = At("asleep", path, rev, shared)]
    /\ UNCHANGED <<state, tree>>

\* The closer, as far as its unlock.
Close(c) ==
    /\ call[c].at = "in"
    /\ LET path == call[c].path
           left == state[path].processCount - 1
       IN /\ state' = [state EXCEPT ![path].processCount = left,
                                    ![path].revision = IF left = 0 THEN None ELSE @]
          /\ call' = [call EXCEPT ![c] = IF left = 0 THEN [@ EXCEPT !.at = "notify"]
                                                     ELSE Out]
    /\ UNCHANGED tree

\* The closer's broadcast: every call that waits for the path tries again.
Broadcast(c) ==
    /\ call[c].at = "notify"
    /\ call' = [d \in Calls |->
                  IF d = c \/ (call[d].at = "asleep" /\ call[d].path = call[c].path)
                  THEN Out ELSE call[d]]
    /\ UNCHANGED <<state, tree>>

-----------------------------------------------------------------------------
(* What a call does inside.                                                  *)

\* It changes tracked files.
Edit(c) ==
    /\ call[c].at = "in"
    /\ tree' = [tree EXCEPT ![call[c].path].edits = @ \cup {c}]
    /\ UNCHANGED <<state, call>>

\* It downloads the dependencies of a chart, unless they are there.
Build(c) ==
    /\ call[c].at = "in"
    /\ tree' = [tree EXCEPT ![call[c].path].built = IF @ = None THEN call[c].rev ELSE @]
    /\ UNCHANGED <<state, call>>

Lock(c, path, rev, shared, submodules) ==
    \/ LockFirst(c, path, rev, shared, submodules)
    \/ LockJoin(c, path, rev, shared)
    \/ LockWait(c, path, rev, shared)

\* Only a call that asked for the repository alone may edit.
LockNext ==
    \E c \in Calls :
        \/ \E path \in Paths, rev \in Revisions, shared \in BOOLEAN, sub \in BOOLEAN :
              Lock(c, path, rev, shared, sub)
        \/ \E path \in Paths, rev \in Revisions : LockFails(c, path, rev)
        \/ Close(c)
        \/ Broadcast(c)
        \/ ~call[c].shared /\ Edit(c)
        \/ Build(c)

LockSpec == LockInit /\ [][LockNext]_lockVars

-----------------------------------------------------------------------------
(* Properties.                                                               *)

LockTypeOK ==
    /\ state \in [Paths -> RepositoryStates]
    /\ tree \in [Paths -> Trees]
    /\ call \in [Calls -> CallStates]

\* The clone belongs to the calls inside: they want one revision and find it
\* on disk, none but its own edits are in the files of any of them, and a call
\* that asked to be alone is alone.
CloneIsTheirs ==
    \A c \in Calls : call[c].at = "in" =>
        /\ tree[call[c].path].rev = call[c].rev
        /\ tree[call[c].path].edits \subseteq {c}
        /\ \A d \in Inside(call[c].path) \ {c} :
              call[d].rev = call[c].rev /\ call[c].shared /\ call[d].shared

\* No wakeup is lost: a call that sleeps waits for calls inside, or for one
\* that has left and is about to wake it.
SleepersAreWoken ==
    \A c \in Calls : call[c].at = "asleep" =>
        \/ Inside(call[c].path) # {}
        \/ \E d \in Calls : call[d].at = "notify" /\ call[d].path = call[c].path
=============================================================================
