---------------------------- MODULE CommitServer ----------------------------
(***************************************************************************)
(* The commit server of the source hydrator.                               *)
(*                                                                         *)
(* A request asks to put the manifests of a group of applications, all     *)
(* rendered from one dry revision, on the hydrated branch.  Several        *)
(* requests are served at the same time, each in a clone of its own, and   *)
(* groups with different dry sources may share a branch.  A note on a      *)
(* commit of the branch names a dry revision, but not the group it stands  *)
(* for: groups that take the revision from one dry repository, by the      *)
(* names of two of its branches, cannot be told apart.  All notes live     *)
(* under one git reference, which every request pushes to.                 *)
(***************************************************************************)
EXTENDS Naturals, Sequences

CONSTANTS
    Keys,       \* hydration keys: one dry source, one hydrated branch
    DryRepo,    \* per key: the repository of its dry source
    Groups,     \* per key: its applications, in the order they are listed
    Manifests   \* per application: the manifests of each revision of its dry repository

Group(k) == {Groups[k][i] : i \in DOMAIN Groups[k]}
Apps == UNION {Group(k) : k \in Keys}
KeyOf(a) == CHOOSE k \in Keys : a \in Group(k)
Revisions(k) == DOMAIN Manifests[Groups[k][1]]

\* A group has applications, each of them once, and groups share none.
ASSUME GroupsAreProper ==
    \A k \in Keys :
        /\ Len(Groups[k]) \in Nat \ {0} /\ DOMAIN Groups[k] = 1 .. Len(Groups[k])
        /\ \A i, j \in DOMAIN Groups[k] : Groups[k][i] = Groups[k][j] => i = j
        /\ \A l \in Keys : Group(k) \cap Group(l) # {} => k = l

\* The groups that a note for k may be about.
Sharing(k) == {l \in Keys : DryRepo[l] = DryRepo[k]}

ASSUME RevisionsAreShared == \A k \in Keys : \A l \in Sharing(k) : Revisions(k) = Revisions(l)

VARIABLES
    commits,   \* the hydrated branch: what each commit has in the path of an application
    notes,     \* the note of each commit
    req        \* the request of each key

server == <<commits, notes, req>>

\* Commit 1 is the one the branch starts from, it has no manifests.
BaseCommit == [a \in Apps |-> 0]
NoNote == <<>>
Tip == Len(commits)

\* at: where the request is; dry: the revision; paths: the manifests of each
\* application of the group; base: the commit checked out; local: the notes as
\* fetched; sha: the commit to answer with.
NoRequest == [at |-> "none", dry |-> 0, paths |-> <<>>, base |-> 0, local |-> <<>>, sha |-> 0]

CommitInit ==
    /\ commits = <<BaseCommit>>
    /\ notes = <<NoNote>>
    /\ req = [k \in Keys |-> NoRequest]

\* A note is a dry SHA: it belongs to one repository.
NoteOf(k) == <<DryRepo[k], req[k].dry>>

Goto(k, at) == req' = [req EXCEPT ![k].at = at]

-----------------------------------------------------------------------------
(* The steps of handleCommitRequest.                                       *)

initGitClient(k) ==
    /\ req[k].at = "init"
    /\ req' = [req EXCEPT ![k].at = "check", ![k].base = Tip]
    /\ UNCHANGED <<commits, notes>>

\* Mutation: any note will do.
AlreadyHydrated_AnyNote(k, fetched) == fetched # NoNote

AlreadyHydrated(k, fetched) == fetched = NoteOf(k)

\* The fetch of the notes is best effort: without them no note is found.
IsHydrated(k, fetchFails) ==
    /\ req[k].at = "check"
    /\ LET fetched == IF fetchFails THEN NoNote ELSE notes[req[k].base] IN
       req' = [req EXCEPT ![k].at = IF AlreadyHydrated(k, fetched) THEN "done" ELSE "write",
                          ![k].sha = req[k].base]
    /\ UNCHANGED <<commits, notes>>

\* The files of the clone once the manifests of the request are written.
Written(k) ==
    [a \in Apps |-> IF a \in Group(k) THEN req[k].paths[a] ELSE commits[req[k].base][a]]

\* Manifests that are there already are not committed again.
WriteUnchanged(k) ==
    /\ req[k].at = "write"
    /\ Written(k) = commits[req[k].base]
    /\ Goto(k, "fetchNotes")
    /\ UNCHANGED <<commits, notes>>

\* A push is refused if the branch has moved on since the clone was made.
CommitAndPush(k) ==
    /\ req[k].at = "write"
    /\ Written(k) # commits[req[k].base]
    /\ IF Tip = req[k].base
       THEN /\ commits' = Append(commits, Written(k))
            /\ notes' = Append(notes, NoNote)
            /\ req' = [req EXCEPT ![k].at = "fetchNotes", ![k].sha = Tip + 1]
       ELSE Goto(k, "failed") /\ UNCHANGED <<commits, notes>>

FetchNotes(k) ==
    /\ req[k].at = "fetchNotes"
    /\ req' = [req EXCEPT ![k].at = "pushNotes", ![k].local = notes]
    /\ UNCHANGED <<commits, notes>>

\* The notes as they are after the push: the local ones, and the note of the request.
WithNote(k, base) ==
    [i \in DOMAIN notes |-> IF i = req[k].sha THEN NoteOf(k)
                            ELSE IF i \in DOMAIN base THEN base[i] ELSE NoNote]

\* Mutation: the notes are pushed by force.
NotePushAccepted_Forced(k) == TRUE

\* The push of the notes is not forced: it is refused if there are others by now.
NotePushAccepted(k) ==
    \A i \in DOMAIN notes :
        notes[i] = IF i \in DOMAIN req[k].local THEN req[k].local[i] ELSE NoNote

PushNotes(k) ==
    /\ req[k].at = "pushNotes"
    /\ NotePushAccepted(k)
    /\ notes' = WithNote(k, req[k].local)
    /\ req' = [req EXCEPT ![k].at = "done", ![k].local = <<>>]
    /\ UNCHANGED commits

\* A refused push is tried again from the fetch, for a while.
PushNotesRefused(k, giveUp) ==
    /\ req[k].at = "pushNotes"
    /\ ~NotePushAccepted(k)
    /\ req' = [req EXCEPT ![k].at = IF giveUp THEN "failed" ELSE "fetchNotes", ![k].local = <<>>]
    /\ UNCHANGED <<commits, notes>>

\* Any step may fail, and an answer may be lost.
RequestFails(k) ==
    /\ req[k].at \notin {"none", "failed"}
    /\ req' = [req EXCEPT ![k].at = "failed", ![k].local = <<>>]
    /\ UNCHANGED <<commits, notes>>

ServeRequest(k) ==
    \/ initGitClient(k) \/ IsHydrated(k, FALSE)
    \/ WriteUnchanged(k) \/ CommitAndPush(k)
    \/ FetchNotes(k) \/ PushNotes(k) \/ \E giveUp \in BOOLEAN : PushNotesRefused(k, giveUp)

-----------------------------------------------------------------------------
(* Properties of the branch and of its notes.                              *)

\* Commit i has the manifests of revision n for all of the group.
Holds(k, n, i) == \A a \in Group(k) : commits[i][a] = Manifests[a][n]

\* The applications of a group are hydrated together: in every commit their
\* manifests are those of one and the same dry revision.
RevisionsAreNotMixed ==
    \A i \in DOMAIN commits, k \in Keys :
        \/ \A a \in Group(k) : commits[i][a] = 0
        \/ \E n \in Revisions(k) : \A a \in Group(k) : commits[i][a] = Manifests[a][n]

\* A note that has been pushed is never lost to the push of another request
\* (AddAndPushNote): it gives way only to a later note on the same commit.
NotesAreKept ==
    [][\A i \in DOMAIN notes : notes'[i] # notes[i] =>
          /\ notes'[i] # NoNote
          /\ \E k \in Keys : req[k].at = "pushNotes" /\ req[k].sha = i /\ notes'[i] = NoteOf(k)]_server
=============================================================================
