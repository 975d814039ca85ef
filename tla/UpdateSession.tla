---------------------------- MODULE UpdateSession ----------------------------
(***************************************************************************)
(* Application updates on Android: UpdateSession.java with the Settings    *)
(* card that drives it and the files ReleaseUpdates leaves in the cache.   *)
(*                                                                         *)
(* Every operation runs on a thread of its own and posts its result to the *)
(* main thread, where it counts only if no later operation or cancellation *)
(* took a new generation.  A thread that is no longer expected goes on     *)
(* until it notices, and may still touch its file.                         *)
(***************************************************************************)
EXTENDS Naturals, Sequences, SequencesExt

CONSTANTS Releases,        \* releases a check may find
          None,            \* no release, no file
          MaxGenerations   \* bound: number of operations and cancellations

ASSUME UpdateSessionAssumption ==
  MaxGenerations \in Nat /\ None \notin Releases \cup 1..MaxGenerations

(* An operation is named by the generation it took, a downloaded file by its
   operation. *)
Operations == 1..MaxGenerations

Kinds == {"check", "download", "install"}

Posts == [from : Operations, what : {"found", "ready", "install", "failed"}, release : Releases \cup {None},
          file : Operations \cup {None}]

VARIABLES
  state,       \* State
  release,     \* the release found
  downloaded,  \* the file kept for the installer
  generation,
  task,        \* of each operation: [kind, step, release, file]
  posts,       \* the messages of the main looper
  files,       \* the files verified-<operation>.apk in the cache
  handed       \* the files given to the installer, in order

vars == <<state, release, downloaded, generation, task, posts, files, handed>>

NoTask == [kind |-> "check", step |-> "none", release |-> None, file |-> None]

Init ==
  /\ state = "IDLE" /\ release = None /\ downloaded = None /\ generation = 0
  /\ task = [g \in Operations |-> NoTask]
  /\ posts = <<>> /\ files = {} /\ handed = <<>>

Busy == state \in {"CHECKING", "DOWNLOADING", "VERIFYING"}

-----------------------------------------------------------------------------
(* The main thread: the buttons of the card *)

(* ++generation, and a thread for the operation. *)
Launch(kind, r, f) ==
  /\ generation < MaxGenerations
  /\ generation' = generation + 1
  /\ task' = [task EXCEPT ![generation + 1] =
                [kind |-> kind, step |-> "run", release |-> r, file |-> f]]

Check ==
  /\ ~Busy /\ state # "READY"
  /\ state' = "CHECKING"
  /\ Launch("check", None, None)
  /\ UNCHANGED <<release, downloaded, posts, files, handed>>

(* The button downloads unless it installs. *)
Download ==
  /\ release # None /\ ~Busy /\ state # "READY"
  /\ state' = "DOWNLOADING"
  /\ Launch("download", release, None)
  /\ UNCHANGED <<release, downloaded, posts, files, handed>>

PrepareInstall ==
  /\ state = "READY" /\ downloaded # None
  /\ state' = "VERIFYING"
  /\ Launch("install", release, downloaded)
  /\ UNCHANGED <<release, downloaded, posts, files, handed>>

(* The button Cancel, shown while an operation runs.  The thread is interrupted and
   its connection closed: it fails, unless it has finished first (Fails). *)
Cancel ==
  /\ Busy /\ generation < MaxGenerations
  /\ generation' = generation + 1
  /\ state' = IF downloaded # None THEN "READY" ELSE IF release # None THEN "AVAILABLE" ELSE "IDLE"
  /\ UNCHANGED <<release, downloaded, task, posts, files, handed>>

(* The activity is destroyed for good, or Android restarted the application: the next
   activity begins with a new session, which no earlier message reaches. *)
Recreate ==
  /\ generation \in 1..MaxGenerations - 1
  /\ generation' = generation + 1
  /\ state' = "IDLE" /\ release' = None /\ downloaded' = None
  /\ UNCHANGED <<task, posts, files, handed>>

-----------------------------------------------------------------------------
(* The threads *)

Post(g, what, r, f) == posts' = Append(posts, [from |-> g, what |-> what, release |-> r, file |-> f])

Ends(g) == task' = [task EXCEPT ![g].step = "done"]

Checked(g) ==
  /\ task[g].kind = "check" /\ task[g].step = "run"
  /\ \E r \in Releases \cup {None} : Post(g, "found", r, None)
  /\ Ends(g)
  /\ UNCHANGED <<state, release, downloaded, generation, files, handed>>

(* The file is complete and its digest is right; its identity is verified next. *)
Downloaded(g) ==
  /\ task[g].kind = "download" /\ task[g].step = "run"
  /\ files' = files \cup {g}
  /\ task' = [task EXCEPT ![g].step = "verify", ![g].file = g]
  /\ UNCHANGED <<state, release, downloaded, generation, posts, handed>>

Verified(g) ==
  /\ task[g].kind = "download" /\ task[g].step = "verify"
  /\ Post(g, "ready", None, g)
  /\ Ends(g)
  /\ UNCHANGED <<state, release, downloaded, generation, files, handed>>

(* The second verification, of the release of that moment. *)
VerifiedAgain(g) ==
  /\ task[g].kind = "install" /\ task[g].step = "run"
  /\ task[g].file \in files /\ task[task[g].file].release = task[g].release
  /\ Post(g, "install", None, task[g].file)
  /\ Ends(g)
  /\ UNCHANGED <<state, release, downloaded, generation, files, handed>>

(* Slip: a thread that fails says nothing. *)
FailsSilently(g) ==
  /\ task[g].step \in {"run", "verify"}
  /\ files' = files \ {task[g].file}
  /\ Ends(g)
  /\ UNCHANGED <<state, release, downloaded, generation, posts, handed>>

(* Slip: a file that does not pass is left where it is. *)
FailsKeepingFile(g) ==
  /\ task[g].step \in {"run", "verify"}
  /\ Post(g, "failed", None, None)
  /\ Ends(g)
  /\ UNCHANGED <<state, release, downloaded, generation, files, handed>>

(* The network, a verification or an interruption stops the thread: the file that
   did not pass is deleted. *)
Fails(g) ==
  /\ task[g].step \in {"run", "verify"}
  /\ files' = files \ {task[g].file}
  /\ Post(g, "failed", None, None)
  /\ task' = [task EXCEPT ![g].step = "failed"]
  /\ UNCHANGED <<state, release, downloaded, generation, handed>>

Work(g) == Checked(g) \/ Downloaded(g) \/ Verified(g) \/ VerifiedAgain(g) \/ Fails(g)

-----------------------------------------------------------------------------
(* The main thread: the messages *)

(* Slip: a late message counts. *)
AlwaysExpected(m) == TRUE

Expected(m) == m.from = generation

Receive ==
  /\ posts # <<>>
  /\ posts' = Tail(posts)
  /\ LET m == Head(posts)
     IN IF ~Expected(m) THEN UNCHANGED <<state, release, downloaded, handed>>
        ELSE \/ /\ m.what = "found"
                /\ release' = m.release
                /\ state' = IF m.release = None THEN "CURRENT" ELSE "AVAILABLE"
                /\ UNCHANGED <<downloaded, handed>>
             \/ /\ m.what = "ready"
                /\ downloaded' = m.file /\ state' = "READY"
                /\ UNCHANGED <<release, handed>>
             \/ /\ m.what = "install"
                /\ state' = "READY"
                /\ handed' \in {handed, Append(handed, m.file)}  \* unless the activity is paused
                /\ UNCHANGED <<release, downloaded>>
             \/ /\ m.what = "failed"
                /\ state' = "FAILED"
                /\ UNCHANGED <<release, downloaded, handed>>
  /\ UNCHANGED <<generation, task, files>>

Next == \/ Check \/ Download \/ PrepareInstall \/ Cancel \/ Recreate \/ Receive
        \/ \E g \in Operations : Work(g)

Spec == Init /\ [][Next]_vars

(* The connections have timeouts, the main thread handles its messages. *)
FairSpec == Spec /\ WF_vars(Receive) /\ \A g \in Operations : WF_vars(Work(g))

-----------------------------------------------------------------------------
(* Every variable keeps its type. *)
TypeOK ==
  /\ state \in {"IDLE", "CHECKING", "CURRENT", "AVAILABLE", "DOWNLOADING", "VERIFYING", "READY", "FAILED"}
  /\ release \in Releases \cup {None}
  /\ downloaded \in Operations \cup {None}
  /\ generation \in 0..MaxGenerations
  /\ task \in [Operations -> [kind : Kinds, step : {"none", "run", "verify", "done", "failed"},
                              release : Releases \cup {None}, file : Operations \cup {None}]]
  /\ posts \in Seq(Posts)
  /\ files \subseteq Operations
  /\ handed \in Seq(Operations)

(* The card says "ready" of the release it names: a file that is there belongs to that
   release, although the session keeps an old file through failures and checks. *)
ReadyNamesItsFile ==
  state \in {"READY", "VERIFYING"} /\ downloaded \in files => task[downloaded].release = release

(* The file of a card that says "ready" is there, unless the second verification of that
   very file failed or was cancelled: no other operation, cancellation or late thread
   deletes it. *)
ReadyFileIsThere ==
  state = "READY" =>
    \/ downloaded \in files
    \/ \E g \in Operations : task[g].kind = "install" /\ task[g].step = "failed" /\ task[g].file = downloaded

(* The card: types, and what "ready" means. *)
CardInvariant == TypeOK /\ ReadyNamesItsFile /\ ReadyFileIsThere

(* The installer gets the file the card shows, of the release it names, while the card
   is verifying, and a release or a file comes from the operation on the screen: a
   late answer of a cancelled operation changes nothing
   (cancellationDiscardsALateMetadataResult). *)
OnlyExpectedResults ==
  [][ /\ Len(handed') > Len(handed) => /\ state = "VERIFYING" /\ Last(handed') = downloaded
                                       /\ task[downloaded].release = release
      /\ release' \notin {release, None} => state = "CHECKING"
      /\ downloaded' \notin {downloaded, None} => state = "DOWNLOADING" ]_vars

(* Whatever fails or is interrupted, the card does not stay busy. *)
BusyEnds == Busy ~> ~Busy
=============================================================================
