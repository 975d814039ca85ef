-------------------------- MODULE UpdateSessionProofs --------------------------
(***************************************************************************)
(* Proofs about UpdateSession: what "ready" means on the card and which    *)
(* results reach it, for any number of releases and of operations.         *)
(***************************************************************************)
EXTENDS UpdateSession, SequenceTheorems, TLAPS

Steps == {"none", "run", "verify", "done", "failed"}

Tasks == [kind : Kinds, step : Steps, release : Releases \cup {None}, file : Operations \cup {None}]

(* f is the file of a download that was verified, among the tasks t. *)
DownloadIn(t, f) == f \in Operations /\ t[f].kind = "download" /\ t[f].step = "done"

(* The second verification of f failed. *)
Rejected(f) ==
  \E g \in Operations : task[g].kind = "install" /\ task[g].step = "failed" /\ task[g].file = f

(* What thread g has done and knows. *)
TaskSound(g) ==
  /\ g > generation => task[g].step = "none"
  /\ task[g].step = "none" => task[g].kind = "check"
  /\ task[g].kind = "check" => task[g].file = None /\ task[g].step # "verify"
  /\ task[g].kind = "download" =>
       /\ task[g].file \in {None, g}
       /\ task[g].step \in {"verify", "done"} => task[g].file = g
       /\ task[g].step = "verify" => g \in files
       /\ task[g].step = "done" => g \in files \/ Rejected(g)
  /\ task[g].kind = "install" =>
       /\ DownloadIn(task, task[g].file) /\ task[g].step # "verify"
       /\ task[g].step = "failed" => task[g].file \notin files

BusyWith(kind) ==
  CASE kind = "check" -> "CHECKING" [] kind = "download" -> "DOWNLOADING" [] OTHER -> "VERIFYING"

(* Message m says what its thread did among the tasks t; if generation g still expects it,
   the card waits for it in state s. *)
SoundIn(m, t, g, s) ==
  /\ m.from <= g
  /\ t[m.from].step = IF m.what = "failed" THEN "failed" ELSE "done"
  /\ m.what = "found" => t[m.from].kind = "check"
  /\ m.what = "ready" => t[m.from].kind = "download" /\ m.file = m.from
  /\ m.what = "install" => /\ t[m.from].kind = "install" /\ m.file = t[m.from].file
                           /\ t[m.file].release = t[m.from].release
  /\ m.from = g => s = BusyWith(t[g].kind)

Posted ==
  \A k \in DOMAIN posts :
    /\ SoundIn(posts[k], task, generation, state)
    /\ \A l \in DOMAIN posts : posts[l].from = posts[k].from => l = k

(* The card and its current operation; a file that is kept in any other state is gone. *)
Session ==
  /\ generation # 0 /\ task[generation].step \in {"run", "verify"} =>
       state = BusyWith(task[generation].kind)
  /\ Busy => generation # 0 /\ state = BusyWith(task[generation].kind)
  /\ state \in {"DOWNLOADING", "VERIFYING"} => task[generation].release = release
  /\ state = "VERIFYING" => task[generation].file = downloaded
  /\ state = "READY" => downloaded # None
  /\ downloaded # None => DownloadIn(task, downloaded)
  /\ downloaded \in files => state \in {"READY", "VERIFYING"} /\ task[downloaded].release = release

Inductive ==
  /\ TypeOK
  /\ \A g \in Operations : TaskSound(g)
  /\ Posted
  /\ Session

-----------------------------------------------------------------------------
(* The queue of the main looper. *)

LEMMA AppendedPost ==
  ASSUME NEW q \in Seq(Posts), NEW m \in Posts
  PROVE  /\ Append(q, m) \in Seq(Posts)
         /\ \A k \in DOMAIN q : k \in DOMAIN Append(q, m) /\ Append(q, m)[k] = q[k]
         /\ \A k \in DOMAIN Append(q, m) :
              (k \in DOMAIN q /\ Append(q, m)[k] = q[k]) \/ (k = Len(q) + 1 /\ Append(q, m)[k] = m)
<1>1. Append(q, m) \in Seq(Posts) /\ Len(q) \in Nat /\ DOMAIN q = 1..Len(q)
  BY AppendProperties
<1>2. DOMAIN Append(q, m) = 1..(Len(q) + 1) /\ Append(q, m)[Len(q) + 1] = m
  BY AppendProperties
<1>3. \A k \in 1..Len(q) : Append(q, m)[k] = q[k]
  BY AppendProperties
<1>4. QED
  BY <1>1, <1>2, <1>3

LEMMA TailedPosts ==
  ASSUME NEW q \in Seq(Posts), q # <<>>
  PROVE  /\ Head(q) \in Posts /\ Tail(q) \in Seq(Posts)
         /\ 1 \in DOMAIN q /\ Head(q) = q[1]
         /\ \A k \in DOMAIN Tail(q) :
              k \in Nat \ {0} /\ k + 1 \in DOMAIN q /\ Tail(q)[k] = q[k + 1]
<1>1. /\ Head(q) = q[1] /\ Head(q) \in Posts /\ Tail(q) \in Seq(Posts)
      /\ Len(q) \in Nat \ {0} /\ DOMAIN q = 1..Len(q) /\ DOMAIN Tail(q) = 1..(Len(q) - 1)
  BY HeadTailProperties, EmptySeq
<1>2. \A k \in 1..(Len(q) - 1) : Tail(q)[k] = q[k + 1]
  BY <1>1, HeadTailProperties
<1>3. QED
  BY <1>1, <1>2

LEMMA PostOf ==
  ASSUME NEW q \in Seq(Posts), NEW k \in DOMAIN q
  PROVE  /\ q[k] \in Posts /\ q[k].from \in Operations
         /\ q[k].file \in Operations \cup {None} /\ q[k].release \in Releases \cup {None}
         /\ q[k].what \in {"found", "ready", "install", "failed"}
<1>1. q[k] \in Posts
  BY ElementOfSeq, LenProperties
<1>2. QED
  BY <1>1 DEF Posts

-----------------------------------------------------------------------------
(* The threads. *)

(* Thread g goes on: its task keeps its kind and its release. *)
Continued(g, step, file) ==
  /\ task' \in [Operations -> Tasks]
  /\ task'[g].kind = task[g].kind /\ task'[g].release = task[g].release
  /\ task'[g].step = step /\ task'[g].file = file
  /\ \A h \in Operations : h # g => task'[h] = task[h]

LEMMA ContinuedTask ==
  ASSUME TypeOK, NEW g \in Operations, NEW step \in Steps, NEW file \in Operations \cup {None},
         task' = [task EXCEPT ![g].step = step, ![g].file = file]
  PROVE  Continued(g, step, file)
<1>1. task \in [Operations -> Tasks]
  BY DEF TypeOK, Tasks, Steps
<1>2. task[g] \in Tasks
  BY <1>1
<1> DEFINE r == [task[g] EXCEPT !.step = step, !.file = file]
<1>3. r \in Tasks
  BY <1>2 DEF Tasks
<1>4. /\ r.kind = task[g].kind /\ r.step = step
      /\ r.release = task[g].release /\ r.file = file
  BY <1>2 DEF Tasks
<1>5. task' = [task EXCEPT ![g] = r]
  BY <1>1
<1> HIDE DEF r
<1>6. QED
  BY <1>1, <1>3, <1>4, <1>5 DEF Continued

LEMMA EndedTask ==
  ASSUME TypeOK, NEW g \in Operations, NEW step \in Steps,
         task' = [task EXCEPT ![g].step = step]
  PROVE  Continued(g, step, task[g].file)
<1>1. task \in [Operations -> Tasks]
  BY DEF TypeOK, Tasks, Steps
<1>2. task[g] \in Tasks
  BY <1>1
<1> DEFINE r == [task[g] EXCEPT !.step = step]
<1>3. r \in Tasks
  BY <1>2 DEF Tasks
<1>4. /\ r.kind = task[g].kind /\ r.step = step
      /\ r.release = task[g].release /\ r.file = task[g].file
  BY <1>2 DEF Tasks
<1>5. task' = [task EXCEPT ![g] = r]
  BY <1>1
<1> HIDE DEF r
<1>6. QED
  BY <1>1, <1>3, <1>4, <1>5 DEF Continued

(* A thread that was running posts m, and no other thread changes. *)
LEMMA PostKeeps ==
  ASSUME Inductive, NEW g \in Operations, NEW m \in Posts, m.from = g,
         task[g].step \in {"run", "verify"},
         NEW step \in Steps, NEW file, Continued(g, step, file),
         posts' = Append(posts, m), UNCHANGED <<state, generation>>,
         SoundIn(m, task', generation, state)
  PROVE  posts' \in Seq(Posts) /\ Posted'
<1>0. posts \in Seq(Posts) /\ TypeOK
  BY DEF Inductive, TypeOK
<1>1. /\ posts' \in Seq(Posts)
      /\ \A k \in DOMAIN posts' :
           (k \in DOMAIN posts /\ posts'[k] = posts[k]) \/ (k = Len(posts) + 1 /\ posts'[k] = m)
  BY <1>0, AppendedPost
<1>2. ASSUME NEW k \in DOMAIN posts
      PROVE  posts[k].from # g /\ SoundIn(posts[k], task', generation, state)
  <2> DEFINE p == posts[k]
  <2>1. SoundIn(p, task, generation, state)
    BY DEF Inductive, Posted
  <2>2. /\ p.from \in Operations /\ p.file \in Operations \cup {None}
        /\ p.what \in {"found", "ready", "install", "failed"}
    BY <1>0, PostOf
  <2> HIDE DEF p
  <2>3. p.from # g
    BY <2>1 DEF SoundIn
  <2>4. task'[p.from] = task[p.from]
    BY <2>2, <2>3 DEF Continued
  <2>5. \A h \in Operations : task'[h].release = task[h].release /\ task'[h].kind = task[h].kind
    BY DEF Continued
  <2>6. p.what = "install" => p.file \in Operations
    <3> SUFFICES ASSUME p.what = "install"
                 PROVE  p.file \in Operations
      OBVIOUS
    <3>1. TaskSound(p.from) /\ task[p.from].kind = "install" /\ p.file = task[p.from].file
      BY <2>1, <2>2 DEF Inductive, SoundIn
    <3>2. QED
      BY <3>1 DEF TaskSound, DownloadIn
  <2>7. p.from = generation => state = BusyWith(task'[generation].kind)
    BY <2>1, <2>4 DEF SoundIn
  <2>8. SoundIn(p, task', generation, state)
    BY <2>1, <2>4, <2>5, <2>6, <2>7 DEF SoundIn
  <2>9. QED
    BY <2>3, <2>8 DEF p
<1>3. \A k, l \in DOMAIN posts : posts[l].from = posts[k].from => l = k
  BY DEF Inductive, Posted
<1>4. ASSUME NEW k \in DOMAIN posts'
      PROVE  /\ SoundIn(posts'[k], task', generation', state')
             /\ \A l \in DOMAIN posts' : posts'[l].from = posts'[k].from => l = k
  BY <1>1, <1>2, <1>3
<1>5. QED
  BY <1>1, <1>4 DEF Posted

(* What thread g leaves of the others: a download it refuses is one that was verified. *)
LEMMA OthersKeep ==
  ASSUME Inductive, NEW g \in Operations, task[g].step \in {"run", "verify"},
         NEW step \in Steps, NEW file, Continued(g, step, file), generation' = generation,
         file = task[g].file \/ task[g].kind = "download",
         files' \subseteq files \cup {g},
         \A h \in files : \/ h \in files' \/ h = g
                          \/ step = "failed" /\ task[g].kind = "install" /\ file = h
  PROVE  /\ \A f : DownloadIn(task, f) => DownloadIn(task', f) /\ f # g
         /\ \A h \in Operations : h # g => TaskSound(h)'
<1>1. ASSUME NEW f, DownloadIn(task, f)
      PROVE  DownloadIn(task', f) /\ f # g
  BY <1>1 DEF DownloadIn, Continued
<1>2. ASSUME NEW f, Rejected(f)
      PROVE  Rejected(f)'
  <2>1. PICK h \in Operations : task[h].kind = "install" /\ task[h].step = "failed" /\ task[h].file = f
    BY <1>2 DEF Rejected
  <2>2. task'[h] = task[h]
    BY <2>1 DEF Continued
  <2>3. QED
    BY <2>1, <2>2 DEF Rejected
<1>3. ASSUME NEW h \in Operations, h # g
      PROVE  TaskSound(h)'
  <2>1. task'[h] = task[h] /\ TaskSound(h)
    BY <1>3 DEF Continued, Inductive
  <2>2. ASSUME task[h].kind = "download"
        PROVE  /\ task[h].step = "verify" => h \in files'
               /\ task[h].step = "done" => h \in files' \/ Rejected(h)'
    <3>1. CASE h \in files
      <4>1. CASE h \in files'
        BY <4>1
      <4>2. CASE step = "failed" /\ task[g].kind = "install" /\ file = h
        <5>1. file = task[g].file /\ DownloadIn(task, task[g].file)
          BY <4>2 DEF Inductive, TaskSound
        <5>2. Rejected(h)'
          BY <4>2 DEF Rejected, Continued
        <5>3. task[h].step = "done"
          BY <4>2, <5>1 DEF DownloadIn
        <5>4. QED
          BY <5>2, <5>3
      <4>3. QED
        BY <1>3, <3>1, <4>1, <4>2
    <3>2. CASE h \notin files
      BY <1>2, <2>1, <2>2, <3>2 DEF TaskSound
    <3>3. QED
      BY <3>1, <3>2
  <2>3. ASSUME task[h].kind = "install"
        PROVE  /\ DownloadIn(task', task'[h].file)
               /\ task[h].step = "failed" => task[h].file \notin files'
    <3>1. DownloadIn(task, task[h].file)
      BY <2>1, <2>3 DEF TaskSound
    <3>2. task[h].file # g /\ DownloadIn(task', task'[h].file)
      BY <1>1, <2>1, <3>1
    <3>3. QED
      BY <2>1, <2>3, <3>2 DEF TaskSound
  <2>4. QED
    BY <2>1, <2>2, <2>3 DEF TaskSound
<1>4. QED
  BY <1>1, <1>3

(* The card while thread g goes on. *)
LEMMA CardKeeps ==
  ASSUME Inductive, NEW g \in Operations, task[g].step \in {"run", "verify"},
         NEW step \in Steps, NEW file, Continued(g, step, file),
         file = task[g].file \/ task[g].kind = "download",
         UNCHANGED <<state, release, downloaded, generation>>,
         files' \subseteq files \cup {g}
  PROVE  Session'
<1>1. generation \in 0..MaxGenerations /\ downloaded \in Operations \cup {None}
  BY DEF Inductive, TypeOK
<1>2. Session
  BY DEF Inductive
<1>3. \A h \in Operations : task'[h].kind = task[h].kind /\ task'[h].release = task[h].release
  BY DEF Continued
<1>4. generation # 0 => generation \in Operations
  BY <1>1, UpdateSessionAssumption DEF Operations
<1>5. downloaded # None => downloaded \in Operations /\ downloaded # g /\ task'[downloaded] = task[downloaded]
  BY <1>2 DEF Session, DownloadIn, Continued
<1>6. state = "VERIFYING" => task'[generation].file = downloaded
  <2> SUFFICES ASSUME state = "VERIFYING"
               PROVE  task'[generation].file = downloaded
    OBVIOUS
  <2>1. generation \in Operations /\ task[generation].kind # "download" /\ task[generation].file = downloaded
    BY <1>2, <1>4 DEF Session, Busy, BusyWith
  <2>2. QED
    BY <2>1 DEF Continued
<1>7. Busy' => generation' # 0 /\ state' = BusyWith(task'[generation'].kind)
  BY <1>2, <1>3, <1>4 DEF Session, Busy
<1>8. state' \in {"DOWNLOADING", "VERIFYING"} => task'[generation'].release = release'
  BY <1>2, <1>3, <1>4 DEF Session, Busy
<1>9. downloaded' # None => DownloadIn(task', downloaded')
  BY <1>2, <1>5 DEF Session, DownloadIn
<1>10. downloaded' \in files' => state' \in {"READY", "VERIFYING"} /\ task'[downloaded'].release = release'
  <2> SUFFICES ASSUME downloaded \in files'
               PROVE  state \in {"READY", "VERIFYING"} /\ task'[downloaded].release = release
    OBVIOUS
  <2>1. CASE downloaded = None
    <3>1. downloaded \notin files /\ downloaded # g
      BY <2>1, UpdateSessionAssumption DEF Inductive, TypeOK, Operations
    <3>2. QED
      BY <3>1
  <2>2. CASE downloaded # None
    BY <1>2, <1>5, <2>2 DEF Session
  <2>3. QED
    BY <2>1, <2>2
<1>11. generation' # 0 /\ task'[generation'].step \in {"run", "verify"} =>
         state' = BusyWith(task'[generation'].kind)
  <2> SUFFICES ASSUME generation # 0, task'[generation].step \in {"run", "verify"}
               PROVE  state = BusyWith(task'[generation].kind)
    OBVIOUS
  <2>1. generation \in Operations /\ task[generation].step \in {"run", "verify"}
    BY <1>4 DEF Continued
  <2>2. QED
    BY <1>2, <1>3, <2>1 DEF Session
<1>12. QED
  BY <1>2, <1>6, <1>7, <1>8, <1>9, <1>10, <1>11 DEF Session

-----------------------------------------------------------------------------
(* The main thread. *)

(* A later generation expects none of the messages. *)
LEMMA LaterExpectsNothing ==
  ASSUME Inductive, generation + 1 \in Operations, generation' = generation + 1,
         task' \in [Operations -> Tasks], UNCHANGED posts,
         \A h \in Operations : h # generation + 1 => task'[h] = task[h]
  PROVE  Posted'
<1>0. posts \in Seq(Posts) /\ generation \in Nat
  BY DEF Inductive, TypeOK
<1>1. ASSUME NEW k \in DOMAIN posts
      PROVE  SoundIn(posts[k], task', generation + 1, state')
  <2> DEFINE p == posts[k]
  <2>1. SoundIn(p, task, generation, state)
    BY DEF Inductive, Posted
  <2>2. p.from \in Operations /\ p.file \in Operations \cup {None}
    BY <1>0, PostOf
  <2> HIDE DEF p
  <2>3. p.from <= generation /\ p.from \in Nat
    BY <2>1, <2>2 DEF SoundIn, Operations
  <2>4. p.from # generation + 1 /\ p.from <= generation + 1
    BY <1>0, <2>3
  <2>5. task'[p.from] = task[p.from]
    BY <2>2, <2>4
  <2>6. p.what = "install" => task'[p.file] = task[p.file]
    <3> SUFFICES ASSUME p.what = "install"
                 PROVE  task'[p.file] = task[p.file]
      OBVIOUS
    <3>1. TaskSound(p.from) /\ task[p.from].kind = "install" /\ p.file = task[p.from].file
      BY <2>1, <2>2 DEF Inductive, SoundIn
    <3>2. DownloadIn(task, p.file)
      BY <3>1 DEF TaskSound
    <3>3. TaskSound(generation + 1) /\ generation + 1 > generation
      BY <1>0 DEF Inductive
    <3>4. p.file # generation + 1
      BY <3>2, <3>3 DEF DownloadIn, TaskSound
    <3>5. QED
      BY <3>2, <3>4 DEF DownloadIn
  <2>7. SoundIn(p, task', generation + 1, state')
    BY <2>1, <2>4, <2>5, <2>6 DEF SoundIn
  <2>8. QED
    BY <2>7 DEF p
<1>2. QED
  BY <1>1 DEF Inductive, Posted

(* A button that takes a new generation for an operation. *)
LEMMA LaunchKeeps ==
  ASSUME Inductive, NEW kind \in Kinds, NEW r \in Releases \cup {None},
         NEW f \in Operations \cup {None}, Launch(kind, r, f),
         UNCHANGED <<release, downloaded, posts, files, handed>>,
         state' = BusyWith(kind),
         kind # "check" => r = release,
         kind # "install" => f = None /\ state \notin {"READY", "VERIFYING"},
         kind = "install" => f = downloaded /\ downloaded # None /\ state = "READY"
  PROVE  Inductive'
<1> DEFINE n == generation + 1
           t == [kind |-> kind, step |-> "run", release |-> r, file |-> f]
<1>0. /\ TypeOK /\ Session /\ Posted /\ \A g \in Operations : TaskSound(g)
      /\ generation \in 0..MaxGenerations /\ downloaded \in Operations \cup {None}
      /\ task \in [Operations -> Tasks]
  BY DEF Inductive, TypeOK, Tasks, Steps
<1>1. n \in Operations /\ n > generation /\ generation' = n /\ generation' \in 0..MaxGenerations
  BY <1>0, UpdateSessionAssumption DEF Launch, Operations
<1>2. task' = [task EXCEPT ![n] = t] /\ t \in Tasks
  BY DEF Launch, Tasks, Steps
<1>3. /\ task' \in [Operations -> Tasks]
      /\ task'[n].kind = kind /\ task'[n].step = "run" /\ task'[n].release = r /\ task'[n].file = f
      /\ \A h \in Operations : h # n => task'[h] = task[h]
  BY <1>0, <1>1, <1>2
<1>4. task[n].step = "none" /\ task[n].kind = "check"
  BY <1>0, <1>1 DEF TaskSound
<1> HIDE DEF t
<1>5. \A d : DownloadIn(task, d) => d # n /\ task'[d] = task[d] /\ DownloadIn(task', d)
  BY <1>3, <1>4 DEF DownloadIn
<1>6. \A d : Rejected(d) => Rejected(d)'
  BY <1>3, <1>4 DEF Rejected
<1>7. downloaded # None => DownloadIn(task, downloaded)
  BY <1>0 DEF Session
<1>8. kind = "install" => DownloadIn(task', f)
  BY <1>5, <1>7
<1>9. TypeOK'
  <2>1. state' \in {"CHECKING", "DOWNLOADING", "VERIFYING"}
    BY DEF BusyWith
  <2>2. QED
    BY <1>0, <1>1, <1>3, <2>1 DEF TypeOK, Tasks, Steps
<1>10. ASSUME NEW h \in Operations
       PROVE  TaskSound(h)'
  <2>1. CASE h = n
    BY <1>1, <1>3, <1>8, <2>1 DEF TaskSound, Kinds
  <2>2. CASE h # n
    <3>1. task'[h] = task[h] /\ TaskSound(h)
      BY <1>0, <1>3, <2>2
    <3>2. h > generation' => h > generation
      BY <1>0, <1>1 DEF Operations
    <3>3. QED
      BY <1>5, <1>6, <3>1, <3>2 DEF TaskSound
  <2>3. QED
    BY <2>1, <2>2
<1>11. Posted'
  BY <1>1, <1>3, LaterExpectsNothing
<1>12. Session'
  <2>1. generation' # 0 /\ state' = BusyWith(task'[generation'].kind)
    BY <1>0, <1>1, <1>3
  <2>2. state' \in {"DOWNLOADING", "VERIFYING"} => task'[generation'].release = release'
    BY <1>1, <1>3 DEF BusyWith
  <2>3. state' = "VERIFYING" => task'[generation'].file = downloaded'
    BY <1>1, <1>3 DEF BusyWith, Kinds
  <2>4. state' # "READY"
    BY DEF BusyWith
  <2>5. downloaded' # None => DownloadIn(task', downloaded')
    BY <1>5, <1>7
  <2>6. downloaded' \in files' =>
          state' \in {"READY", "VERIFYING"} /\ task'[downloaded'].release = release'
    <3> SUFFICES ASSUME downloaded \in files
                 PROVE  state' = "VERIFYING" /\ task'[downloaded].release = release
      OBVIOUS
    <3>1. state \in {"READY", "VERIFYING"} /\ task[downloaded].release = release
      BY <1>0 DEF Session
    <3>2. kind = "install"
      BY <3>1
    <3>3. QED
      BY <1>5, <1>7, <3>1, <3>2 DEF BusyWith
  <2>7. QED
    BY <2>1, <2>2, <2>3, <2>4, <2>5, <2>6 DEF Session
<1>13. QED
  BY <1>9, <1>10, <1>11, <1>12 DEF Inductive

(* Cancelling, and a new session. *)
LEMMA AbandonKeeps ==
  ASSUME Inductive, Cancel \/ Recreate
  PROVE  Inductive'
<1>0. /\ TypeOK /\ Session /\ Posted /\ \A g \in Operations : TaskSound(g)
      /\ generation \in 0..MaxGenerations /\ downloaded \in Operations \cup {None}
      /\ task \in [Operations -> Tasks] /\ None \notin Operations /\ files \subseteq Operations
  BY UpdateSessionAssumption DEF Inductive, TypeOK, Tasks, Steps, Operations
<1>1. /\ generation' = generation + 1 /\ generation < MaxGenerations
      /\ UNCHANGED <<task, posts, files, handed>>
  BY <1>0, UpdateSessionAssumption DEF Cancel, Recreate
<1>2. generation' \in Operations /\ generation' \in 0..MaxGenerations
  BY <1>0, <1>1, UpdateSessionAssumption DEF Operations
<1>3. Posted'
  BY <1>0, <1>1, <1>2, LaterExpectsNothing
<1>4. ASSUME NEW h \in Operations
      PROVE  TaskSound(h)'
  <2>1. h > generation' => h > generation
    BY <1>0, <1>1 DEF Operations
  <2>2. QED
    BY <1>0, <1>1, <2>1 DEF TaskSound, DownloadIn, Rejected
<1>5. /\ TypeOK' /\ Session'
  <2>0. task'[generation'].step = "none"
    BY <1>0, <1>1, <1>2 DEF TaskSound
  <2>1. CASE Cancel
    <3>1. /\ UNCHANGED <<release, downloaded>> /\ Busy
          /\ state' = IF downloaded # None THEN "READY"
                      ELSE IF release # None THEN "AVAILABLE" ELSE "IDLE"
      BY <2>1 DEF Cancel
    <3>2. TypeOK'
      BY <1>0, <1>1, <1>2, <3>1 DEF TypeOK
    <3>3. downloaded \in files => state' = "READY" /\ task[downloaded].release = release
      BY <1>0, <3>1 DEF Session
    <3>4. Session'
      BY <1>0, <1>1, <2>0, <3>1, <3>3 DEF Session, Busy
    <3>5. QED
      BY <3>2, <3>4
  <2>2. CASE Recreate
    <3>1. state' = "IDLE" /\ release' = None /\ downloaded' = None
      BY <2>2 DEF Recreate
    <3>2. TypeOK'
      BY <1>0, <1>1, <1>2, <3>1 DEF TypeOK
    <3>3. Session'
      BY <1>0, <1>1, <2>0, <3>1 DEF Session, Busy
    <3>4. QED
      BY <3>2, <3>3
  <2>3. QED
    BY <2>1, <2>2
<1>6. QED
  BY <1>3, <1>4, <1>5 DEF Inductive

(* What an expected message finds. *)
LEMMA ExpectedMessage ==
  ASSUME Inductive, posts # <<>>, Expected(Head(posts))
  PROVE  LET m == Head(posts)
         IN /\ m.what = "found" => state = "CHECKING" /\ m.release \in Releases \cup {None}
            /\ m.what = "ready" =>
                 /\ state = "DOWNLOADING" /\ DownloadIn(task, m.file)
                 /\ task[m.file].release = release
            /\ m.what = "install" =>
                 /\ state = "VERIFYING" /\ m.file = downloaded /\ m.file \in Operations
                 /\ task[downloaded].release = release
            /\ m.what = "failed" =>
                 state \in {"CHECKING", "DOWNLOADING", "VERIFYING"} /\ downloaded \notin files
<1> DEFINE m == Head(posts)
<1>0. /\ TypeOK /\ Session /\ Posted /\ \A g \in Operations : TaskSound(g)
      /\ posts \in Seq(Posts) /\ task \in [Operations -> Tasks] /\ None \notin Operations
      /\ downloaded \in Operations \cup {None} /\ files \subseteq Operations
  BY UpdateSessionAssumption DEF Inductive, TypeOK, Tasks, Steps, Operations
<1>1. 1 \in DOMAIN posts /\ m = posts[1] /\ m \in Posts
  BY <1>0, TailedPosts
<1>2. /\ m.from \in Operations /\ m.from = generation
      /\ m.file \in Operations \cup {None} /\ m.release \in Releases \cup {None}
      /\ m.what \in {"found", "ready", "install", "failed"}
  BY <1>1 DEF Posts, Expected
<1>3. SoundIn(m, task, generation, state)
  BY <1>0, <1>1 DEF Posted
<1> HIDE DEF m
<1>4. TaskSound(generation) /\ generation \in Operations /\ state = BusyWith(task[generation].kind)
  BY <1>0, <1>2, <1>3 DEF SoundIn
<1>5. task[generation].kind \in Kinds
  BY <1>0, <1>4 DEF Tasks
<1>6. m.what = "found" => state = "CHECKING"
  BY <1>2, <1>3, <1>4 DEF SoundIn, BusyWith
<1>7. ASSUME m.what = "ready"
      PROVE  state = "DOWNLOADING" /\ DownloadIn(task, m.file) /\ task[m.file].release = release
  <2>1. task[generation].kind = "download" /\ m.file = generation /\ task[generation].step = "done"
    BY <1>2, <1>3, <1>7 DEF SoundIn
  <2>2. state = "DOWNLOADING"
    BY <1>4, <2>1 DEF BusyWith
  <2>3. QED
    BY <1>0, <1>4, <2>1, <2>2 DEF Session, DownloadIn
<1>8. ASSUME m.what = "install"
      PROVE  /\ state = "VERIFYING" /\ m.file = downloaded /\ m.file \in Operations
             /\ task[downloaded].release = release
  <2>1. /\ task[generation].kind = "install" /\ m.file = task[generation].file
        /\ task[m.file].release = task[generation].release
    BY <1>2, <1>3, <1>8 DEF SoundIn
  <2>2. state = "VERIFYING"
    BY <1>4, <2>1 DEF BusyWith
  <2>3. task[generation].file = downloaded /\ task[generation].release = release
    BY <1>0, <2>2 DEF Session
  <2>4. m.file \in Operations
    BY <1>4, <2>1 DEF TaskSound, DownloadIn
  <2>5. QED
    BY <2>1, <2>2, <2>3, <2>4
<1>9. ASSUME m.what = "failed"
      PROVE  state \in {"CHECKING", "DOWNLOADING", "VERIFYING"} /\ downloaded \notin files
  <2>1. state \in {"CHECKING", "DOWNLOADING", "VERIFYING"}
    BY <1>4 DEF BusyWith
  <2>2. task[generation].step = "failed"
    BY <1>2, <1>3, <1>9 DEF SoundIn
  <2>3. CASE state = "VERIFYING"
    <3>1. task[generation].kind = "install" /\ task[generation].file = downloaded
      BY <1>0, <1>4, <1>5, <2>3 DEF Session, BusyWith, Kinds
    <3>2. QED
      BY <1>4, <2>1, <2>2, <3>1 DEF TaskSound
  <2>4. CASE state # "VERIFYING"
    BY <1>0, <2>1, <2>4 DEF Session
  <2>5. QED
    BY <2>3, <2>4, <2>1
<1>10. QED
  BY <1>2, <1>6, <1>7, <1>8, <1>9 DEF m

LEMMA ReceiveKeeps ==
  ASSUME Inductive, Receive
  PROVE  Inductive'
<1> DEFINE m == Head(posts)
<1>0. /\ TypeOK /\ Session /\ Posted /\ \A g \in Operations : TaskSound(g)
      /\ posts \in Seq(Posts) /\ posts # <<>> /\ posts' = Tail(posts)
      /\ UNCHANGED <<generation, task, files>>
      /\ None \notin Operations /\ files \subseteq Operations
  BY UpdateSessionAssumption DEF Inductive, TypeOK, Receive, Operations
<1>1. /\ m \in Posts /\ posts' \in Seq(Posts)
      /\ 1 \in DOMAIN posts /\ m = posts[1]
      /\ \A k \in DOMAIN posts' : k \in Nat \ {0} /\ k + 1 \in DOMAIN posts /\ posts'[k] = posts[k + 1]
  BY <1>0, TailedPosts
<1>2. m.from \in Operations /\ m.file \in Operations \cup {None} /\ m.release \in Releases \cup {None}
  BY <1>1 DEF Posts
(* The other messages are from other threads. *)
<1>3. ASSUME NEW k \in DOMAIN posts'
      PROVE  /\ SoundIn(posts'[k], task, generation, state)
             /\ posts'[k].from # m.from
             /\ \A l \in DOMAIN posts' : posts'[l].from = posts'[k].from => l = k
  <2>1. k \in Nat \ {0} /\ k + 1 \in DOMAIN posts /\ k + 1 # 1 /\ posts'[k] = posts[k + 1]
    BY <1>1
  <2>2. SoundIn(posts'[k], task, generation, state) /\ posts'[k].from # m.from
    BY <1>0, <1>1, <2>1 DEF Posted
  <2>3. ASSUME NEW l \in DOMAIN posts', posts'[l].from = posts'[k].from
        PROVE  l = k
    <3>1. l \in Nat \ {0} /\ l + 1 \in DOMAIN posts /\ posts'[l] = posts[l + 1]
      BY <1>1
    <3>2. l + 1 = k + 1
      BY <1>0, <2>1, <2>3, <3>1 DEF Posted
    <3>3. QED
      BY <2>1, <3>1, <3>2
  <2>4. QED
    BY <2>2, <2>3
<1> HIDE DEF m
<1>4. \A g \in Operations : TaskSound(g)'
  BY <1>0 DEF TaskSound, DownloadIn, Rejected
<1>5. CASE ~Expected(m)
  <2>1. UNCHANGED <<state, release, downloaded, handed>>
    BY <1>5 DEF Receive, m
  <2>2. TypeOK'
    BY <1>0, <1>1, <2>1 DEF TypeOK
  <2>3. Posted'
    BY <1>0, <1>3, <2>1 DEF Posted
  <2>4. Session'
    BY <1>0, <2>1 DEF Session, Busy
  <2>5. QED
    BY <1>4, <2>2, <2>3, <2>4 DEF Inductive
<1>6. CASE Expected(m)
  <2>1. /\ m.what = "found" => state = "CHECKING" /\ m.release \in Releases \cup {None}
        /\ m.what = "ready" =>
             /\ state = "DOWNLOADING" /\ DownloadIn(task, m.file)
             /\ task[m.file].release = release
        /\ m.what = "install" =>
             /\ state = "VERIFYING" /\ m.file = downloaded /\ m.file \in Operations
             /\ task[downloaded].release = release
        /\ m.what = "failed" =>
             state \in {"CHECKING", "DOWNLOADING", "VERIFYING"} /\ downloaded \notin files
    BY <1>0, <1>6, ExpectedMessage DEF m
  <2>2. \/ /\ m.what = "found"
           /\ release' = m.release
           /\ state' = IF m.release = None THEN "CURRENT" ELSE "AVAILABLE"
           /\ UNCHANGED <<downloaded, handed>>
        \/ /\ m.what = "ready"
           /\ downloaded' = m.file /\ state' = "READY"
           /\ UNCHANGED <<release, handed>>
        \/ /\ m.what = "install"
           /\ state' = "READY"
           /\ handed' \in {handed, Append(handed, m.file)}
           /\ UNCHANGED <<release, downloaded>>
        \/ /\ m.what = "failed"
           /\ state' = "FAILED"
           /\ UNCHANGED <<release, downloaded, handed>>
    BY <1>6 DEF Receive, m
  <2>3. Posted'
    <3>1. \A k \in DOMAIN posts' : SoundIn(posts'[k], task, generation, state')
      BY <1>3, <1>6 DEF SoundIn, Expected
    <3>2. QED
      BY <1>0, <1>3, <3>1 DEF Posted
  <2>4. handed' \in Seq(Operations)
    <3>1. handed \in Seq(Operations)
      BY <1>0 DEF TypeOK
    <3>2. handed' = handed \/ (m.file \in Operations /\ handed' = Append(handed, m.file))
      BY <2>1, <2>2
    <3>3. QED
      BY <3>1, <3>2, AppendProperties
  <2>5. TypeOK'
    <3>1. /\ state' \in {"CURRENT", "AVAILABLE", "READY", "FAILED"}
          /\ release' \in Releases \cup {None}
          /\ downloaded' \in Operations \cup {None}
      BY <1>0, <1>2, <2>1, <2>2 DEF TypeOK
    <3>2. QED
      BY <1>0, <1>1, <2>4, <3>1 DEF TypeOK
  <2>6. Session'
    <3>1. state' \notin {"CHECKING", "DOWNLOADING", "VERIFYING"}
      BY <2>2
    <3>2. (state' = "READY" => downloaded' # None) /\ (downloaded' # None => DownloadIn(task, downloaded'))
      BY <1>0, <2>1, <2>2 DEF Session, DownloadIn
    <3>3. downloaded' \in files => state' = "READY" /\ task[downloaded'].release = release'
      BY <1>0, <2>1, <2>2 DEF Session
    <3>4. task[generation].step \notin {"run", "verify"}
      BY <1>0, <1>1, <1>6 DEF Posted, SoundIn, Expected
    <3>5. QED
      BY <1>0, <3>1, <3>2, <3>3, <3>4 DEF Session, Busy
  <2>7. QED
    BY <1>4, <2>3, <2>5, <2>6 DEF Inductive
<1>7. QED
  BY <1>5, <1>6

-----------------------------------------------------------------------------
(* What the threads do. *)
LEMMA WorkKeeps ==
  ASSUME Inductive, NEW g \in Operations, Work(g)
  PROVE  Inductive'
<1>0. /\ TypeOK /\ TaskSound(g) /\ posts \in Seq(Posts) /\ files \subseteq Operations
      /\ task \in [Operations -> Tasks] /\ task[g] \in Tasks
      /\ generation \in 0..MaxGenerations
      /\ None \notin Operations /\ g \in Nat
  <2>1. TypeOK /\ TaskSound(g)
    BY DEF Inductive
  <2>2. task \in [Operations -> Tasks]
    BY <2>1 DEF TypeOK, Tasks, Steps
  <2>3. QED
    BY <2>1, <2>2, UpdateSessionAssumption DEF TypeOK, Operations
<1>1. UNCHANGED <<state, release, downloaded, generation, handed>>
  BY DEF Work, Checked, Downloaded, Verified, VerifiedAgain, Fails
<1>2. task[g].step \in {"run", "verify"}
  BY DEF Work, Checked, Downloaded, Verified, VerifiedAgain, Fails
<1>3. task[g].file \in Operations \cup {None} /\ task[g].kind \in Kinds
  BY <1>0 DEF Tasks
<1>4. g <= generation
  BY <1>0, <1>2 DEF TaskSound
(* Once the thread's own task, its message and the files are known, the rest follows. *)
<1>5. ASSUME NEW step \in Steps, NEW file, Continued(g, step, file),
             file = task[g].file \/ task[g].kind = "download",
             files' \subseteq files \cup {g},
             \A h \in files : \/ h \in files' \/ h = g
                              \/ step = "failed" /\ task[g].kind = "install" /\ file = h,
             TaskSound(g)', posts' \in Seq(Posts), Posted'
      PROVE  Inductive'
  <2>1. \A h \in Operations : TaskSound(h)'
    BY <1>1, <1>2, <1>5, OthersKeep
  <2>2. Session'
    BY <1>1, <1>2, <1>5, CardKeeps
  <2>3. TypeOK'
    <3>1. task' \in [Operations -> Tasks] /\ files' \subseteq Operations
      BY <1>0, <1>5 DEF Continued
    <3>2. QED
      BY <1>0, <1>1, <1>5, <3>1 DEF TypeOK, Tasks, Steps
  <2>4. QED
    BY <1>5, <2>1, <2>2, <2>3 DEF Inductive
(* A thread that has done its work says so. *)
<1>6. ASSUME NEW what \in {"found", "ready", "install"}, NEW r \in Releases \cup {None},
             NEW f \in Operations \cup {None}, Post(g, what, r, f), Ends(g), files' = files,
             what = "found" => task[g].kind = "check",
             what = "ready" => task[g].kind = "download" /\ task[g].step = "verify" /\ f = g,
             what = "install" => /\ task[g].kind = "install" /\ f = task[g].file
                                 /\ task[f].release = task[g].release,
             task[g].kind = "download" => task[g].step = "verify"
      PROVE  Inductive'
  <2> DEFINE m == [from |-> g, what |-> what, release |-> r, file |-> f]
  <2>1. /\ m \in Posts /\ m.from = g /\ m.what = what /\ m.file = f
        /\ posts' = Append(posts, m)
    BY <1>6 DEF Post, Posts
  <2> HIDE DEF m
  <2>2. Continued(g, "done", task[g].file) /\ "done" \in Steps
    BY <1>0, <1>6, EndedTask DEF Ends, Steps
  <2>3. /\ task'[g].kind = task[g].kind /\ task'[g].step = "done"
        /\ task'[g].file = task[g].file /\ task'[g].release = task[g].release
        /\ \A h \in Operations : task'[h].release = task[h].release
        /\ \A h \in Operations : h # g => task'[h] = task[h]
    BY <2>2 DEF Continued
  <2>4. what = "install" => f \in Operations
    BY <1>0, <1>6 DEF TaskSound, DownloadIn
  <2>5. g = generation => state = BusyWith(task'[generation].kind)
    <3> SUFFICES ASSUME g = generation
                 PROVE  state = BusyWith(task[g].kind)
      BY <2>3
    <3>1. generation # 0 /\ Session
      BY UpdateSessionAssumption DEF Inductive, Operations
    <3>2. QED
      BY <1>2, <3>1 DEF Session
  <2>6. SoundIn(m, task', generation, state)
    BY <1>4, <1>6, <2>1, <2>3, <2>4, <2>5 DEF SoundIn
  <2>7. posts' \in Seq(Posts) /\ Posted'
    BY <1>1, <1>2, <2>1, <2>2, <2>6, PostKeeps
  <2>8. TaskSound(g)'
    <3>1. ~(g > generation') /\ generation' = generation
      BY <1>0, <1>1, <1>4
    <3>2. task[g].kind = "install" => DownloadIn(task', task'[g].file)
      BY <1>0, <1>2, <2>3 DEF TaskSound, DownloadIn
    <3>3. task[g].kind = "download" => task'[g].file = g /\ g \in files'
      BY <1>0, <1>6, <2>3 DEF TaskSound
    <3>4. task[g].kind = "check" => task'[g].file = None
      BY <1>0, <2>3 DEF TaskSound
    <3>5. QED
      BY <2>3, <3>1, <3>2, <3>3, <3>4 DEF TaskSound
  <2>9. QED
    BY <1>5, <1>6, <2>2, <2>7, <2>8
<1>7. CASE Checked(g)
  <2>1. PICK r \in Releases \cup {None} : Post(g, "found", r, None)
    BY <1>7 DEF Checked
  <2>2. task[g].kind = "check" /\ Ends(g) /\ files' = files
    BY <1>7 DEF Checked
  <2>3. QED
    BY <1>6, <2>1, <2>2
<1>8. CASE Verified(g)
  <2>1. /\ task[g].kind = "download" /\ task[g].step = "verify"
        /\ Post(g, "ready", None, g) /\ Ends(g) /\ files' = files
    BY <1>8 DEF Verified
  <2>2. QED
    BY <1>6, <2>1
<1>9. CASE VerifiedAgain(g)
  <2>1. /\ task[g].kind = "install" /\ task[task[g].file].release = task[g].release
        /\ Post(g, "install", None, task[g].file) /\ Ends(g) /\ files' = files
    BY <1>9 DEF VerifiedAgain
  <2>2. QED
    BY <1>3, <1>6, <2>1
<1>10. CASE Downloaded(g)
  <2>1. /\ task[g].kind = "download" /\ task[g].step = "run"
        /\ files' = files \cup {g} /\ posts' = posts
        /\ task' = [task EXCEPT ![g].step = "verify", ![g].file = g]
    BY <1>10 DEF Downloaded
  <2>2. Continued(g, "verify", g) /\ "verify" \in Steps
    BY <1>0, <2>1, ContinuedTask DEF Steps
  <2>3. /\ task'[g].kind = "download" /\ task'[g].step = "verify" /\ task'[g].file = g
        /\ \A h \in Operations : h # g => task'[h] = task[h]
        /\ \A h \in Operations : task'[h].release = task[h].release /\ task'[h].kind = task[h].kind
    BY <2>1, <2>2 DEF Continued
  <2>4. TaskSound(g)'
    BY <1>0, <1>1, <1>4, <2>1, <2>3 DEF TaskSound
  <2>5. ASSUME NEW k \in DOMAIN posts
        PROVE  SoundIn(posts[k], task', generation, state)
    <3> DEFINE p == posts[k]
    <3>1. SoundIn(p, task, generation, state)
      BY DEF Inductive, Posted
    <3>2. p.from \in Operations /\ p.from # g
      BY <1>0, <2>1, <3>1, PostOf DEF SoundIn
    <3> HIDE DEF p
    <3>3. task'[p.from] = task[p.from]
      BY <2>3, <3>2
    <3>4. p.what = "install" => p.file \in Operations
      BY <3>1, <3>2 DEF SoundIn, Inductive, TaskSound, DownloadIn
    <3>5. SoundIn(p, task', generation, state)
      BY <2>3, <3>1, <3>3, <3>4 DEF SoundIn
    <3>6. QED
      BY <3>5 DEF p
  <2>6. posts' \in Seq(Posts) /\ Posted'
    BY <1>0, <1>1, <2>1, <2>5 DEF Inductive, Posted
  <2>7. QED
    BY <1>5, <2>1, <2>2, <2>4, <2>6
<1>11. CASE Fails(g)
  <2>1. /\ files' = files \ {task[g].file} /\ Post(g, "failed", None, None)
        /\ task' = [task EXCEPT ![g].step = "failed"]
    BY <1>11 DEF Fails
  <2> DEFINE m == [from |-> g, what |-> "failed", release |-> None, file |-> None]
  <2>2. /\ m \in Posts /\ m.from = g /\ m.what = "failed"
        /\ posts' = Append(posts, m)
    BY <2>1 DEF Post, Posts
  <2> HIDE DEF m
  <2>3. Continued(g, "failed", task[g].file) /\ "failed" \in Steps
    BY <1>0, <2>1, EndedTask DEF Steps
  <2>4. /\ task'[g].kind = task[g].kind /\ task'[g].step = "failed"
        /\ task'[g].file = task[g].file
        /\ \A h \in Operations : h # g => task'[h] = task[h]
    BY <2>3 DEF Continued
  <2>5. g = generation => state = BusyWith(task'[generation].kind)
    <3> SUFFICES ASSUME g = generation
                 PROVE  state = BusyWith(task[g].kind)
      BY <2>4
    <3>1. generation # 0 /\ Session
      BY UpdateSessionAssumption DEF Inductive, Operations
    <3>2. QED
      BY <1>2, <3>1 DEF Session
  <2>6. SoundIn(m, task', generation, state)
    BY <1>4, <2>2, <2>4, <2>5 DEF SoundIn
  <2>7. posts' \in Seq(Posts) /\ Posted'
    BY <1>1, <1>2, <2>2, <2>3, <2>6, PostKeeps
  <2>8. \A h \in files : \/ h \in files' \/ h = g
                         \/ task[g].kind = "install" /\ task[g].file = h
    BY <1>0, <1>3, <2>1 DEF TaskSound, Kinds
  <2>9. TaskSound(g)'
    <3>1. ~(g > generation') /\ generation' = generation
      BY <1>0, <1>1, <1>4
    <3>2. task[g].kind = "install" => DownloadIn(task', task'[g].file)
      BY <1>0, <1>2, <2>4 DEF TaskSound, DownloadIn
    <3>3. task'[g].file \notin files'
      BY <2>1, <2>4
    <3>4. QED
      BY <1>0, <2>4, <3>1, <3>2, <3>3 DEF TaskSound
  <2>10. QED
    BY <1>5, <2>1, <2>3, <2>7, <2>8, <2>9
<1>12. QED
  BY <1>7, <1>8, <1>9, <1>10, <1>11 DEF Work

-----------------------------------------------------------------------------
LEMMA InitInductive == Init => Inductive
<1> SUFFICES ASSUME Init
             PROVE  Inductive
  OBVIOUS
<1>1. /\ task \in [Operations -> Tasks]
      /\ \A g \in Operations : task[g] = NoTask
  BY DEF Init, NoTask, Tasks, Kinds, Steps
<1>2. posts = <<>> /\ posts \in Seq(Posts) /\ handed \in Seq(Operations) /\ DOMAIN posts = {}
  <2>1. <<>> \in Seq(Posts) /\ <<>> \in Seq(Operations) /\ DOMAIN <<>> = {}
    OBVIOUS
  <2>2. QED
    BY <2>1 DEF Init
<1>3. TypeOK
  BY <1>1, <1>2, UpdateSessionAssumption DEF Init, TypeOK, Tasks, Steps
<1>4. \A g \in Operations : TaskSound(g)
  BY <1>1 DEF TaskSound, NoTask
<1>5. Session
  BY UpdateSessionAssumption DEF Init, Session, Busy
<1>6. QED
  BY <1>2, <1>3, <1>4, <1>5 DEF Inductive, Posted

LEMMA NextInductive ==
  ASSUME Inductive, [Next]_vars
  PROVE  Inductive'
<1>0. TypeOK /\ Session /\ release \in Releases \cup {None} /\ downloaded \in Operations \cup {None}
  BY DEF Inductive, TypeOK
<1>1. CASE Check
  <2>1. /\ Launch("check", None, None) /\ state' = BusyWith("check")
        /\ state \notin {"READY", "VERIFYING"} /\ "check" \in Kinds
        /\ UNCHANGED <<release, downloaded, posts, files, handed>>
    BY <1>1 DEF Check, BusyWith, Busy, Kinds
  <2>2. QED
    BY <2>1, LaunchKeeps
<1>2. CASE Download
  <2>1. /\ Launch("download", release, None) /\ state' = BusyWith("download")
        /\ state \notin {"READY", "VERIFYING"} /\ "download" \in Kinds
        /\ UNCHANGED <<release, downloaded, posts, files, handed>>
    BY <1>2 DEF Download, BusyWith, Busy, Kinds
  <2>2. QED
    BY <1>0, <2>1, LaunchKeeps
<1>3. CASE PrepareInstall
  <2>1. /\ Launch("install", release, downloaded) /\ state' = BusyWith("install")
        /\ state = "READY" /\ downloaded # None /\ "install" \in Kinds
        /\ UNCHANGED <<release, downloaded, posts, files, handed>>
    BY <1>3 DEF PrepareInstall, BusyWith, Kinds
  <2>2. QED
    BY <1>0, <2>1, LaunchKeeps
<1>4. CASE Cancel \/ Recreate
  BY <1>4, AbandonKeeps
<1>5. CASE Receive
  BY <1>5, ReceiveKeeps
<1>6. ASSUME NEW g \in Operations, Work(g)
      PROVE  Inductive'
  BY <1>6, WorkKeeps
<1>7. CASE UNCHANGED vars
  BY <1>7 DEF vars, Inductive, TypeOK, TaskSound, DownloadIn, Rejected, Posted, Session, Busy
<1>8. QED
  BY <1>1, <1>2, <1>3, <1>4, <1>5, <1>6, <1>7 DEF Next

(* The inductive invariant of the update. *)
THEOREM InductiveHolds == Spec => []Inductive
<1>1. QED
  BY InitInductive, NextInductive, PTL DEF Spec

(* The card that says "ready" names the release of the file it keeps, and that file is there
   unless its own second verification failed, whatever cancelled threads still do
   (UpdateSession.prepareInstall, ReleaseUpdates.download). *)
THEOREM CardInvariantHolds == Spec => []CardInvariant
<1>1. ASSUME Inductive
      PROVE  CardInvariant
  <2>1. TypeOK /\ Session /\ \A g \in Operations : TaskSound(g)
    BY <1>1 DEF Inductive
  <2>2. ReadyNamesItsFile
    BY <2>1 DEF Session, ReadyNamesItsFile
  <2>3. ReadyFileIsThere
    <3> SUFFICES ASSUME state = "READY"
                 PROVE  downloaded \in files \/ Rejected(downloaded)
      BY DEF ReadyFileIsThere, Rejected
    <3>1. DownloadIn(task, downloaded)
      BY <2>1 DEF Session
    <3>2. QED
      BY <2>1, <3>1 DEF DownloadIn, TaskSound
  <2>4. QED
    BY <2>1, <2>2, <2>3 DEF CardInvariant
<1>2. QED
  BY <1>1, InductiveHolds, PTL

LEMMA StepOfExpectedResults ==
  ASSUME Inductive, Next
  PROVE  /\ Len(handed') > Len(handed) => /\ state = "VERIFYING" /\ Last(handed') = downloaded
                                          /\ task[downloaded].release = release
         /\ release' \notin {release, None} => state = "CHECKING"
         /\ downloaded' \notin {downloaded, None} => state = "DOWNLOADING"
<1>0. handed \in Seq(Operations) /\ Len(handed) \in Nat
  BY DEF Inductive, TypeOK
<1>1. CASE Receive /\ Expected(Head(posts))
  <2> DEFINE m == Head(posts)
  <2>1. posts # <<>>
    BY <1>1 DEF Receive
  <2>2. /\ m.what = "ready" => state = "DOWNLOADING"
        /\ m.what = "found" => state = "CHECKING"
        /\ m.what = "install" =>
             /\ state = "VERIFYING" /\ m.file = downloaded /\ m.file \in Operations
             /\ task[downloaded].release = release
    BY <1>1, <2>1, ExpectedMessage
  <2>3. \/ m.what = "found" /\ UNCHANGED <<downloaded, handed>>
        \/ m.what = "ready" /\ UNCHANGED <<release, handed>>
        \/ /\ m.what = "install" /\ UNCHANGED <<release, downloaded>>
           /\ handed' \in {handed, Append(handed, m.file)}
        \/ UNCHANGED <<release, downloaded, handed>>
    BY <1>1 DEF Receive
  <2> HIDE DEF m
  <2>4. \A f \in Operations : Last(Append(handed, f)) = f
    BY <1>0, AppendProperties DEF Last
  <2>5. handed' = handed \/ (m.what = "install" /\ handed' = Append(handed, m.file))
    BY <2>3
  <2>6. Len(handed') > Len(handed) => /\ state = "VERIFYING" /\ Last(handed') = downloaded
                                      /\ task[downloaded].release = release
    <3>1. CASE handed' = handed
      BY <1>0, <3>1
    <3>2. CASE m.what = "install" /\ handed' = Append(handed, m.file)
      BY <2>2, <2>4, <3>2
    <3>3. QED
      BY <2>5, <3>1, <3>2
  <2>7. release' \notin {release, None} => state = "CHECKING"
    BY <2>2, <2>3
  <2>8. downloaded' \notin {downloaded, None} => state = "DOWNLOADING"
    BY <2>2, <2>3
  <2>9. QED
    BY <2>6, <2>7, <2>8
<1>2. CASE ~(Receive /\ Expected(Head(posts)))
  <2>1. handed' = handed /\ release' \in {release, None} /\ downloaded' \in {downloaded, None}
    BY <1>2 DEF Next, Check, Download, PrepareInstall, Cancel, Recreate, Receive, Work, Checked,
                Downloaded, Verified, VerifiedAgain, Fails
  <2>2. QED
    BY <1>0, <2>1
<1>3. QED
  BY <1>1, <1>2

(* The installer gets the verified file of the release on the card while the card verifies it,
   and a late answer of an abandoned operation changes nothing (UpdateSession.expected). *)
THEOREM OnlyExpected == Spec => OnlyExpectedResults
<1>1. Inductive /\ [Next]_vars =>
        [ /\ Len(handed') > Len(handed) => /\ state = "VERIFYING" /\ Last(handed') = downloaded
                                           /\ task[downloaded].release = release
          /\ release' \notin {release, None} => state = "CHECKING"
          /\ downloaded' \notin {downloaded, None} => state = "DOWNLOADING" ]_vars
  BY StepOfExpectedResults
<1>2. QED
  BY <1>1, InductiveHolds, PTL DEF Spec, OnlyExpectedResults
=============================================================================
