------------------------------ MODULE Desktop ------------------------------
(***************************************************************************)
(* The desktop program as a whole (src/notifier.py: main, the tray's       *)
(* actions, poll_loop; src/single_instance.py; src/notification_history.py *)
(* and the routes that use it).                                            *)
(*                                                                         *)
(* A process takes the lock file, binds the port, then polls on a daemon   *)
(* thread while HTTP threads clear and prune the history.  A restart       *)
(* closes the port, releases the lock, launches the next process and only  *)
(* then exits: for a while two pollers run.  PollFeed models what a poll   *)
(* of one source does with its file; here it toasts, returns or raises.    *)
(***************************************************************************)
EXTENDS Integers, FiniteSets, FiniteSetsExt

CONSTANTS Processes,   \* processes that may exist at a time
          Sources,     \* keys of the sources of config.json
          None,        \* nobody, nothing
          MaxEntries,  \* MAX_ENTRIES of the history
          MaxLines,    \* bound: history lines, those of earlier sessions included
          MaxVersions, \* bound: releases
          MaxClicks,   \* bound: launches by the user, restarts, arrests, pauses and edits
          MaxFaults    \* bound: deaths of a process, unreadable files, a port taken

ASSUME DesktopAssumption ==
  /\ IsFiniteSet(Processes) /\ None \notin Processes \cup Sources
  /\ MaxEntries \in Nat /\ MaxLines \in Nat /\ MaxEntries <= MaxLines
  /\ {MaxVersions, MaxClicks, MaxFaults} \subseteq Nat

Lines == 1..MaxLines  \* history lines, in the order of their timestamps

VARIABLES
  proc,     \* Processes -> where main() stands
  lock,     \* the process that holds .watch2notif.lock
  port,     \* the process that listens on the port
  launches, \* processes launched and not yet started
  config,   \* the sources enabled in config.json
  loop,     \* Processes -> where poll_loop stands
  paused,   \* Processes -> pause_event
  due,      \* Processes -> the sources whose next_due has come
  queue,    \* Processes -> active_feeds still to be looked at in this turn
  source,   \* Processes -> the source whose poll_feed runs
  notified, \* Processes -> notified_version
  version,  \* the latest release the checker has found
  history,  \* notification_history.json
  copy,     \* Processes -> entries, as append() or remove() has read them
  line,     \* Processes -> the line append() is to add
  target,   \* Processes -> the line remove() has found and is to take out
  stale,    \* (for the properties) processes whose copy another process overwrote
  lines, clicks, faults

main    == <<proc, lock, port, launches>>
poller  == <<loop, due, queue, source, notified>>
archive == <<history, copy, line, target, stale, lines>>
vars    == <<main, config, poller, paused, version, archive, clicks, faults>>

Fault == faults < MaxFaults /\ faults' = faults + 1
Click == clicks < MaxClicks /\ clicks' = clicks + 1

Alive(p) == proc[p] # "off"

FreeProcess == IF \A p \in Processes : Alive(p) THEN None ELSE CHOOSE p \in Processes : ~Alive(p)

Goes(p, s) == proc' = [proc EXCEPT ![p] = s]
At(p, s)   == loop' = [loop EXCEPT ![p] = s]

(* The user has launched the program twice, earlier sessions have filled the history. *)
Init ==
  /\ proc = [p \in Processes |-> "off"] /\ lock = None /\ port = None /\ launches = 2
  /\ config = Sources
  /\ loop = [p \in Processes |-> "off"] /\ paused = [p \in Processes |-> FALSE]
  /\ due = [p \in Processes |-> {}] /\ queue = [p \in Processes |-> {}]
  /\ source = [p \in Processes |-> None] /\ notified = [p \in Processes |-> 0] /\ version = 0
  /\ lines = MaxEntries /\ history = 1..lines /\ copy = [p \in Processes |-> {}]
  /\ line = [p \in Processes |-> 0] /\ target = [p \in Processes |-> 0] /\ stale = {} /\ clicks = 0 /\ faults = 0

-----------------------------------------------------------------------------
(* main() and the tray *)

(* The process ends, daemon thread and HTTP threads included; the system takes back the
   lock file and the port. *)
Exits(p) ==
  /\ Goes(p, "off") /\ At(p, "off")
  /\ lock' = (IF lock = p THEN None ELSE lock) /\ port' = (IF port = p THEN None ELSE port)
  /\ paused' = [paused EXCEPT ![p] = FALSE] /\ due' = [due EXCEPT ![p] = {}]
  /\ queue' = [queue EXCEPT ![p] = {}] /\ source' = [source EXCEPT ![p] = None]
  /\ notified' = [notified EXCEPT ![p] = 0] /\ copy' = [copy EXCEPT ![p] = {}]
  /\ line' = [line EXCEPT ![p] = 0] /\ target' = [target EXCEPT ![p] = 0] /\ stale' = stale \ {p}

(* Slip: the lock file is not consulted. *)
StartsRegardless(p) ==
  /\ launches > 0 /\ p = FreeProcess
  /\ launches' = launches - 1 /\ lock' = p /\ Goes(p, "starting")
  /\ UNCHANGED <<port, config, poller, paused, version, archive, clicks, faults>>

(* single_instance.acquire: a second instance says so and leaves. *)
Starts(p) ==
  /\ launches > 0 /\ p = FreeProcess
  /\ launches' = launches - 1
  /\ IF lock = None THEN lock' = p /\ Goes(p, "starting") ELSE UNCHANGED <<lock, proc>>
  /\ UNCHANGED <<port, config, poller, paused, version, archive, clicks, faults>>

(* With a port the polling thread and the icon start, every source due; without one main()
   returns. *)
Binds(p) ==
  /\ proc[p] = "starting" /\ port = None
  /\ Goes(p, "on") /\ port' = p
  /\ At(p, "turn") /\ due' = [due EXCEPT ![p] = Sources]
  /\ UNCHANGED <<lock, launches, config, paused, queue, source, notified, version, archive, clicks, faults>>

(* The port is taken, by another program: an instance that holds it holds the lock too. *)
BindFails(p) ==
  /\ proc[p] = "starting" /\ Fault /\ Exits(p)
  /\ UNCHANGED <<launches, config, version, history, lines, clicks>>

(* "Redemarrer" and "Arreter" of the tray: the server is closed first. *)
CloseServer(p) ==
  /\ proc[p] = "on" /\ Click
  /\ Goes(p, "restarting") \/ Goes(p, "leaving")
  /\ port' = None
  /\ UNCHANGED <<lock, launches, config, poller, paused, version, archive, faults>>

(* Slip: the next process is launched before the lock is released. *)
RelaunchEarly(p) ==
  /\ proc[p] = "restarting"
  /\ Goes(p, "leaving") /\ launches' = launches + 1
  /\ UNCHANGED <<lock, port, config, poller, paused, version, archive, clicks, faults>>

ReleaseLock(p) ==
  /\ proc[p] = "restarting"
  /\ Goes(p, "released") /\ lock' = None
  /\ UNCHANGED <<port, launches, config, poller, paused, version, archive, clicks, faults>>

Relaunch(p) ==
  /\ proc[p] = "released"
  /\ Goes(p, "leaving") /\ launches' = launches + 1
  /\ UNCHANGED <<lock, port, config, poller, paused, version, archive, clicks, faults>>

(* The icon's loop returns and so does main(). *)
Leaves(p) ==
  /\ proc[p] = "leaving" /\ Exits(p)
  /\ UNCHANGED <<launches, config, version, history, lines, clicks, faults>>

Killed(p) ==
  /\ Alive(p) /\ Fault /\ Exits(p)
  /\ UNCHANGED <<launches, config, version, history, lines, clicks>>

Main(p) == Starts(p) \/ Binds(p) \/ ReleaseLock(p) \/ Relaunch(p) \/ Leaves(p)

-----------------------------------------------------------------------------
(* poll_loop *)

(* Slip: the pause skips the rest of the turn. *)
TurnUnlessPaused(p) ==
  /\ loop[p] = "turn"
  /\ queue' = [queue EXCEPT ![p] = IF paused[p] THEN {} ELSE config \cap due[p]]
  /\ At(p, IF paused[p] THEN "turn" ELSE "sources")
  /\ UNCHANGED <<main, config, paused, due, source, notified, version, archive, clicks, faults>>

(* A turn reads config.json, the pause and the time once. *)
Turn(p) ==
  /\ loop[p] = "turn"
  /\ queue' = [queue EXCEPT ![p] = IF paused[p] THEN {} ELSE config \cap due[p]]
  /\ At(p, "sources")
  /\ UNCHANGED <<main, config, paused, due, source, notified, version, archive, clicks, faults>>

(* load_config raises: the turn is over before any source and before the version. *)
TurnFails(p) ==
  /\ loop[p] = "turn" /\ Fault
  /\ UNCHANGED <<main, config, poller, paused, version, archive, clicks>>

PollStarts(p, s) ==
  /\ loop[p] = "sources" /\ s \in queue[p]
  /\ source' = [source EXCEPT ![p] = s] /\ At(p, "poll")
  /\ UNCHANGED <<main, config, paused, due, queue, notified, version, archive, clicks, faults>>

(* Slip: an exception ends the turn. *)
PollEndsTheTurn(p) ==
  /\ loop[p] = "poll"
  /\ source' = [source EXCEPT ![p] = None]
  /\ queue' = [queue EXCEPT ![p] = {}] /\ At(p, "turn")
  /\ UNCHANGED <<main, config, paused, due, notified, version, archive, clicks, faults>>

(* poll_feed returns or raises: its source waits for its interval, the others have their
   turn all the same. *)
PollEnds(p) ==
  /\ loop[p] = "poll"
  /\ due' = [due EXCEPT ![p] = @ \ {source[p]}]
  /\ queue' = [queue EXCEPT ![p] = @ \ {source[p]}]
  /\ source' = [source EXCEPT ![p] = None] /\ At(p, "sources")
  /\ UNCHANGED <<main, config, paused, notified, version, archive, clicks, faults>>

(* The new version is toasted, paused or not.  It counts as notified before the toast,
   which may be refused. *)
CheckVersion(p) ==
  /\ loop[p] = "sources" /\ queue[p] = {}
  /\ notified' = [notified EXCEPT ![p] = version]
  /\ At(p, "turn")
  /\ UNCHANGED <<main, config, paused, due, queue, source, version, archive, clicks, faults>>

-----------------------------------------------------------------------------
(* notification_history: append on the polling thread, clear and remove on HTTP threads.  The
   lock is one of the threads of a process, held by append and remove from their reading to
   their writing; clear, which reads nothing, is one step. *)

(* The newest entries of h. *)
Newest(h) == {k \in h : Cardinality({j \in h : j > k}) < MaxEntries}

Locked(p) == loop[p] = "write" \/ target[p] # 0

(* What another process has read is out of date. *)
Written(p, h) == /\ history' = h
                 /\ stale' = (stale \ {p}) \cup {q \in Processes \ {p} : Locked(q)}

(* notify(): the toast is out; once the lock is free the file is read and the line dated. *)
AppendReads(p) ==
  /\ loop[p] = "poll" /\ lines < MaxLines /\ ~Locked(p) /\ At(p, "write")
  /\ copy' = [copy EXCEPT ![p] = history]
  /\ lines' = lines + 1 /\ line' = [line EXCEPT ![p] = lines + 1]
  /\ UNCHANGED <<main, config, due, queue, source, notified, paused, version,
                 history, target, stale, clicks, faults>>

AppendWrites(p) ==
  /\ loop[p] = "write" /\ At(p, "poll")
  /\ Written(p, Newest(copy[p] \cup {line[p]}))
  /\ copy' = [copy EXCEPT ![p] = {}] /\ line' = [line EXCEPT ![p] = 0]
  /\ UNCHANGED <<main, config, due, queue, source, notified, paused, version, target, lines, clicks, faults>>

(* A history that cannot be read or written costs the line, not the poll. *)
AppendFails(p) ==
  /\ loop[p] = "write" /\ Fault /\ At(p, "poll")
  /\ copy' = [copy EXCEPT ![p] = {}] /\ line' = [line EXCEPT ![p] = 0] /\ stale' = stale \ {p}
  /\ UNCHANGED <<main, config, due, queue, source, notified, paused, version, history, target, lines, clicks>>

Clear(p) ==
  /\ port = p /\ history # {} /\ ~Locked(p)
  /\ Written(p, {})
  /\ UNCHANGED <<main, config, poller, paused, version, copy, line, target, lines, clicks, faults>>

(* Slip: remove() reads the file before it takes the lock. *)
RemoveReadsAtOnce(p, k) ==
  /\ port = p /\ k \in history /\ target[p] = 0
  /\ copy' = [copy EXCEPT ![p] = history] /\ target' = [target EXCEPT ![p] = k]
  /\ UNCHANGED <<main, config, poller, paused, version, history, line, stale, lines, clicks, faults>>

(* The line is found by its timestamp and link, wherever new lines have moved it since the
   page was shown; one that is gone is not looked for further. *)
RemoveReads(p, k) ==
  /\ port = p /\ k \in history /\ ~Locked(p)
  /\ copy' = [copy EXCEPT ![p] = history] /\ target' = [target EXCEPT ![p] = k]
  /\ UNCHANGED <<main, config, poller, paused, version, history, line, stale, lines, clicks, faults>>

(* The file is written from what was read, by a thread that outlives the closing of the port. *)
RemoveWrites(p) ==
  /\ target[p] # 0
  /\ Written(p, copy[p] \ {target[p]})
  /\ copy' = [copy EXCEPT ![p] = {}] /\ target' = [target EXCEPT ![p] = 0]
  /\ UNCHANGED <<main, config, poller, paused, version, line, lines, clicks, faults>>

(* The file cannot be written: the route answers with an error, the line stays. *)
RemoveFails(p) ==
  /\ target[p] # 0 /\ Fault
  /\ copy' = [copy EXCEPT ![p] = {}] /\ target' = [target EXCEPT ![p] = 0] /\ stale' = stale \ {p}
  /\ UNCHANGED <<main, config, poller, paused, version, history, line, lines, clicks>>

-----------------------------------------------------------------------------
(* The user, the clock, the releases *)

SetPause(p) ==
  /\ port = p /\ Click /\ paused' = [paused EXCEPT ![p] = ~@]
  /\ UNCHANGED <<main, config, poller, version, archive, faults>>

EditConfig ==
  /\ port # None /\ Click /\ config' \in SUBSET Sources \ {config}
  /\ UNCHANGED <<main, poller, paused, version, archive, faults>>

Launch ==
  /\ Click /\ launches' = launches + 1
  /\ UNCHANGED <<proc, lock, port, config, poller, paused, version, archive, faults>>

DueComes(p, s) ==
  /\ loop[p] # "off" /\ s \notin due[p] /\ due' = [due EXCEPT ![p] = @ \cup {s}]
  /\ UNCHANGED <<main, config, loop, queue, source, notified, paused, version, archive, clicks, faults>>

Publish ==
  /\ version < MaxVersions /\ version' = version + 1
  /\ UNCHANGED <<main, config, poller, paused, archive, clicks, faults>>

Loop(p) == \/ Turn(p) \/ PollEnds(p) \/ AppendReads(p) \/ AppendWrites(p) \/ CheckVersion(p)
           \/ \E s \in Sources : PollStarts(p, s)

Next == \/ \E p \in Processes : \/ Main(p) \/ BindFails(p) \/ CloseServer(p) \/ Killed(p)
                                \/ Loop(p) \/ TurnFails(p) \/ AppendFails(p)
                                \/ Clear(p) \/ RemoveWrites(p) \/ RemoveFails(p) \/ SetPause(p)
                                \/ \E k \in Lines : RemoveReads(p, k)
                                \/ \E s \in Sources : DueComes(p, s)
        \/ EditConfig \/ Launch \/ Publish

Spec == Init /\ [][Next]_vars

(* Threads run, those of the HTTP server too, a poll is bounded by the timeouts of its
   requests, the clock reaches every due time. *)
FairSpec ==
  /\ Spec
  /\ \A p \in Processes :
       /\ WF_vars(Main(p)) /\ WF_vars(Loop(p)) /\ WF_vars(RemoveWrites(p))
       /\ \A s \in Sources : WF_vars(DueComes(p, s))

-----------------------------------------------------------------------------
(* Every variable keeps its type. *)
TypeOK ==
  /\ proc \in [Processes -> {"off", "starting", "on", "restarting", "released", "leaving"}]
  /\ {lock, port} \subseteq Processes \cup {None}
  /\ loop \in [Processes -> {"off", "turn", "sources", "poll", "write"}]
  /\ source \in [Processes -> Sources \cup {None}]
  /\ \A f \in {due, queue} : f \in [Processes -> SUBSET Sources]
  /\ paused \in [Processes -> BOOLEAN] /\ notified \in [Processes -> 0..MaxVersions]
  /\ copy \in [Processes -> SUBSET Lines]
  /\ \A f \in {line, target} : f \in [Processes -> {0} \cup Lines]
  /\ history \subseteq Lines /\ Cardinality(history) <= MaxEntries
  /\ config \subseteq Sources /\ stale \subseteq Processes /\ version \in 0..MaxVersions
  /\ {launches, lines, clicks, faults} \subseteq Nat

(* "Empeche de lancer deux pollers en meme temps" (single_instance): two processes poll
   together only while the one that was restarted, its port closed, is on its way out. *)
PollersOverlapOnlyInARestart ==
  \A p, q \in Processes : p # q /\ loop[p] # "off" /\ loop[q] # "off" =>
    \E r \in {p, q} : proc[r] \in {"released", "leaving"} /\ port # r

DesktopInvariant == TypeOK /\ PollersOverlapOnlyInARestart

(* What the lock of notification_history is for: each write adds the line of a new toast to
   what the file holds, takes out of it the one line that was clicked, or clears it.  A line
   that another thread has added, removed or cleared between the reading and the writing is
   neither lost nor back.  The lock is one of threads: during a restart the other process may
   have written in between, and what it wrote is overwritten. *)
HistoryIsSerial ==
  [][history' # history =>
       \/ history' = {} /\ UNCHANGED <<loop, target>>
       \/ \E p \in Processes : target[p] # 0 /\ history' = history \ {target[p]}
       \/ \E p \in Processes : loop[p] = "write" /\ history' = Newest(history \cup {line[p]})
       \/ \E p \in stale : p \notin stale']_vars

(* A source that is enabled is polled again and again outside a pause, whatever the polls of
   the other sources raise. *)
EnabledSourcesArePolled ==
  \A p \in Processes, s \in Sources :
    <>[](proc[p] = "on" /\ s \in config /\ ~paused[p]) => []<>(loop[p] = "poll" /\ source[p] = s)

(* A new version is announced, during a pause too ("la pause ne concerne que les sources
   suivies"). *)
VersionIsTried ==
  \A p \in Processes : []<>(notified[p] = version \/ proc[p] # "on")

(* A restart brings the program back: with the port and the lock free the next process
   comes up, unless something fails. *)
RestartComesBack ==
  (\E p \in Processes : proc[p] = "restarting") ~> (port # None \/ faults = MaxFaults)
=============================================================================
