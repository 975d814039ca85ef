# watch2notif in TLA+

watch2notif follows RSS feeds, GitHub and YouTube sources and raises a native
notification for every new entry, on the desktop (Python, a tray icon and a
settings page served on localhost) and on Android (Java, WorkManager and an
optional foreground service). This directory holds TLA+ models of the parts
whose behaviour depends on interleavings, failures and restarts, the TLC
configurations that check them, and TLAPS proofs about each of them.

    tlc -workers 2 -config PollFeed.cfg PollFeed     # a run
    tlapm PollFeedProofs.tla                         # proofs

`PROJECT.json` lists the components, the runs, the source lines each definition
stands for, the hazards and the theorems.

## 1. The system

### Desktop

| Part | State it keeps | Operations | Interacts with | What makes it correct |
|---|---|---|---|---|
| Poller of one source: `poll_feed`, `load_feed_state`, `save_feed_state`, `_forget_oldest_seen` (`notifier.py`) | `state/<key>.json`: `seen_ids`, `pending_ids`, `newest_timestamp`, `source_id` | load, fetch, prime or classify, filter, toast, mark, advance, prune | providers, AI filter, notification backend, history | no entry lost, none toasted twice without a reason, priming is silent, memory bounded |
| Process: `main`, the tray, `single_instance.py` | lock file, port, `restart_requested` | start, restart, stop | the next process, the polling thread | one process polls, a restart comes back |
| Poll loop: `poll_loop`, `SharedState` | `next_due`, `notified_version`, the pause | one daemon thread, a turn every 5 s | the poller, `config.json`, the update checker | never dies, no source starves another, a new version is announced |
| Providers: `providers/*.py` | none | `fetch_entries`: one request | the sites, the poller | a failure never looks like an empty source, nothing new is missed within a page |
| Catch-up tool: `tools/rattrapage_flux.py`, `filtre_ia.py` | items read and judged | read pages, judge, write a report | Reddit's RSS, the AI service | a complete report, or one that says it is not |
| Configuration: `load_config`, `save_config`, `_config_lock`, `_api_save_config`, `build_feeds_from_rows` | `config.json` | HTTP handlers (a thread each), tray | the poll loop reads it without the lock | the key of a source is unique and stable |
| Settings page: `gui/app.js` | the table of sources, the pairing dialog | add, edit, remove, save, reload; open, refresh, close | the routes | answers change the rows they are about |
| Notification history: `notification_history.py` | `notification_history.json`, `_lock` | append (poller), clear and remove (HTTP), load without the lock | poller, page | what was cleared or removed stays so, what was added is kept |
| LAN pairing: `lan_pairing.py`, routes `pair-start`, `pair-cancel`, `pair-allow` | one-shot ticket, HTTP listener, timer, manager | start, POST, expiry, cancel, allow | page, phone, firewall | one use, two minutes, the port closes |
| Firewall: `windows_firewall.py` | the rules of Windows | diagnose, allow (an elevated transaction with rollback) | `pair-allow`, the user, policies | no block rule is left off unreported, never off without its replacement |
| Start-up, update, files: `autostart_manager`, `data_paths`, `self_update`, `update_check`, `config_transfer`, `i18n` | - | thin layers over the library nico579_commons | main | - |

### Android

| Part | State it keeps | Operations | Interacts with | What makes it correct |
|---|---|---|---|---|
| Poller: `PollEngine`, `Store`, `Models` | one document: feeds, poll states, history, pause | poll (scheduled, by hand), deliver; put, delete and import feeds, pause, clear history | screens, AI filter, notifications | as the desktop, and: edits made during a poll take effect at once |
| Fast monitoring: `LivePollService`, `MonitoringState`, `MonitorWakeLock`, `Scheduler` | the wish and its interruption, the instance with its executor, its lock and its lease | start, stop, tick, time limit, destruction, sticky restart | screens, Android, the poller | no processor held without a loop, no loop without a wish, the screens tell the truth |
| Update: `UpdateSession`, `ReleaseUpdates` | state of the card, release, verified file, generation | check, download, verify, install, cancel | worker threads, main looper, the installer | only the verified file of the release shown is installed |
| Pairing, phone side: `PairingSession`, `PairingClient` | state of the reception, 30 s deadline | scan, connect, receive, close | the desktop listener | one outcome, nothing applied after closing |
| Screens, providers, AI filter, secrets, notifications, access test | - | stateless requests, rendering | all of the above | - |

### What is hard

* One step of several fails: a toast refused in the middle of a batch, a filter
  that breaks down, a save that raises. The cycle goes on or dies, and the file
  must still tell what is left to do.
* Crashes between two effects: between the save of the candidates and the
  toasts, between a toast and its mark, between a prime and its save.
* Overlaps: the restarted process and the one it replaces, an elevated script that
  outlived its request and the script of the next one.
* Stale reads: `poll_loop` polls with a snapshot of the configuration, the
  Android engine judges an entry without the lock, the settings page numbers
  its rows again when an answer comes, a tick acts on a wish it has read before.
* Concurrent closers: five places end a pairing ticket, three of them under the
  manager's lock.
* Late answers: cancelled update threads, the last tick of a destroyed service.
* Limits: `MAX_SEEN_IDS`, the grace period around the watermark, 200 history lines,
  single pages cut before pull requests, bots and the owner are left out.

`PROJECT.json` ("hazards") has them one by one, at their lines, with the
properties that cover them.

## 2. The modules

| Module | Models | Kind |
|---|---|---|
| `NotificationLedger` | what following a source promises, on either platform | abstract specification |
| `PollFeed` | `poll_feed` and its file | implements the ledger |
| `PollFeedProofs` | theorems about `PollFeed` | proofs |
| `PairingServer` | `lan_pairing.py`, the three routes | component |
| `PairingServerProofs` | theorems about `PairingServer` | proofs |
| `SettingsPage` | `saveConfig` and the table, `save-config`, `build_feeds_from_rows` | page and server composed (specification `PageSpec`) |
| `AndroidPoll` | `PollEngine`, `Store`, `Models.PollState` | component with its screens, implements the ledger |
| `AndroidPollProofs` | theorems about `AndroidPoll` | proofs |
| `LiveService` | fast monitoring with Android's service manager | component with its environment |
| `LiveServiceProofs` | theorems about `LiveService` | proofs |
| `UpdateSession` | the update card, its threads, its messages | component |
| `UpdateSessionProofs` | theorems about `UpdateSession` | proofs |
| `Desktop` | `main`, the tray, `single_instance`, `poll_loop`, `notification_history`, the history routes | the desktop program composed |
| `DesktopProofs` | theorems about `Desktop` | proofs |
| `Sources` | the seven providers, identifiers and dates, the catch-up tool and its verdicts | environment and component |
| `SourcesProofs` | theorems about `Sources` and `SettingsPage` | proofs |
| `Firewall` | `windows_firewall.py`: diagnosis, request, elevated script | component with its environment |
| `FirewallProofs` | theorems about `Firewall` | proofs |
| `MC...` | symmetry sets of the modules above | model checking |

### PollFeed

A cycle is cut wherever its effects can be separated: `Load`; a fetch followed by
a save (`Prime` or `Classify`); for each candidate `Reject`, or `Toast` then
`MarkSeen`, or `ToastFails`; `AdvanceWatermark`; `ForgetOldest`. `EditConfig` may
fall anywhere, and `CycleLost` (an exception or the death of the process) at every
step. `disk` is the state file, `mem` the `FeedState` in memory, `older` the
insertion order of the Python dict (which decides what pruning forgets), `hist`
what the entries lived through, for the properties only. The file is replaced
atomically (`atomique.ecrire_json`), so it is always a complete state. The
initial files include those of the first versions: a list of identifiers
(`legacy`), an object without a fingerprint.

### NotificationLedger

Each entry is new, pending or known; only a pending entry rings and it stays
pending until it is settled. Both pollers implement it. The `KeepsLedger` of
`PollFeed` maps the file to `status` and the time from a toast to its mark to
`bell`: the detailed cycle, its crashes and its pruning included, is a behaviour of
the ledger. That of `AndroidPoll` does the same with the document. The two differ in
when they forget: the desktop prunes in a step of its own (`Forget`), the phone trims
with each save, so `Notice` and `Settle` may forget known entries as they write, but
never the one they have just settled.

### PairingServer

`PairingSession.close` is split into entering (one owner), shutting down (which
waits for the listener's thread) and waiting for the owner, because five callers
meet there: the timer, the handler's reaper and the API routes. A connection
reads, is refused or consumes the ticket, writes, and records its result. The API
threads take the manager's lock for `start` and `cancel`; `pair-allow` looks at
the current ticket first and closes it only if it is its own.

### SettingsPage

A row is what the user calls one source, with the label it is typed with and the key
the server gave it, or none yet. `ClickSave` sends a copy of the rows, `Serve` names
them in order, `Answer` counts the filled rows again as `app.js` does, `Lose` is an
error or a lost answer, `Reload` fills the table from the configuration. `Retype`
fills, renames or empties a row, and its key stays (`app.js` sends it back,
`build_feeds_from_rows` keeps it): a source that was renamed holds the key of its
former label. `disturbed` records that rows changed during a request: the property on
keys is stated for the behaviours where they do not, renamings between saves included.
A feed that is imported comes with a key of its own in its row; the import is left out.
The loop of
`build_feeds_from_rows` is given by what it makes of the list: each row has the key
that its own key, its label and the keys of the rows above it call for
(`NamedInOrder`), which fixes the keys one after the other; `NamesExist` proves that
there always are such keys. A label is its slug ("source" for an address without a name), and slugs that meet with another
label's numbered one ("a 2" and a second "a") are not told apart.

### AndroidPoll

The network and the judgement of the filter hold no lock; from the last check
before an alert to the save after it the Store lock is held, so the screens
cannot act there but Android can kill the process. `again` is the second delivery
that follows a failed request. `lives` plays the part of `hist`. A line of the
history is an entry: `HistoryWith` puts it first, drops its older line and cuts the
list, `RemoveHistory` takes out the first line that matches, as `Store` does. `MAX_SEEN` is
at least one, as the entry just remembered must survive the trim (`NewestIsKept`).

### LiveService

The main thread's handlers are atomic towards one another; a tick runs on its
executor and is cut between reading the wish, clearing or interrupting it,
renewing the lock, checking, and `finish()`. Android delivers starts and
destructions in order, `stopSelf` from an object that is no longer current does
nothing, and the tick of a destroyed object goes on to its end (`shutdownNow`
only interrupts it), which is why two objects exist at a time. An object is
recycled once nothing refers to it, so behaviours are unbounded.

The model also shows two windows that `tick` leaves between a check and the write
that follows it: a wish made anew between them is cleared although the user did
not stop it (`LivePollService.java:62`), and a time limit reached between them is
reported as "unavailable" (`LivePollService.java:67-69`). `StopTakesEffect`
covers their consequences: the loop whose wish was cleared ends.

### UpdateSession

An operation is named by the generation it takes, and a verified file by its
operation. Cancelled threads go on until they notice; their messages are handled
in order by the main looper and count only in their own generation.

### Desktop

Two process slots, so that the process that restarts and the one it launches exist
together. `main()` is cut at the lock, the port, the closing of the server, the
release of the lock, the launch and the exit; a death at any step gives the lock
file and the port back, as the system does. `poll_loop` is cut at the start of a
turn (where it reads the configuration, the pause and the time once), at the start
and the end of each poll, at the toasts and at the check of the version. A toast
appends to the history, and a click removes a line from it, in two steps, the reading
and the writing of the file (`AppendReads`, `AppendWrites`, `RemoveReads`,
`RemoveWrites`), with the module's lock held from the first to the second; `clear` reads
nothing and is one step. The lock is one of the threads of a process: the process that
is being replaced may write between the reading and the writing of the next one, whose
copy is then `stale`. The toast itself is part of the step that reads. A history line is
its rank in time. What a poll does with its own state file is
`PollFeed`'s matter; here it toasts, then ends, by a return or by an exception alike.

### Sources

A site is a sequence of objects in order of creation; a provider is a record: the
classes it lists, those it leaves out of the answer *after* the page was cut, the
replies shown per thread, what names an entry, whether it is dated, and the answers
that raise. A poll is one step here. The catch-up tool reads page after page behind
the oldest item it has, while the listing grows and shrinks, then has the items of
the period judged until an answer that is no verdict.

### Firewall

Block rules have one of four kinds (broad local, managed by a policy, scoped,
without effect here), which with the profiles of the networks decide what the probe
calls active. `allow()` diagnoses, asks for the consent, waits 120 s for the script
and diagnoses again; `Timeout` answers the request and leaves the script running,
so that two scripts may overlap. The script rechecks and keeps the number of active
blocks (`counted`), compares it with the number of local rules it reads later, finds
or creates its narrow rule, disables one block at a time, verifies, and on a failure
restores and removes. A call that changes a rule (creating, disabling, enabling again,
removing) may fail with or without effect, a reading may fail, and the script may be
ended anywhere. The user, a policy or the network may change beside it. `wanted`
is what user and policies want on, `was` and `disturbed` what a script started from.

## 3. The runs

| Run | Bounds | Shows |
|---|---|---|
| `pollfeed` | 2 entries, 2 sources, 1 remembered identifier, dates 0, 2, 3 with a grace of 1, 1 fault, fairness | types and the inductive invariant of the proofs, nothing pending lost, priming silent, no repeat without a lost mark, watermark monotone, pruning exact, refinement of the ledger, what a source goes on showing does not stay pending |
| `pairing` | 2 tickets, 2 connections, 2 API requests at a time | types, one use, secret gone with the ready state, port closed on return (`TicketInvariant`), outcome told and final, `pair-allow` harmless to other pages (in `TicketInvariant`) |
| `pairing_closing` | 2 tickets, 1 connection, 2 API requests, fairness | listeners close, the manager's lock is released |
| `settings` | 3 sources, 2 labels, 2 saves, 6 rows filled, renamed, emptied or removed | types, keys are distinct (`TableInvariant`); undisturbed, a source keeps its key unless a row above that is called by it or held it takes it |
| `android_poll` | 2 entries, 2 addresses, 1 rule, 3 edits, 1 fault | types and a consistent document whose state belongs to its address (`DocumentInvariant`), nothing pending lost, silence of the reference, no repeat without a lost mark, decisions current, verdicts kept |
| `android_offline` | 2 entries, 2 addresses, 1 remembered identifier, 1 edit, 1 fault, fairness | pending entries are handled even when the source never answers again; refinement of the ledger, with a trim at the second entry |
| `live_service` | 2 objects, 2 undelivered messages, fairness | types, no lock under an ending object and no orphan loop (`ServiceInvariant`), no dead loop shown, a cleared wish ends every loop |
| `update_session` | 2 releases, 6 operations or cancellations, fairness | types, a ready file is that of the release shown (`CardInvariant`), only expected results, the card does not stay busy |
| `desktop` | 2 processes, 2 sources, a full history of 1 line and one more toast, 2 launches, 1 release, 1 click, 1 fault, fairness | types, two pollers only while a restart is under way (`DesktopInvariant`), the history is serial, every enabled source is polled again and again, a version is announced, a restart comes back |
| `sources` | 7 providers, 4 posts or pushes, windows of 2, 1 reply, grace 0, tool pages of 1 (3 at most), 1 fault | types and no burst after priming (`SourceInvariant`), what appeared in reach of a page since the last poll is announced, the catch-up report is complete or says it is not |
| `sources_forks` | forks only, 3 posts or pushes | **violated**: what the README says of new forks |
| `firewall` | 2 block rules, 2 requests, 3 networks, 1 change, 1 fault | types, every wanted rule that is off is accounted for (`FirewallInvariant`), the narrow rule is there while it is off, a reported clean failure changed nothing, but for a creation that took effect and failed |

Why the bounds are enough. Two entries give every order of two candidates, one
refused and one delivered, one forgotten and one kept, one primed and one new;
`MaxSeen = 1` makes pruning happen at the second entry instead of the 4001st. The
dates lie on both sides of the grace period. Two sources are what a change of
address needs, and coming back to the first one is within reach. One fault falls at
any step, and an edit before or after it. Two tickets are what a stale page and a
fresh one need, two connections what a race for the code needs, two API threads what
a circle of waiting needs; a third would be in the same states as one of the two.
Three edits are "delete, put back, edit". Two service objects are a successor
and its predecessor: a third needs a predecessor whose last check outlived two
restarts, and its steps are those of the second. Six update operations are a
check, a download, a verification, a cancellation and a second round of two. Two
processes are the one that restarts and the one it launches. A full history of one
line and one more toast make trimming, clearing, removing and overwriting meet; with a
single line a trim and a removal leave the same file, so the safety properties were
also checked with a limit of two and two more toasts, and the proof covers every size.
Six edits are three rows filled and three renamed, emptied or removed around two
saves: a source loses its key to a namesake above it after two of them, to one that is
given its former label after three. Four
objects are a thread, its reply and two newer ones, or a reference and a full window
of two after it; pages of one make the tool page at every item. Two block rules are
one disabled and one that cannot be, two requests an outlived script and the next.
Liveness runs use no symmetry.

Every bound is a constant named in its module (`MaxFaults`, `MaxEdits`,
`MaxTickets`, `MaxSaves`, `MaxGenerations`, `MaxQueue`, `MaxLines`, `MaxVersions`,
`MaxClicks`, `MaxTime`, `MaxChanges`, the sets `Phones`, `Callers`, `Instances`,
`Processes`, `Requests`). `MaxSeen`, `Grace`, `MaxHistory`, `MaxEntries`, `Width`,
`Replies`, `PageSize` and `MaxPages` are constants of the program with small values.

### Fairness

* `PollFeed`: weak fairness of the cycle's own steps. `poll_loop` is a daemon
  thread that catches every exception and sleeps five seconds; requests have
  timeouts. Faults are bounded by `MaxFaults`, edits are not fair.
* `PairingServer`: handlers have a socket timeout of five seconds, the timer is
  armed at creation, threads run. Nobody has to connect or click.
* `AndroidPoll`: the worker is periodic and a poll runs to its end within its
  timeouts. The screens are not fair.
* `LiveService`: the main looper handles its messages and the executor its task;
  nothing is assumed of the user, of leases, of failures or of the death of the
  process.
* `UpdateSession`: connections have timeouts, the looper handles its messages.
* `Desktop`: weak fairness of a process's own path (the lock, the port, the restart),
  of the polling thread (requests have timeouts, `poll_loop` catches every exception
  and sleeps five seconds), of the HTTP thread that has begun to remove a history line
  (`RemoveWrites`: it holds the lock the polling thread waits for), and of the clock, which reaches every due time. Nothing is
  assumed of the user, of releases, of deaths, of unreadable files.

## 4. Known divergences

One is checked as a run that must be violated:

1. The README says of forks "Reports a new fork, and new commits pushed to any fork".
   The date of a fork is its last push (`providers/github_forks.py:31`), which a new
   fork inherits: once another fork has moved the watermark, a new one is older than
   it by more than the grace period and is absorbed in silence (`sources_forks`).

The models reach others, which the properties leave room for, by name:

2. `_forget_oldest_seen` says that a forgotten entry that comes back is absorbed when
   it is dated (docstring, `notifier.py:429`). It is toasted again when its date is
   within `BACKFILL_GRACE_SECONDS` of the watermark.
3. `build_feeds_from_rows` says that the existing key of a row is reused
   (`notifier.py:178`). A row without a key that stands above it and is called by that
   key takes it (`:201`): the existing source starts again from an empty state. It takes a
   new row of the same label, or of the former label of a row that was renamed and kept
   its key.
4. `UpdateSession.cancel` returns to READY although the verification it interrupts
   deletes the file (`UpdateSession.java:78`). Install then fails and downloads again.
5. README.md:208-210 lets the firewall button repair a broad Public block. On a
   private network such a rule is a candidate without being active, the counts differ
   (`windows_firewall.py:359`) and the script refuses with the code 11.
   The count is the one of the recheck (`:334`) and compared in number only: when a
   managed block was counted and a broad one is enabled before the reading, the script
   goes on with the broad one, disables it, fails the verification and puts it back.
6. A script that outlived its 120 s may, in its rollback, remove the narrow rule that
   the next script found and relies on. `public_default` is not read again after the
   recheck.
7. Between the launch of the next process and the exit of the restarted one
   (`notifier.py:743`) two pollers work on the same state files, and the lock of
   `notification_history.py`, which is one of threads, does not protect a line: an append
   or a removal of one process overwrites what the other has written since its reading.
8. `filtre_ia.juger` does not catch `http.client.IncompleteRead`: an answer cut short
   ends the cycle of the source, or the catch-up tool without a report.
9. A window that holds pull requests only primes without a watermark
   (`providers/github_issues.py`): an older issue that enters it later is toasted.
10. "Restore only rules this operation disabled", and remove the one it created
    (`windows_firewall.py:399-408`): a creation that takes effect and then fails is not
    known to the rollback (`$created` is set after it, `:373-379`), and the narrow allow
    rule stays although the script reports a failure, with the code 13.
11. A wish of fast monitoring made anew between a tick's check and its write is cleared
    (`LivePollService.java:62`).

## 5. What is proved

`PollFeedProofs` proves, for every set of entries, sources and dates, every grace
period and every bound on memory and faults:

| Theorem | Statement |
|---|---|
| `TypesAreRight` | `Spec => []TypeOK` |
| `InductiveHolds` | `Spec => []Inductive` |
| `PollFeedInvariantHolds` | both, the invariant of the run |
| `PendingKept` | an entry once saved as pending is in the file as pending until it is toasted or refused |
| `NoRepeat` | no second toast without a lost mark |
| `PrimedSilent` | what a source showed when it was primed is never toasted |
| `DurableFirst` | candidates are in the file before the first toast |
| `WatermarkOnlyRises` | `[][...]_vars`: as long as the file is about the same source, its watermark never moves back |
| `PruningExact` | `[][...]_vars`: pruning forgets nothing that is still shown and stops at `MAX_SEEN_IDS` |
| `PollerKeepsLedger` | `Spec => Ledger!Spec` under the refinement mapping: `PollFeed` implements `NotificationLedger` |

Assumptions: `PollFeedAssumption` (finite `Ids`; dates, `Grace`, `MaxSeen` and
`MaxFaults` natural numbers; a non-empty set of dates has a latest one; the
sentinels are not values) and `NoFileAssumption` (the absent file is not a file).
TLC evaluates both.

The argument. The four invariants are not inductive: that a toasted entry is not
toasted again depends on the file, and a step reads the copy in memory.
`Inductive` adds what ties them: memory and file are equal from the first save to
the last, before it they agree on `seen` and `pending`, nothing is in both,
`todo` is part of the batch, a toasted entry is in the file, or unmarked, or the
one whose toast is on screen (`Ringing`). The type invariant is strengthened with
`Loaded`: outside "idle" memory holds a state. The proofs have one step per
action, over lemmas on the operators (`Remember`, `Classified`, `MarkedSeen`,
`Without`, `Baseline`). `Inductive` is also checked by TLC (`pollfeed`). For the
pruning, `older` is at every moment a strict total order of the known entries
(`Ordered`), so that "the oldest in excess" is a number of entries (`OldestCount`, by an
injection of the entries into their ranks). For the ledger, each step is mapped to the
operation it is, or to none, by what it does to the file and to the bell.

`FirewallProofs` proves, for every finite set of block rules, every set of networks and of
overlapping requests and every bound on changes and faults:

| Theorem | Statement |
|---|---|
| `TypesAreRight` | `Spec => []TypeOK` |
| `FirewallInvariantHolds` | `Spec => [](TypeOK /\ BlocksComeBack)`: a wanted rule that is off is the business of a script that runs, that succeeded, that reported a partial rollback or that was killed |
| `NarrowRuleFirst` | the narrow rule stands while a wanted broad rule is off, unless rules were changed from outside, scripts overlapped or a rollback was partial |
| `FailureIsHarmless` | `[][...]_vars`: an undisturbed script that ends in a failure, but for the code 16, leaves the block rules as it found them, and its narrow rule too unless creating it took effect and failed (code 13) |

Assumption: `FirewallAssumption` (block rules are finite in number, so that the count of
the recheck is a number). `BlocksComeBack` with the types is inductive as it
stands, because `AnswersFor` says what each position of a script owes: in "disable"
and "verify" the name is in `$disabled`, in the rollback it is still to be put back
or the code is 16, at the end the code is 0 or 16. The proof takes, for a rule that
is off, the script that answers for it: another script's step leaves that answer
alone (`OthersAnswer`), a step of its own hands it on (`FailsAnswers` for a throw),
and only `Disable` turns a new rule off, with its name noted first. The two others
need what an undisturbed script has done so far (`Traced`: which rules it found on are
still on, whether the narrow rule is the one it found or its own), that a script which
runs beside another is known as disturbed (`Alone`), and that while nothing else
interferes the narrow rule stands wherever something is off and what is off is what the
script still owes (`Replaced`).

`PairingServerProofs` proves, for every number of tickets, connections and API
threads:

| Theorem | Statement |
|---|---|
| `TicketInvariantHolds` | types; a configuration leaves at most once per ticket; the secret is held exactly while the ticket is ready; the port is closed when `close()` returns |
| `OutcomeReported` | the outcome of a delivery is not overwritten by other connections |
| `AllowIsHarmless` | the firewall request of an old page closes that page's ticket or none |
| `OutcomeStays` | `[][...]_vars`: used, expired and cancelled are final |

Assumption: `PairingAssumption`. The properties lean on one another through who
holds what, and `Inv` says it in five parts. `LockInv`: the manager's lock is held
exactly from `Acquire` to `Release`. `CreatedInv`: tickets are created in order, one
that is not created is blank and nobody's (so `NextTicket`, a count, is a fresh
one). `CloseInv`: who passed the gate of `close()` found `closed` false and set it,
who got out found `complete` set, a complete ticket listens no more, and only the
current ticket listens. `ManagerInv`: who is about to create found the current
ticket complete, which is why two tickets never listen together. `ServeInv`: the
connection that consumed a ticket is alone and the ticket is "used".

`DesktopProofs` proves, for every finite set of processes, every set of sources, every size of
the history and every bound:

| Theorem | Statement |
|---|---|
| `DesktopInvariantHolds` | `Spec => [](TypeOK /\ PollersOverlapOnlyInARestart)`; the bound of the history is in its type |
| `HistorySerial` | `[][...]_vars`: each write of the history is one append to, the removal of the clicked line from or one clearing of what the file holds at that moment, save for an append or a removal that another process overtook between its reading and its writing |

Assumption: `DesktopAssumption` (processes are finite in number). `Holders` is what
makes it inductive: a process has the lock until it gives it back, and a process
that polls is not off and has been through `starting`; so of two that poll one has
given the lock back, which only a restart does before the process leaves. `Dated`
accounts for the lines to come (those dated plus the appends under way), which the
type of the history needs. `NewestIsBounded` maps each line kept to the number of
newer ones, an injection into `0..MAX_ENTRIES - 1`; a removal writes part of a copy, which
is within the bound as the history it was read from was (`CopiesAreBounded`).
`CopiesAreCurrent` is the reason for the lock of the history: who is between its reading
and its writing, appending or removing, holds a copy of what the file holds, unless
another process wrote meanwhile. A step of a process leaves the copies of the others alone
and treats its own in one of three ways (`OwnCopies`); a write makes the others' stale
(`WrittenCopies`).

`AndroidPollProofs` proves, for every finite set of entries, all addresses, rules and dates
and every bound:

| Theorem | Statement |
|---|---|
| `DocumentInvariantHolds` | types; the state under a key is that of its address; nothing is both remembered and pending, a cached verdict is of a pending entry, no history line is doubled |
| `PendingKept`, `PrimedSilent`, `NoRepeat` | as on the desktop |
| `DecisionsCurrent` | `[][...]_vars`: an alert leaves for a current, enabled source outside a pause only, an entry is hidden by the present rule only |
| `VerdictsKept` | `[][...]_vars`: a saved verdict stays while its entry waits, or is replaced by one of the present rule |
| `PhoneKeepsLedger` | `Spec => Ledger!Spec` under the refinement mapping: `AndroidPoll` implements `NotificationLedger` |

Assumptions: `AndroidPollAssumption`, `NothingAssumption`. Two invariants, the second over
the first. `Sound` adds to the types `Carried`, what the poll takes from one step to the
next: in "send" and "mark" the check of the entry (`StillWanted`) is still true, because the
screens wait for the Store's lock there. `Safe` ties what the entries lived through to the
stored state: primed and filtered entries are remembered, a shown entry is remembered, or
unmarked, or about to be marked (`Accounted`); it needs `Sound` wherever a step saves a state
derived from a copy. `TrimmedType` and its companions say what `PollState.trim` forgets.
For the ledger, a merge is a `Prime` under a state without a reference and a `Notice`
otherwise, with what the trim forgot; the mark and the filter's refusal are a `Settle`, for
which the identifier that was just added must survive its own trim: all the others were
added before it, so that it is the last to go (`NewestIsKept`). A deletion or a change of
address is a `Prime` of nothing, possible because no screen acts under an alert, and
every fault is an `Interrupt` or nothing.

`LiveServiceProofs` proves, for every set of service objects and every bound on the queue:

| Theorem | Statement |
|---|---|
| `ServiceIsSound` | types, no loop left on an object that is neither started nor to be destroyed; an object that ends never holds its lock again |
| `ShownLoopIsLive` | with no destruction to be delivered, what is shown as running is a loop that is not ending, with a source that may be followed |

Assumption: `LiveServiceAssumption` (an object is not one of the words `main` uses).
`AdvertisedLoopIsLive` is about a quiet queue, so the invariant speaks of the queue that is
not: what waits for another object than the started one is followed by the destruction of
that object (`Settled`), hence an object that comes late does not stay; between the checks of
`onStartCommand` and its loop the started object is the one addressed or has messages to come
(`LaunchGrounded`); an object's loop, tick and lock agree (`Consistent`).

`UpdateSessionProofs` proves, for every set of releases and every number of operations:

| Theorem | Statement |
|---|---|
| `CardInvariantHolds` | types; a card that says "ready" names the release of its file; the file is there unless its own second verification failed |
| `OnlyExpected` | `[][...]_vars`: the installer gets the verified file of the release on the card, while the card verifies; a late answer changes nothing |

Assumption: `UpdateSessionAssumption`. A late answer is harmless for what it says and for when
it comes: `Posted` says that each message tells what its thread did, that there is one message
of a thread at most, and that a message of the current operation finds the card in the
operation's own state; `TaskSound` says which files a thread knows and that a file which was
refused is gone; `Session` that a file which is still there belongs to the release on the card
and is shown as ready or being verified.

`SourcesProofs` proves, for every set of providers, every width of a page, every grace period
and every site:

| Theorem | Statement |
|---|---|
| `SourceInvariantHolds` | types; what was there when the source was primed is never toasted, nor what is older than it |
| `NewPostsAnnounced` | `[][...]_vars`: what was made since the last poll and is within reach of a page is toasted by the next one, or is dated before the watermark |
| `CatchUpComplete` | the report of the tool holds all of the period that was there at its start and still stands, or the tool has warned |

Assumption: `SourcesAssumption`. `MemorySound` says that what the source showed when it was
primed is known, whatever names the entries, and not after the watermark, and that what was
made since the last poll is not known yet (a push makes a name that no poll can have seen,
because it carries the time of the push). `ToolSound` says that what was read lies above the
cursor and holds all that was there above it at the start; `PageHolds` that a page with an
item holds every newer one; the dates of a feed follow the order of creation (`SiteSound`),
which is why a page with one item before the period covers it. The provers cannot use
induction over finite sets, since its theorem takes an operator: that a finite set of numbers
has a greatest and a least element (`FiniteExtremes`) comes from the well-founded order of
its subsets instead.

The same module proves of `SettingsPage`, for every finite set of sources, every set of
labels and every number of saves:

| Theorem | Statement |
|---|---|
| `TableInvariantHolds` | types; no two sources of the configuration share a key |
| `UndisturbedStay` | `[][...]_pageVars`: until a row is filled, renamed, emptied or removed during a save or an answer is lost, a source keeps its key through every save and its own renamings, and loses it only to a source above it that has taken it and is called by it or held it |

Assumptions: `SettingsPageAssumption`, `NoKeyAssumption`. The server needs a free key for
each row: there are as many numbers as sources, and among them one that none of the
earlier rows, fewer than the sources, has taken (`FreeKeyIsFree`, by an injection of the
numbers into the rows); hence a list of keys that agrees with the rule exists, by the
longest prefix of the rows that can be named (`NamesExist`). There is one such list only,
since each key follows from those before it (`NamesAreUnique`). `PageInductive` adds to
the invariant that the table, the configuration and each request have one row per source
(`OneRowEach`), which is what bounds the rows, and, until something is disturbed,
`Orderly`. It says of each request what the table would say now (`Expected`): one that
waits will have the answer the table would have, one that was served has had it, and it
is what the file holds. While none is served, the rows of the table have the keys of the
file (`KeysAgree`). A row that is added is blank, and blank rows change no answer
(`BlankRowIsIgnored`); renamings come when no request is out, and change no key. The keys
of an answer leave the table such that it would be answered the same again
(`AnsweredTable`): a request sent before that answer came is still in step. At a save each row then
comes with the key its source has, and loses it only if one above it has taken it
(`ServeKeeps`), which either held it or, having no key of its own that was free, was
given the first free one of its label.

The inductive invariants of `PollFeed` are checked by the run `pollfeed`; those of the other
modules, which are defined beside their proofs, were checked with TLC on the constants of the
runs before they were proved.

Only model-checked: liveness (`ShownEntriesAreDelivered`, `ListenersClose`, `LockIsReleased`,
`PendingIsDelivered`, `StopTakesEffect`, `BusyEnds`, the three of `Desktop`), which
is out of the prover's reach, as ENABLED is. Every safety property of the passing runs is
a theorem. `NewForksAreReported` is false.

## 6. What is not modelled

* Data that no property tells apart: titles, summaries, texts, credentials,
  languages, HTML, the health counters of fast monitoring, percentages.
* What providers parse, and filters and secrets: `Sources` models what the desktop
  providers ask for, leave out and raise, the other models take any answer.
* `nico579_commons`: not in the repository. A write is all or nothing.
* A wall clock that is set back (`next_due` of `poll_loop`), the pairing dialog and
  the phone side of pairing: see the plan.
* `SharedPreferences.apply` writes in the background; `LiveService` takes an
  interruption as saved at once, which a death of the process in the same
  milliseconds would contradict.
* Two pollers on one state file: `PollFeed` has one, `Desktop` delimits the restart
  in which there may be two.
* Build tools, tests, start-up wrappers, the self-update (a transaction of the
  library), the Android providers, secrets and screens.

## 7. The plan

Built, in this order: `NotificationLedger` and `PollFeed` (the reason the program
exists), its proofs, `PairingServer`, `AndroidPoll`, `UpdateSession`,
`SettingsPage`, `LiveService`, `Desktop`, `Sources`, `Firewall`, then the proofs: the
types and the central invariant of `Firewall`, `Desktop` and `PairingServer`, the
refinement of the ledger, the action properties, `AndroidPoll`, `LiveService`,
`UpdateSession`, `Sources`, `SettingsPage`, the refinement of the ledger by
`AndroidPoll`. Left:

1. `PairingPhone` (`PairingSession.java`, `PairingClient.java`: deadline against
   answer against closing, attempts on several addresses) and `PairingDialog`
   (`gui/app.js`: generations and the queue of requests), composed with
   `PairingServer` as three parties of one pairing. Abstract specification: a
   configuration is handed over at most once, and to a phone that is still
   waiting. Property: after the dialog is closed and its queue is empty no ticket
   is ready. Bounds: 2 openings of the dialog, 2 tickets, 1 phone.
2. `config_transfer` and the six-hour cache of `ReleaseUpdates.check`, as operators
   of `SettingsPage` and `UpdateSession`.
