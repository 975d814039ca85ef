------------------------------ MODULE PollFeed ------------------------------
(***************************************************************************)
(* One followed source of the desktop poller: poll_feed of src/notifier.py *)
(* with the state file it loads and saves, the provider it fetches from,   *)
(* the AI filter and the notification backend.                             *)
(*                                                                         *)
(* A cycle is cut wherever its effects can be separated: a load, a fetch   *)
(* followed by a save, one toast, the save that follows the toast, the     *)
(* watermark save and the pruning save.  Between two steps the user may    *)
(* edit the configuration and the process may die.                         *)
(***************************************************************************)
EXTENDS Integers, FiniteSets

CONSTANTS Ids,       \* identifiers of the entries a source may show
          Sources,   \* fingerprints of (kind, url) pairs
          Times,     \* the instants entries may be dated with
          NoTime,    \* an undated entry, an absent watermark
          NoSource,  \* a state file without a fingerprint
          NoFile,    \* no state file, or nothing loaded in memory
          Grace,     \* BACKFILL_GRACE_SECONDS
          MaxSeen,   \* MAX_SEEN_IDS
          MaxFaults  \* bound: number of faults (crash, I/O error, refused toast)

ASSUME PollFeedAssumption ==
  /\ IsFiniteSet(Ids)
  /\ Times \subseteq Nat
  /\ \A ts \in SUBSET Times : ts # {} => \E t \in ts : \A u \in ts : u <= t
  /\ NoTime \notin Times
  /\ NoSource \notin Sources
  /\ Grace \in Nat
  /\ MaxSeen \in Nat
  /\ MaxFaults \in Nat

Dates == Times \cup {NoTime}

(* FeedState: "older" holds the pairs <<a, b>> such that a stands before b in
   seen_ids, the insertion order of the Python dict.                       *)
FeedState == [seen    : SUBSET Ids,
              older   : SUBSET (Ids \X Ids),
              pending : SUBSET Ids,
              newest  : Dates,
              source  : Sources \cup {NoSource},
              legacy  : BOOLEAN]

ASSUME NoFileAssumption == NoFile \notin FeedState

Snapshot == [source : Sources, rule : BOOLEAN]

(* What the entries lived through, for the properties only. *)
History == [primed    : SUBSET Ids,   \* known since the source was primed
            pended    : SUBSET Ids,   \* written to disk as pending at least once
            shown     : SUBSET Ids,   \* toasted
            rejected  : SUBSET Ids,   \* refused by the AI filter
            unmarked  : SUBSET Ids]   \* toasted, then the cycle died before the save

Batches == UNION {{b \in [1..n -> Ids] : \A j, k \in 1..n : b[j] = b[k] => j = k} :
                    n \in 0..Cardinality(Ids)}

VARIABLES
  date,    \* the date each entry carries (an entry keeps it)
  config,  \* what config.json holds for this key now
  disk,    \* state/<key>.json
  pc,      \* where the polling thread stands
  feed,    \* the configuration poll_feed was called with
  fresh,   \* first_run or source_changed
  mem,     \* the FeedState in memory
  batch,   \* the entries of this cycle, in the order of the source
  todo,    \* candidates not handled yet
  outage,  \* panne_filtre is set
  faults,  \* number of faults so far
  hist     \* History

vars == <<date, config, disk, pc, feed, fresh, mem, batch, todo, outage, faults, hist>>

-----------------------------------------------------------------------------
(* Helpers *)

Shown == {batch[k] : k \in DOMAIN batch}

IdsOf(b) == {b[k] : k \in DOMAIN b}

Precedes(b, i, j) == \E m, n \in DOMAIN b : m < n /\ b[m] = i /\ b[n] = j

Latest(ts) == IF ts = {} THEN NoTime ELSE CHOOSE t \in ts : \A u \in ts : u <= t

DatesOf(ids) == {date[i] : i \in ids} \ {NoTime}

(* Entries of b join the end of seen_ids in the order of b; one that is already
   there keeps its place. *)
Remember(st, ids, b) ==
  LET new == ids \ st.seen
  IN [st EXCEPT !.seen  = @ \cup new,
                !.older = @ \cup (st.seen \X new)
                            \cup {p \in new \X new : Precedes(b, p[1], p[2])}]

(* The watermark to compare with: the stored one, or for a file of the first
   versions the latest of the known entries still shown and of its own date. *)
Baseline(st, ids, mtime) ==
  IF st.newest = NoTime /\ st.legacy
  THEN Latest(DatesOf(ids \cap st.seen) \cup ({mtime} \ {NoTime}))
  ELSE st.newest

(* Slip: a pending entry may become an old one. *)
PendingMayBeOld(st, i, baseline) ==
  /\ i \notin st.seen
  /\ date[i] # NoTime /\ baseline # NoTime
  /\ date[i] < baseline - Grace

(* An unknown entry, not pending, dated well before the watermark: absorbed silently. *)
IsOldBackfill(st, i, baseline) ==
  /\ i \notin st.seen \cup st.pending
  /\ date[i] # NoTime /\ baseline # NoTime
  /\ date[i] < baseline - Grace

(* Slip: an entry that is already pending is not tried again. *)
OnlyFreshCandidates(st, ids, baseline) ==
  {i \in ids : i \notin st.seen \cup st.pending /\ ~IsOldBackfill(st, i, baseline)}

(* The entries to notify: new ones, and pending ones shown again. *)
Candidates(st, ids, baseline) ==
  {i \in ids : i \notin st.seen /\ ~IsOldBackfill(st, i, baseline)}

(* The state after the classification of a batch, as it is saved. *)
Classified(st, b, baseline) ==
  LET ids == IdsOf(b)
      old == {i \in ids : IsOldBackfill(st, i, baseline)}
  IN [Remember(st, old, b) EXCEPT
        !.pending = (@ \ (old \cup (ids \cap st.seen))) \cup Candidates(st, ids, baseline),
        !.newest  = baseline,
        !.legacy  = FALSE]

(* reversed(candidates): the candidate the source lists last comes first. *)
IsNextCandidate(i) == i \in todo /\ \A j \in todo : ~Precedes(batch, i, j)

(* Slip: one identifier too few is forgotten. *)
OneTooFew(st, visible) ==
  LET excess == Cardinality(st.seen) - MaxSeen
      hidden == st.seen \ visible
  IN {i \in hidden : Cardinality({j \in hidden : <<j, i>> \in st.older}) < excess - 1}

(* The oldest identifiers in excess, never one the source still shows. *)
Forgettable(st, visible) ==
  LET excess == Cardinality(st.seen) - MaxSeen
      hidden == st.seen \ visible
  IN {i \in hidden : Cardinality({j \in hidden : <<j, i>> \in st.older}) < excess}

Without(st, drop) ==
  [st EXCEPT !.seen  = @ \ drop,
             !.older = @ \cap ((st.seen \ drop) \X (st.seen \ drop))]

(* Slip: the toasted entry leaves pending without entering seen_ids. *)
MarkedNotPending(st, i) == [st EXCEPT !.pending = @ \ {i}]

(* The entry enters seen_ids and leaves pending. *)
MarkedSeen(st, i) == [Remember(st, {i}, batch) EXCEPT !.pending = @ \ {i}]

-----------------------------------------------------------------------------
(* Initial states: no state file, a list of identifiers left by the first
   versions, or an object without a fingerprint. *)

(* FeedState() for a source never polled, or polled at another address. *)
EmptyState(s) == [seen |-> {}, older |-> {}, pending |-> {}, newest |-> NoTime,
                  source |-> s, legacy |-> FALSE]

OldFile(i, t, l) == [seen |-> {i}, older |-> {}, pending |-> {}, newest |-> t,
                     source |-> NoSource, legacy |-> l]

Idle == /\ pc' = "idle" /\ mem' = NoFile /\ batch' = <<>> /\ todo' = {}
        /\ fresh' = FALSE /\ outage' = FALSE

Init ==
  /\ date \in [Ids -> Dates]
  /\ config \in Snapshot
  /\ \/ disk = NoFile
     \/ \E i \in Ids : disk = OldFile(i, NoTime, TRUE)
     \/ \E i \in Ids, t \in Dates : disk = OldFile(i, t, FALSE)
  /\ pc = "idle" /\ feed = config /\ mem = NoFile /\ batch = <<>> /\ todo = {}
  /\ fresh = FALSE /\ outage = FALSE /\ faults = 0
  /\ hist = [primed |-> IF disk = NoFile THEN {} ELSE disk.seen, pended |-> {}, shown |-> {},
             rejected |-> {}, unmarked |-> {}]

(* Slip: only the memory changes. *)
SaveLater(st) == mem' = st /\ disk' = disk

(* save_feed_state: what memory holds becomes the file, atomically. *)
Save(st) == mem' = st /\ disk' = st

(* The user saves the settings while the source is followed. *)
EditConfig ==
  /\ config' \in Snapshot \ {config}
  /\ UNCHANGED <<date, disk, pc, feed, fresh, mem, batch, todo, outage, faults, hist>>

(* poll_loop calls poll_feed with its snapshot of the configuration; the state
   file is loaded and its fingerprint compared. *)
Load ==
  /\ pc = "idle"
  /\ LET changed == disk # NoFile /\ disk.source \notin {NoSource, config.source}
     IN /\ fresh' = (disk = NoFile \/ changed)
        /\ mem' = IF disk = NoFile \/ changed THEN EmptyState(config.source)
                  ELSE [disk EXCEPT !.source = config.source]
  /\ feed' = config
  /\ pc' = "fetch"
  /\ UNCHANGED <<date, config, disk, batch, todo, outage, faults, hist>>

(* Slip: only the watermark of the first batch is kept. *)
PrimeWatermarkOnly ==
  /\ pc = "fetch" /\ fresh
  /\ \E b \in Batches :
       /\ disk' = [mem EXCEPT !.newest = Latest(DatesOf(IdsOf(b)))]
       /\ hist' = [primed |-> IdsOf(b), pended |-> {}, shown |-> {}, rejected |-> {},
                   unmarked |-> {}]
  /\ Idle
  /\ UNCHANGED <<date, config, feed, faults>>

(* First run or changed source: everything shown is known, nothing is toasted. *)
Prime ==
  /\ pc = "fetch" /\ fresh
  /\ \E b \in Batches :
       /\ disk' = [Remember(mem, IdsOf(b), b) EXCEPT !.newest = Latest(DatesOf(IdsOf(b)))]
       /\ hist' = [primed |-> IdsOf(b), pended |-> {}, shown |-> {}, rejected |-> {},
                   unmarked |-> {}]
  /\ Idle
  /\ UNCHANGED <<date, config, feed, faults>>

(* A later cycle: the batch is sorted into known, old and candidate entries, and
   the candidates are saved as pending before any of them is toasted. *)
Classify ==
  /\ pc = "fetch" /\ ~fresh
  /\ \E b \in Batches, mtime \in Dates :
       LET baseline == Baseline(mem, IdsOf(b), mtime)
       IN /\ ~mem.legacy => mtime = NoTime
          /\ batch' = b
          /\ todo' = Candidates(mem, IdsOf(b), baseline)
          /\ Save(Classified(mem, b, baseline))
          /\ hist' = [hist EXCEPT !.pended = @ \cup todo']
  /\ pc' = "deliver"
  /\ UNCHANGED <<date, config, feed, fresh, outage, faults>>

(* The filter finds the entry irrelevant; the first outage of a cycle silences it. *)
Reject(i) ==
  /\ pc = "deliver" /\ IsNextCandidate(i)
  /\ feed.rule /\ ~outage
  /\ Save(MarkedSeen(mem, i))
  /\ todo' = todo \ {i}
  /\ hist' = [hist EXCEPT !.rejected = @ \cup {i}]
  /\ UNCHANGED <<date, config, pc, feed, fresh, batch, outage, faults>>

(* No filter, a favourable verdict or no verdict at all: the entry is toasted. *)
Judged == outage' \in {outage} \cup (IF feed.rule THEN {TRUE} ELSE {})

Toast(i) ==
  /\ pc = "deliver" /\ IsNextCandidate(i)
  /\ Judged
  /\ hist' = [hist EXCEPT !.shown = @ \cup {i}, !.unmarked = @ \ {i}]
  /\ pc' = "mark"
  /\ UNCHANGED <<date, config, disk, feed, fresh, mem, batch, todo, faults>>

(* The backend refuses: the entry stays pending, the next one is tried. *)
ToastFails(i) ==
  /\ pc = "deliver" /\ IsNextCandidate(i)
  /\ faults < MaxFaults /\ faults' = faults + 1
  /\ Judged
  /\ todo' = todo \ {i}
  /\ UNCHANGED <<date, config, disk, pc, feed, fresh, mem, batch, hist>>

MarkSeen(i) ==
  /\ pc = "mark" /\ IsNextCandidate(i)
  /\ Save(MarkedSeen(mem, i))
  /\ todo' = todo \ {i}
  /\ pc' = "deliver"
  /\ UNCHANGED <<date, config, feed, fresh, batch, outage, faults, hist>>

(* Slip: the watermark is that of the batch, older or not. *)
WatermarkFollowsBatch ==
  /\ pc = "deliver" /\ todo = {}
  /\ Save([mem EXCEPT !.newest = IF DatesOf(Shown) = {} THEN @ ELSE Latest(DatesOf(Shown))])
  /\ pc' = "forget"
  /\ UNCHANGED <<date, config, feed, fresh, batch, todo, outage, faults, hist>>

(* No candidate left: the watermark moves up to the newest date of the batch. *)
AdvanceWatermark ==
  /\ pc = "deliver" /\ todo = {}
  /\ Save([mem EXCEPT !.newest = Latest(({@} \ {NoTime}) \cup DatesOf(Shown))])
  /\ pc' = "forget"
  /\ UNCHANGED <<date, config, feed, fresh, batch, todo, outage, faults, hist>>

ForgetOldest ==
  /\ pc = "forget"
  /\ LET drop == Forgettable(mem, Shown)
     IN /\ disk' = Without(mem, drop)
        /\ hist' = [hist EXCEPT !.primed = @ \ drop, !.pended = @ \ drop, !.shown = @ \ drop,
                                !.rejected = @ \ drop, !.unmarked = @ \ drop]
  /\ Idle
  /\ UNCHANGED <<date, config, feed, faults>>

(* The fetch or a save raises, or the process dies: the cycle is over and only
   the file survives.  After a toast, its mark is lost. *)
CycleLost ==
  /\ pc # "idle"
  /\ faults < MaxFaults /\ faults' = faults + 1
  /\ hist' = [hist EXCEPT !.unmarked =
                @ \cup IF pc = "mark" THEN {i \in todo : IsNextCandidate(i)} ELSE {}]
  /\ Idle
  /\ UNCHANGED <<date, config, disk, feed>>

Poll == \/ Load \/ Prime \/ Classify \/ AdvanceWatermark \/ ForgetOldest
        \/ \E i \in Ids : Reject(i) \/ Toast(i) \/ MarkSeen(i)

Fault == CycleLost \/ \E i \in Ids : ToastFails(i)

Next == Poll \/ Fault \/ EditConfig

Spec == Init /\ [][Next]_vars

(* The polling thread never stops by itself: poll_loop catches everything. *)
FairSpec == Spec /\ WF_vars(Poll)

-----------------------------------------------------------------------------
(* Every variable keeps its type: in particular the file is always a complete
   state, whatever step the process died at. *)
TypeOK ==
  /\ date \in [Ids -> Dates]
  /\ config \in Snapshot
  /\ disk \in FeedState \cup {NoFile}
  /\ pc \in {"idle", "fetch", "deliver", "mark", "forget"}
  /\ feed \in Snapshot
  /\ fresh \in BOOLEAN
  /\ mem \in FeedState \cup {NoFile}
  /\ batch \in Batches
  /\ todo \subseteq Ids
  /\ outage \in BOOLEAN
  /\ faults \in 0..MaxFaults
  /\ hist \in History

OnDisk == disk # NoFile

(* An entry that once reached the file as pending leaves it only toasted or
   refused by the filter: neither the advance of the watermark, nor a failed
   toast, nor a crash turns it into a silently absorbed old entry (the comment
   above the pending loop of poll_feed). *)
PendingIsNeverLost ==
  OnDisk => hist.pended \subseteq disk.pending \cup hist.shown \cup hist.rejected

(* No entry is toasted a second time unless the process died, or the save
   failed, between its toast and its mark. *)
NoRepeatWithoutLostMark ==
  pc = "deliver" => todo \cap hist.shown \subseteq hist.unmarked

(* What a source showed when it was primed (first run, changed URL or provider,
   migrated file) is never offered to the backend: no burst of old entries. *)
PrimedStaysSilent ==
  hist.primed \cap (todo \cup hist.shown) = {}

(* Candidates are in the file as pending before the first of them is toasted,
   and stay so until each one's own mark. *)
DurableBeforeToast ==
  pc \in {"deliver", "mark"} => OnDisk /\ todo \subseteq disk.pending \ disk.seen

(* The entry whose toast is on screen and whose mark is still to be saved. *)
Ringing == IF pc = "mark" THEN {i \in todo : IsNextCandidate(i)} ELSE {}

(* Why the four invariants above hold: memory and file differ only between the load
   and the first save, nothing is both seen and pending, and every toast is
   accounted for by the file, by a lost mark or by the running cycle. *)
Inductive ==
  /\ pc \in {"deliver", "mark", "forget"} => mem = disk
  /\ pc = "fetch" /\ ~fresh => OnDisk /\ mem.seen = disk.seen /\ mem.pending = disk.pending
  /\ pc = "fetch" /\ fresh => mem.seen = {} /\ mem.pending = {}
  /\ pc \notin {"deliver", "mark"} => todo = {}
  /\ todo \subseteq Shown
  /\ Ringing \subseteq hist.shown
  /\ IF OnDisk
     THEN /\ disk.seen \cap disk.pending = {}
          /\ hist.primed \subseteq disk.seen
          /\ hist.shown \subseteq disk.seen \cup hist.unmarked \cup Ringing
     ELSE hist.primed \cup hist.pended \cup hist.shown = {}
  /\ PendingIsNeverLost
  /\ PrimedStaysSilent
  /\ DurableBeforeToast

(* The poller keeps the ledger of NotificationLedger: the file is the ledger, and
   the bell rings from a toast to its mark. *)
Ledger == INSTANCE NotificationLedger WITH
  Silent <- NoFile,
  status <- [i \in Ids |-> IF ~OnDisk THEN "new"
                           ELSE IF i \in disk.seen THEN "known"
                           ELSE IF i \in disk.pending THEN "pending" ELSE "new"],
  bell   <- IF pc = "mark" THEN CHOOSE i \in todo : IsNextCandidate(i) ELSE NoFile

KeepsLedger == Ledger!Spec

(* The invariant of the poller: each variable keeps its type, the file being a complete
   state whatever step the process died at, and Inductive holds: an entry is on disk
   before it is toasted and is never lost, repeated or unearthed. *)
PollFeedInvariant == TypeOK /\ Inductive

(* Pruning keeps the bound and forgets nothing useful: what the source still shows,
   which would be toasted again at the next cycle, stays; a whole cycle leaves at most
   MAX_SEEN_IDS identifiers, unless the source shows more, and no fewer than that. *)
PruningIsExact ==
  [][ /\ OnDisk /\ ~fresh => disk.seen \cap Shown \subseteq disk'.seen
      /\ pc = "forget" /\ pc' = "idle" /\ faults' = faults =>
           /\ Cardinality(disk'.seen) <= MaxSeen \/ disk'.seen \subseteq Shown
           /\ disk'.seen # disk.seen => Cardinality(disk'.seen) >= MaxSeen ]_vars

(* The stored watermark of a source never moves back: an entry absorbed as old
   in one cycle could not have been a candidate in a later one. *)
WatermarkNeverMovesBack ==
  [][ OnDisk /\ disk.newest # NoTime /\ disk'.source \in {disk.source} \cup Sources
      /\ (disk.source # NoSource => disk'.source = disk.source)
      => disk'.newest # NoTime /\ disk'.newest >= disk.newest ]_vars

(* An entry the source keeps showing does not stay pending for ever, whatever the
   filter answers: an outage of the filter delays nothing. *)
ShownEntriesAreDelivered ==
  \A i \in Ids : []<>(i \in Shown) => []<>(OnDisk /\ i \notin disk.pending)
=============================================================================
