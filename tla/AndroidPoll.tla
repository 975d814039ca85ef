----------------------------- MODULE AndroidPoll -----------------------------
(***************************************************************************)
(* One source of the Android application: PollEngine.poll and deliver over *)
(* the Store document and Models.PollState, while the screens edit, pause, *)
(* delete and import sources.                                              *)
(*                                                                         *)
(* POLL_LOCK leaves one polling thread; a poll that finds it taken changes *)
(* nothing.  The Store lock is held for one step, except from the check    *)
(* before an alert to the save after it (pc "send" and "mark"), where only *)
(* a crash can fall.  Network calls hold no lock.                          *)
(***************************************************************************)
EXTENDS Integers, FiniteSets, Sequences

CONSTANTS Ids,        \* identifiers of the entries
          Sources,    \* fingerprints (hash of kind and url)
          Rules,      \* non-empty AI filter rules
          Times,      \* creation dates
          NoRule,     \* an empty rule, no cached decision
          Nothing,    \* no feed under the key, no state under the key
          Grace,      \* the five minutes of PollState.merge
          MaxSeen,    \* MAX_SEEN
          MaxHistory, \* 200
          MaxEdits,   \* bound: number of edits on the screens
          MaxFaults   \* bound: number of faults (crash, failed save, refusal, interruption)

ASSUME AndroidPollAssumption ==
  /\ IsFiniteSet(Ids)
  /\ Times \subseteq Nat \ {0}
  /\ NoRule \notin Rules
  /\ {Grace, MaxEdits, MaxFaults} \subseteq Nat
  /\ {MaxSeen, MaxHistory} \subseteq Nat \ {0}

Feeds == [source : Sources, rule : Rules \cup {NoRule}, enabled : BOOLEAN]

(* PollState; "older" is the insertion order of the LinkedHashSet seen, decided the
   rule under which an entry was found relevant, 0 stands for no date. *)
PollState == [fingerprint : Sources,
              initialized : BOOLEAN,
              seen        : SUBSET Ids,
              older       : SUBSET (Ids \X Ids),
              pending     : SUBSET Ids,
              decided     : [Ids -> Rules \cup {NoRule}],
              watermark   : Times \cup {0}]

ASSUME NothingAssumption == Nothing \notin PollState /\ Nothing \notin Feeds

Verdicts == {"none", "relevant", "irrelevant"}

(* What the entries lived through under the present state, for the properties only. *)
Lives == [primed : SUBSET Ids, pended : SUBSET Ids, shown : SUBSET Ids,
          filtered : SUBSET Ids, unmarked : SUBSET Ids]

Unlived == [primed |-> {}, pended |-> {}, shown |-> {}, filtered |-> {}, unmarked |-> {}]

Batches == UNION {{b \in [1..n -> Ids] : \A j, k \in 1..n : b[j] = b[k] => j = k} :
                    n \in 0..Cardinality(Ids)}

VARIABLES
  date,     \* the date of each entry
  feed,     \* the feed stored under the key
  paused,   \* the pause flag
  stored,   \* the PollState stored under the key
  history,  \* the history document, newest first
  pc,       \* where the polling thread stands
  manual,   \* the poll was asked for on the screen
  snap,     \* the feed as the poll copied it
  again,    \* deliver runs a second time, after a failure
  todo,     \* copied pending entries not handled yet
  item,     \* the entry being handled
  rule,     \* the rule it is judged under
  verdict,  \* the verdict obtained for it
  edits, faults, lives

durable == <<feed, paused, stored, history>>
volatile == <<pc, manual, snap, again, todo, item, rule, verdict>>
bounds == <<edits, faults>>
vars == <<date, durable, volatile, bounds, lives>>

-----------------------------------------------------------------------------
(* Models.PollState *)

EmptyState(s) == [fingerprint |-> s, initialized |-> FALSE, seen |-> {}, older |-> {}, pending |-> {},
                  decided |-> [i \in Ids |-> NoRule], watermark |-> 0]

(* Store.state(feed): a state kept for another address does not count. *)
StateOf(f) ==
  IF stored # Nothing /\ stored.fingerprint = f.source THEN stored ELSE EmptyState(f.source)

IdsOf(b) == {b[k] : k \in DOMAIN b}

Precedes(b, i, j) == \E m, n \in DOMAIN b : m < n /\ b[m] = i /\ b[n] = j

Newest(ts) == CHOOSE t \in ts : \A u \in ts : u <= t

(* The identifiers trim drops: the oldest in excess, shown by the source or not. *)
Excess(st) ==
  {i \in st.seen : Cardinality({j \in st.seen : <<j, i>> \in st.older}) < Cardinality(st.seen) - MaxSeen}

Trimmed(st) ==
  LET kept == st.seen \ Excess(st)
  IN [st EXCEPT !.seen = kept, !.older = @ \cap (kept \X kept)]

(* Slip: an old pending entry is remembered as well. *)
UnknownToSeen(st, b) == IdsOf(b) \ st.seen

Unknown(st, b) == IdsOf(b) \ (st.seen \cup st.pending)

(* merge: the first entries are a silent reference; later, entries older than the
   watermark are absorbed and the others wait for their alert. *)
Absorbed(st, b) ==
  {i \in Unknown(st, b) : \/ ~st.initialized
                          \/ date[i] > 0 /\ st.watermark > 0 /\ date[i] < st.watermark - Grace}

Merged(st, b) ==
  LET old == Absorbed(st, b)
  IN [st EXCEPT !.seen        = @ \cup old,
                !.older       = @ \cup (st.seen \X old) \cup {p \in old \X old : Precedes(b, p[1], p[2])},
                !.pending     = (@ \cup Unknown(st, b)) \ old,
                !.initialized = TRUE,
                !.watermark   = Newest({@} \cup {date[i] : i \in IdsOf(b)})]

(* Slip: the identifier is not remembered. *)
DeliveredUnseen(st, i) == [st EXCEPT !.pending = @ \ {i}, !.decided[i] = NoRule]

(* PollState.delivered, before its trim. *)
Delivered(st, i) ==
  [st EXCEPT !.pending = @ \ {i}, !.decided[i] = NoRule,
             !.seen = @ \cup {i}, !.older = @ \cup ((st.seen \ {i}) \X {i})]

(* The lines kept by a filter of the history, in their order; SelectSeq says the same and
   cannot be proved about. *)
Lines(kept) ==
  [n \in 1..Cardinality(kept) |->
     history[CHOOSE k \in kept : Cardinality({j \in kept : j < k}) = n - 1]]

(* The new line on top, the line of an earlier alert of the same entry removed. *)
HistoryWith(i) ==
  LET rows == <<i>> \o Lines({k \in DOMAIN history : history[k] # i})
  IN SubSeq(rows, 1, IF Len(rows) < MaxHistory THEN Len(rows) ELSE MaxHistory)

-----------------------------------------------------------------------------
Init ==
  /\ date \in [Ids -> Times \cup {0}]
  /\ feed \in Feeds /\ paused \in BOOLEAN
  /\ stored = Nothing /\ history = <<>>
  /\ pc = "idle" /\ manual = FALSE /\ snap = Nothing /\ again = FALSE
  /\ todo = {} /\ item = Nothing /\ rule = NoRule /\ verdict = "none"
  /\ edits = 0 /\ faults = 0 /\ lives = Unlived

(* Store.current *)
Current == feed # Nothing /\ feed.enabled /\ feed.source = snap.source /\ (manual \/ ~paused)

(* The next source, or the end of the poll: nothing of it survives in memory. *)
Leave ==
  /\ pc' = "idle" /\ manual' = FALSE /\ snap' = Nothing /\ again' = FALSE
  /\ todo' = {} /\ item' = Nothing /\ rule' = NoRule /\ verdict' = "none"

ToPick == pc' = "pick" /\ item' = Nothing /\ rule' = NoRule /\ verdict' = "none"

(* The state that is saved, and what trim made it forget. *)
Save(st, lived) ==
  LET gone == Excess(st)
  IN /\ stored' = Trimmed(st)
     /\ lives' = [x \in DOMAIN lived |-> lived[x] \ gone]

(* poll: the feeds are copied, from the screen or by the service and the worker.  A
   poll that finds this source not due does nothing to it and is not shown. *)
StartPoll(m) ==
  /\ pc = "idle" /\ feed # Nothing
  /\ m \/ ~paused
  /\ pc' = "check" /\ manual' = m /\ snap' = feed
  /\ UNCHANGED <<date, durable, again, todo, item, rule, verdict, bounds, lives>>

(* Its turn comes, minutes later perhaps: is it still the same source? *)
Check ==
  /\ pc = "check"
  /\ \/ Current /\ pc' = "fetch" /\ UNCHANGED <<manual, snap, again, todo, item, rule, verdict>>
     \/ ~Current /\ Leave
  /\ UNCHANGED <<date, durable, bounds, lives>>

(* Slip: what the request brought is merged without looking at the feed again. *)
FetchedUnchecked ==
  /\ pc = "fetch"
  /\ \E b \in Batches :
       LET st == StateOf(snap)
           new == Merged(st, b)
       IN Save(new, [lives EXCEPT !.primed = IF st.initialized THEN @ ELSE IdsOf(b),
                                  !.pended = @ \cup new.pending])
  /\ pc' = "list"
  /\ UNCHANGED <<date, feed, paused, history, manual, snap, again, todo, item, rule, verdict, bounds>>

(* Slip: a merge starts without the verdicts already paid for. *)
FetchedUndecided ==
  /\ pc = "fetch" /\ Current
  /\ \E b \in Batches :
       LET st == StateOf(snap)
           new == [Merged(st, b) EXCEPT !.decided = EmptyState(snap.source).decided]
       IN Save(new, [lives EXCEPT !.primed = IF st.initialized THEN @ ELSE IdsOf(b),
                                  !.pended = @ \cup new.pending])
  /\ pc' = "list"
  /\ UNCHANGED <<date, feed, paused, history, manual, snap, again, todo, item, rule, verdict, bounds>>

(* The source answered. *)
Fetched ==
  /\ pc = "fetch"
  /\ \/ /\ Current
        /\ \E b \in Batches :
             LET st == StateOf(snap)
                 new == Merged(st, b)
             IN Save(new, [lives EXCEPT !.primed = IF st.initialized THEN @ ELSE IdsOf(b),
                                        !.pended = @ \cup new.pending])
        /\ pc' = "list"
        /\ UNCHANGED <<manual, snap, again, todo, item, rule, verdict>>
     \/ ~Current /\ Leave /\ UNCHANGED <<stored, lives>>
  /\ UNCHANGED <<date, feed, paused, history, bounds>>

(* It did not. *)
FetchFails ==
  /\ pc = "fetch" /\ pc' = "failed"
  /\ UNCHANGED <<date, durable, manual, snap, again, todo, item, rule, verdict, bounds, lives>>

(* Slip: a source that fails is left for the next poll. *)
FailedOnly ==
  /\ pc = "failed"
  /\ Leave
  /\ stored' = IF Current THEN StateOf(snap) ELSE stored
  /\ UNCHANGED <<date, feed, paused, history, bounds, lives>>

(* catch: the error is saved if it can be, then what was pending is delivered. *)
Failed ==
  /\ pc = "failed"
  /\ \/ /\ Current
        /\ stored' \in {StateOf(snap), stored}
        /\ stored' # StateOf(snap) => faults < MaxFaults
        /\ faults' = IF stored' # StateOf(snap) THEN faults + 1 ELSE faults
        /\ pc' = "list" /\ again' = TRUE
        /\ todo' = {} /\ item' = Nothing /\ rule' = NoRule /\ verdict' = "none"
        /\ UNCHANGED <<manual, snap>>
     \/ ~Current /\ Leave /\ UNCHANGED <<stored, faults>>
  /\ UNCHANGED <<date, feed, paused, history, edits, lives>>

-----------------------------------------------------------------------------
(* deliver *)

List ==
  /\ pc = "list"
  /\ todo' = StateOf(snap).pending
  /\ pc' = "pick"
  /\ UNCHANGED <<date, durable, manual, snap, again, item, rule, verdict, bounds, lives>>

(* The verdicts a rule may give: the cached one, or Claude's, or none. *)
Judgements(i) ==
  IF feed.rule = NoRule THEN {"none"}
  ELSE IF StateOf(snap).decided[i] = feed.rule THEN {"relevant"} ELSE Verdicts

(* The next entry is judged under the rule of this moment, without the lock.  The
   order is left open; no property depends on it. *)
Pick(i) ==
  /\ pc = "pick" /\ i \in todo
  /\ Current
  /\ pc' = "commit" /\ item' = i /\ rule' = feed.rule
  /\ verdict' \in Judgements(i)
  /\ UNCHANGED <<date, durable, manual, snap, again, todo, bounds, lives>>

(* The list is empty, or the source is no longer current. *)
Done ==
  /\ pc = "pick"
  /\ todo = {} \/ ~Current
  /\ Leave
  /\ UNCHANGED <<date, durable, bounds, lives>>

(* Slip: the pause, the deletion or the edit made during the judgement is ignored. *)
StillCurrent == feed # Nothing

(* Slip: the copied list is trusted. *)
CurrentIsEnough == Current /\ feed.rule = rule

(* The entry is skipped when its rule changed or when it is no longer pending. *)
StillWanted == Current /\ feed.rule = rule /\ item \in StateOf(snap).pending

Skip ==
  /\ pc = "commit" /\ ~StillWanted
  /\ IF Current THEN ToPick /\ todo' = todo \ {item} /\ UNCHANGED <<manual, snap, again>>
     ELSE Leave
  /\ UNCHANGED <<date, durable, bounds, lives>>

(* An irrelevant entry is remembered without an alert. *)
Hide ==
  /\ pc = "commit" /\ StillWanted /\ verdict = "irrelevant"
  /\ Save(Delivered(StateOf(snap), item), [lives EXCEPT !.filtered = @ \cup {item}])
  /\ ToPick /\ todo' = todo \ {item}
  /\ UNCHANGED <<date, feed, paused, history, manual, snap, again, bounds>>

(* A relevant verdict is saved before the alert, so that it is not paid for twice. *)
Decide ==
  /\ pc = "commit" /\ StillWanted /\ verdict # "irrelevant"
  /\ stored' = IF verdict = "relevant" THEN [StateOf(snap) EXCEPT !.decided[item] = rule] ELSE stored
  /\ pc' = "send"
  /\ UNCHANGED <<date, feed, paused, history, manual, snap, again, todo, item, rule, verdict, bounds, lives>>

Send ==
  /\ pc = "send"
  /\ lives' = [lives EXCEPT !.shown = @ \cup {item}, !.unmarked = @ \ {item}]
  /\ pc' = "mark"
  /\ UNCHANGED <<date, durable, manual, snap, again, todo, item, rule, verdict, bounds>>

(* Android refuses the alert: the entry stays pending. *)
SendRefused ==
  /\ pc = "send" /\ faults < MaxFaults /\ faults' = faults + 1
  /\ ToPick /\ todo' = todo \ {item}
  /\ UNCHANGED <<date, durable, manual, snap, again, edits, lives>>

(* Store.delivered: the state and the history are one document, saved at once. *)
Mark ==
  /\ pc = "mark"
  /\ Save(Delivered(StateOf(snap), item), lives)
  /\ history' = HistoryWith(item)
  /\ ToPick /\ todo' = todo \ {item}
  /\ UNCHANGED <<date, feed, paused, manual, snap, again, bounds>>

-----------------------------------------------------------------------------
(* Faults *)

(* An alert whose mark will not be written. *)
LoseMark == lives' = IF pc = "mark" THEN [lives EXCEPT !.unmarked = @ \cup {item}] ELSE lives

(* A save raises: the source has failed; in the second delivery nothing is left to try. *)
SaveFails ==
  /\ pc \in {"fetch", "commit", "mark"}
  /\ pc = "fetch" => Current
  /\ pc = "commit" => StillWanted /\ verdict # "none"
  /\ faults < MaxFaults /\ faults' = faults + 1
  /\ LoseMark
  /\ IF again THEN Leave
     ELSE pc' = "failed" /\ UNCHANGED <<manual, snap, again, todo, item, rule, verdict>>
  /\ UNCHANGED <<date, durable, edits>>

(* The eight minutes are over, the worker is stopped, notifications are off. *)
Interrupted ==
  /\ pc = "pick" /\ todo # {} /\ faults < MaxFaults /\ faults' = faults + 1
  /\ Leave
  /\ UNCHANGED <<date, durable, edits, lives>>

(* Android kills the process; the document on disk is the last one saved. *)
Killed ==
  /\ pc # "idle" /\ faults < MaxFaults /\ faults' = faults + 1
  /\ LoseMark /\ Leave
  /\ UNCHANGED <<date, durable, edits>>

-----------------------------------------------------------------------------
(* The screens.  Each operation takes the Store lock. *)

Edit == pc \notin {"send", "mark"} /\ edits < MaxEdits /\ edits' = edits + 1

Forget == stored' = Nothing /\ lives' = Unlived

(* Store.putFeed: a new feed, a new address or kind, another rule, a switch. *)
PutFeed(f) ==
  /\ Edit /\ f # feed
  /\ feed' = f
  /\ IF feed # Nothing /\ feed.source # f.source THEN Forget ELSE UNCHANGED <<stored, lives>>
  /\ UNCHANGED <<date, paused, history, volatile, faults>>

(* Store.deleteFeed, and replaceFeeds for a feed it does not keep: an imported feed
   has a new key.  A dialog opened before may still put the feed back. *)
RemoveFeed ==
  /\ Edit /\ feed # Nothing
  /\ feed' = Nothing /\ Forget
  /\ UNCHANGED <<date, paused, history, volatile, faults>>

SetPaused ==
  /\ Edit
  /\ paused' = ~paused
  /\ UNCHANGED <<date, feed, stored, history, volatile, faults, lives>>

ClearHistory ==
  /\ Edit /\ history # <<>>
  /\ history' = <<>>
  /\ UNCHANGED <<date, feed, paused, stored, volatile, faults, lives>>

(* The first line of the entry, wherever it stands by now. *)
RemoveHistory(i) ==
  /\ Edit
  /\ \E k \in DOMAIN history :
       /\ history[k] = i /\ \A j \in 1..(k - 1) : history[j] # i
       /\ history' = Lines(DOMAIN history \ {k})
  /\ UNCHANGED <<date, feed, paused, stored, volatile, faults, lives>>

-----------------------------------------------------------------------------
Deliver == List \/ Done \/ Skip \/ Hide \/ Decide \/ Send \/ Mark \/ \E i \in Ids : Pick(i)

Poll == StartPoll(FALSE) \/ Check \/ Fetched \/ FetchFails \/ Failed \/ Deliver

Fault == SendRefused \/ SaveFails \/ Interrupted \/ Killed

Screen == \/ RemoveFeed \/ SetPaused \/ ClearHistory
          \/ \E f \in Feeds : PutFeed(f)
          \/ \E i \in Ids : RemoveHistory(i)

Next == Poll \/ StartPoll(TRUE) \/ Fault \/ Screen

Spec == Init /\ [][Next]_vars

(* The worker is periodic and a poll runs to its end; the network has timeouts. *)
FairSpec == Spec /\ WF_vars(Poll)

-----------------------------------------------------------------------------
(* Every variable keeps its type. *)
TypeOK ==
  /\ date \in [Ids -> Times \cup {0}]
  /\ feed \in Feeds \cup {Nothing}
  /\ paused \in BOOLEAN
  /\ stored \in PollState \cup {Nothing}
  /\ history \in Seq(Ids) /\ Len(history) <= MaxHistory
  /\ pc \in {"idle", "check", "fetch", "failed", "list", "pick", "commit", "send", "mark"}
  /\ manual \in BOOLEAN
  /\ snap \in Feeds \cup {Nothing}
  /\ again \in BOOLEAN
  /\ todo \subseteq Ids
  /\ item \in Ids \cup {Nothing}
  /\ rule \in Rules \cup {NoRule}
  /\ verdict \in Verdicts
  /\ edits \in 0..MaxEdits
  /\ faults \in 0..MaxFaults
  /\ lives \in Lives

HasState == stored # Nothing

(* The state kept under a key is that of the address the key has now: a request
   that was on its way when the source was edited or deleted writes nothing. *)
StateBelongsToFeed == HasState => feed # Nothing /\ stored.fingerprint = feed.source

(* An entry that once was pending is alerted or filtered before it leaves the
   state, whatever the source shows afterwards ("restent en attente, y compris si
   elles disparaissent ensuite", android/README.md). *)
PendingIsNeverLost ==
  HasState => lives.pended \subseteq stored.pending \cup lives.shown \cup lives.filtered

(* The reference of a new source is silent, even when the source was deleted and
   added again, or edited twice, during a delivery. *)
PrimedStaysSilent == lives.primed \cap (lives.shown \cup lives.filtered) = {}

(* A second alert for the same entry needs a first one whose mark was lost. *)
NoRepeatWithoutLostMark == pc = "send" /\ item \in lives.shown => item \in lives.unmarked

(* Nothing is both remembered and pending (PollState.fromJson drops a pending entry
   that is also seen), a cached verdict belongs to an entry that waits, and the history
   has one line per entry. *)
DocumentIsConsistent ==
  /\ HasState => /\ stored.seen \cap stored.pending = {}
                 /\ \A i \in Ids : stored.decided[i] # NoRule => i \in stored.pending
  /\ \A j, k \in DOMAIN history : history[j] = history[k] => j = k

(* The document: types, the address behind a key, and the consistency that
   PollState.fromJson expects of what was saved. *)
DocumentInvariant == TypeOK /\ StateBelongsToFeed /\ DocumentIsConsistent

(* An alert leaves only for an enabled source of the same address, outside a pause
   unless it was asked for by hand, and no entry is hidden by a rule the user has
   replaced or removed: pause, deletion and edit take effect at once. *)
DecisionsAreCurrent ==
  [][ /\ pc = "send" /\ pc' = "mark" => feed # Nothing /\ feed.enabled /\ feed.source = snap.source
                                        /\ (manual \/ ~paused)
      /\ lives'.filtered \ lives.filtered # {} => feed # Nothing /\ feed.rule = rule /\ rule # NoRule ]_vars

(* A positive verdict is kept while its entry waits: the same sorting is not paid
   for again (android/README.md). *)
VerdictIsKept ==
  [][ HasState /\ stored' # Nothing =>
        \A i \in stored.pending \cap stored'.pending :
          stored.decided[i] # NoRule => stored'.decided[i] \in {stored.decided[i], rule} \ {NoRule} ]_vars

(* The phone keeps the ledger of NotificationLedger, as the desktop does: the document is
   the ledger, and the bell rings from an alert to its mark. *)
Ledger == INSTANCE NotificationLedger WITH
  Silent <- Nothing,
  status <- [i \in Ids |-> IF stored = Nothing THEN "new"
                           ELSE IF i \in stored.seen THEN "known"
                           ELSE IF i \in stored.pending THEN "pending" ELSE "new"],
  bell   <- IF pc = "mark" THEN item ELSE Nothing

KeepsLedger == Ledger!Spec

Active == feed # Nothing /\ feed.enabled /\ ~paused

(* A pending entry is handled even when its source never answers again ("Previously
   fetched pending items remain deliverable even when the source is now offline"). *)
PendingIsDelivered ==
  \A i \in Ids : (HasState /\ i \in stored.pending) ~> (~HasState \/ i \notin stored.pending \/ ~Active)
=============================================================================
