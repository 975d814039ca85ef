-------------------------- MODULE AndroidPollProofs --------------------------
(***************************************************************************)
(* Proofs about AndroidPoll, for every set of entries, addresses, rules    *)
(* and dates and every value of the bounds: the document stays complete    *)
(* and consistent, no entry is lost, repeated or unearthed, and a decision *)
(* is taken under the settings of its moment, whatever the screens do in   *)
(* the meantime and wherever a save fails or the process dies.             *)
(***************************************************************************)
EXTENDS AndroidPoll, FiniteSetTheorems, TLAPS

(* In a finite set of numbers, one has exactly n - 1 below it, for each n up to the size
   of the set. *)
LEMMA NthNumber ==
  ASSUME NEW S \in SUBSET Nat, IsFiniteSet(S), NEW n \in 1..Cardinality(S)
  PROVE  \E k \in S : Cardinality({j \in S : j < k}) = n - 1
<1> DEFINE m == Cardinality(S)
           below(i) == {j \in S : j < i}
           f == [i \in S |-> Cardinality(below(i))]
<1>1. m \in Nat
  BY FS_CardinalityType
<1>2. \A i \in S : /\ below(i) \in SUBSET S /\ IsFiniteSet(below(i))
                   /\ f[i] = Cardinality(below(i)) /\ f[i] \in Nat /\ f[i] < m
  <2> TAKE i \in S
  <2>1. below(i) \in SUBSET S /\ i \notin below(i)
    OBVIOUS
  <2>2. IsFiniteSet(below(i)) /\ Cardinality(below(i)) <= m /\ Cardinality(below(i)) # m
    BY <2>1, FS_Subset
  <2>3. Cardinality(below(i)) \in Nat
    BY <2>2, FS_CardinalityType
  <2>4. f[i] = Cardinality(below(i))
    OBVIOUS
  <2> HIDE DEF below, f, m
  <2> QED BY <1>1, <2>1, <2>2, <2>3, <2>4
<1>r. \A i \in S : f[i] \in Nat /\ f[i] < m
  <2> HIDE DEF f, m, below
  <2> QED BY <1>2
<1>3. ASSUME NEW i \in S, NEW j \in S, i < j PROVE f[i] < f[j]
  <2>0. i \in Nat /\ j \in Nat /\ \A x \in S : x \in Nat
    OBVIOUS
  <2>1. below(i) \subseteq below(j)
    <3>1. \A x \in S : x < i => x < j
      BY <1>3, <2>0
    <3> QED BY <3>1
  <2>4. i \in below(j) /\ i \notin below(i)
    BY <1>3, <2>0
  <2>2. Cardinality(below(i)) <= Cardinality(below(j)) /\ Cardinality(below(i)) # Cardinality(below(j))
    BY <1>2, <2>1, <2>4, FS_Subset
  <2>3. /\ f[i] = Cardinality(below(i)) /\ f[j] = Cardinality(below(j))
        /\ f[i] \in Nat /\ f[j] \in Nat
    BY <1>2
  <2> HIDE DEF below, f
  <2> QED BY <2>2, <2>3
<1>4. \A i, j \in S : f[i] = f[j] => i = j
  <2> SUFFICES ASSUME NEW i \in S, NEW j \in S, f[i] = f[j] PROVE i = j
    OBVIOUS
  <2> HIDE DEF f, m, below
  <2>1. ~(f[i] < f[j]) /\ ~(f[j] < f[i])
    BY <1>r
  <2> QED BY <1>3, <2>1
<1>5. f \in Injection(S, 0..(m - 1))
  <2>1. \A i \in S : f[i] \in 0..(m - 1)
    <3> HIDE DEF f, m, below
    <3> QED BY <1>1, <1>r
  <2> HIDE DEF below
  <2> QED BY <1>4, <2>1 DEF Injection, IsInjective
<1>6. f \in Surjection(S, 0..(m - 1))
  <2>1. IsFiniteSet(0..(m - 1)) /\ Cardinality(0..(m - 1)) = m
    <3> HIDE DEF m
    <3> QED BY <1>1, FS_Interval
  <2> HIDE DEF f
  <2> QED BY <1>5, <2>1, FS_Injection
<1>7. n - 1 \in 0..(m - 1)
  BY <1>1
<1>8. PICK k \in S : f[k] = n - 1
  <2> HIDE DEF f
  <2> QED BY <1>6, <1>7 DEF Surjection
<1> QED BY <1>8

(* The latest of finitely many dates. *)
LEMMA NewestOfFinite ==
  ASSUME NEW S \in SUBSET Nat, IsFiniteSet(S), S # {}
  PROVE  Newest(S) \in S
<1>1. Cardinality(S) \in Nat /\ Cardinality(S) # 0
  BY FS_CardinalityType, FS_EmptySet
<1>2. PICK k \in S : Cardinality({j \in S : j < k}) = Cardinality(S) - 1
  BY <1>1, NthNumber
<1>3. ASSUME NEW u \in S, u > k PROVE FALSE
  <2>1. {j \in S : j < k} \subseteq S \ {k, u}
    BY <1>3
  <2>2. IsFiniteSet(S \ {k}) /\ Cardinality(S \ {k}) = Cardinality(S) - 1
    BY FS_RemoveElement
  <2>3. IsFiniteSet((S \ {k}) \ {u}) /\ Cardinality((S \ {k}) \ {u}) = Cardinality(S) - 2
    <3>1. u \in S \ {k}
      BY <1>3
    <3>2. IsFiniteSet((S \ {k}) \ {u}) /\ Cardinality((S \ {k}) \ {u}) = Cardinality(S \ {k}) - 1
      BY <2>2, <3>1, FS_RemoveElement
    <3> QED BY <1>1, <2>2, <3>2
  <2>4. Cardinality({j \in S : j < k}) <= Cardinality((S \ {k}) \ {u})
    BY <2>1, <2>3, FS_Subset
  <2> QED BY <1>1, <1>2, <2>3, <2>4
<1>4. \E t \in S : \A u \in S : u <= t
  BY <1>3
<1> QED BY <1>4 DEF Newest

-----------------------------------------------------------------------------
(* The history.  Lines keeps lines and their order, invents none and repeats none. *)
OneLineEach(rows) == \A j, k \in DOMAIN rows : rows[j] = rows[k] => j = k

LEMMA LinesProperties ==
  ASSUME history \in Seq(Ids), OneLineEach(history), NEW kept \in SUBSET DOMAIN history
  PROVE  /\ Lines(kept) \in Seq(Ids) /\ Len(Lines(kept)) <= Len(history)
         /\ OneLineEach(Lines(kept))
         /\ \A n \in DOMAIN Lines(kept) : \E k \in kept : Lines(kept)[n] = history[k]
<1> DEFINE m == Cardinality(kept)
           rank(k) == Cardinality({j \in kept : j < k})
           place == [n \in 1..m |-> CHOOSE k \in kept : rank(k) = n - 1]
<1>1. DOMAIN history = 1..Len(history) /\ Len(history) \in Nat
  OBVIOUS
<1>2. IsFiniteSet(kept) /\ m \in Nat /\ m <= Len(history) /\ kept \in SUBSET Nat
  <2>1. IsFiniteSet(1..Len(history)) /\ Cardinality(1..Len(history)) = Len(history)
    <3>1. \A l \in Nat : IsFiniteSet(1..l) /\ Cardinality(1..l) = l
      BY FS_Interval
    <3> QED BY <1>1, <3>1
  <2>2. kept \in SUBSET Nat
    BY <1>1
  <2> QED BY <1>1, <2>1, <2>2, FS_Subset, FS_CardinalityType
<1>3. \A n \in 1..m : place[n] \in kept /\ rank(place[n]) = n - 1
  <2> TAKE n \in 1..m
  <2>1. \E k \in kept : rank(k) = n - 1
    BY <1>2, NthNumber
  <2> QED BY <2>1
<1>4. Lines(kept) = [n \in 1..m |-> history[place[n]]]
  BY DEF Lines
<1> HIDE DEF place, rank, m
<1>5. \A n \in 1..m : history[place[n]] \in Ids
  BY <1>1, <1>3
<1>6. Lines(kept) \in [1..m -> Ids]
  BY <1>4, <1>5
<1>7. Lines(kept) \in Seq(Ids) /\ Len(Lines(kept)) = m /\ DOMAIN Lines(kept) = 1..m
  BY <1>2, <1>6
<1>8. \A n \in 1..m : Lines(kept)[n] = history[place[n]] /\ place[n] \in DOMAIN history
  BY <1>3, <1>4
<1>9. OneLineEach(Lines(kept))
  <2> SUFFICES ASSUME NEW a \in 1..m, NEW c \in 1..m, Lines(kept)[a] = Lines(kept)[c]
               PROVE  a = c
    BY <1>7 DEF OneLineEach
  <2>1. place[a] = place[c]
    BY <1>8 DEF OneLineEach
  <2>2. a - 1 = c - 1
    BY <1>3, <2>1
  <2> QED BY <1>2, <2>2
<1> QED BY <1>2, <1>3, <1>7, <1>8, <1>9

LEMMA HistoryWithProperties ==
  ASSUME history \in Seq(Ids), OneLineEach(history), NEW i \in Ids
  PROVE  /\ HistoryWith(i) \in Seq(Ids) /\ Len(HistoryWith(i)) <= MaxHistory
         /\ OneLineEach(HistoryWith(i))
<1> DEFINE kept == {k \in DOMAIN history : history[k] # i}
           rest == Lines(kept)
           rows == <<i>> \o rest
           n == IF Len(rows) < MaxHistory THEN Len(rows) ELSE MaxHistory
<1>1. /\ rest \in Seq(Ids) /\ OneLineEach(rest)
      /\ \A k \in DOMAIN rest : rest[k] # i
  <2>1. kept \in SUBSET DOMAIN history
    OBVIOUS
  <2>2. /\ rest \in Seq(Ids) /\ OneLineEach(rest)
        /\ \A k \in DOMAIN rest : \E p \in kept : rest[k] = history[p]
    BY <2>1, LinesProperties
  <2> QED BY <2>2
<1> HIDE DEF rest
<1>2. /\ rows \in Seq(Ids) /\ Len(rows) = 1 + Len(rest) /\ Len(rest) \in Nat
      /\ rows[1] = i /\ \A k \in 2..Len(rows) : rows[k] = rest[k - 1]
  BY <1>1
<1>3. OneLineEach(rows)
  <2> SUFFICES ASSUME NEW a \in 1..Len(rows), NEW c \in 1..Len(rows), rows[a] = rows[c] PROVE a = c
    BY <1>2 DEF OneLineEach
  <2>1. \A k \in 2..Len(rows) : k - 1 \in DOMAIN rest /\ rows[k] = rest[k - 1] /\ rows[k] # i
    BY <1>1, <1>2
  <2>2. CASE a = 1 \/ c = 1
    BY <1>2, <2>1, <2>2
  <2>3. CASE a # 1 /\ c # 1
    <3>1. a \in 2..Len(rows) /\ c \in 2..Len(rows)
      BY <1>2, <2>3
    <3>2. a - 1 = c - 1
      BY <1>1, <2>1, <3>1 DEF OneLineEach
    <3> QED BY <1>2, <3>2
  <2> QED BY <2>2, <2>3
<1>4. n \in Nat /\ n <= Len(rows) /\ n <= MaxHistory
  BY <1>2, AndroidPollAssumption
<1> HIDE DEF rows, n
<1>5. /\ SubSeq(rows, 1, n) \in Seq(Ids) /\ Len(SubSeq(rows, 1, n)) = n
      /\ \A k \in 1..n : SubSeq(rows, 1, n)[k] = rows[k] /\ k \in DOMAIN rows
  BY <1>2, <1>4
<1>6. HistoryWith(i) = SubSeq(rows, 1, n)
  BY DEF HistoryWith, rows, n, rest
<1> QED BY <1>3, <1>4, <1>5, <1>6 DEF OneLineEach

-----------------------------------------------------------------------------
(* What the operations of PollState and Store.state return. *)
LEMMA EmptyStateType ==
  ASSUME NEW s \in Sources
  PROVE  EmptyState(s) \in PollState
BY DEF EmptyState, PollState

LEMMA BatchType ==
  ASSUME NEW b \in Batches
  PROVE  IdsOf(b) \in SUBSET Ids /\ IsFiniteSet(IdsOf(b))
<1>1. PICK n \in 0..Cardinality(Ids) : b \in [1..n -> Ids]
  BY DEF Batches
<1>2. IdsOf(b) \in SUBSET Ids
  BY <1>1 DEF IdsOf
<1> QED BY <1>2, AndroidPollAssumption, FS_Subset

LEMMA TrimmedType ==
  ASSUME NEW st \in PollState
  PROVE  /\ Trimmed(st) \in PollState
         /\ Excess(st) \subseteq st.seen
         /\ Trimmed(st).seen = st.seen \ Excess(st)
         /\ Trimmed(st).pending = st.pending
         /\ Trimmed(st).decided = st.decided
         /\ Trimmed(st).fingerprint = st.fingerprint
         /\ Trimmed(st).initialized = st.initialized
<1> DEFINE kept == st.seen \ Excess(st)
           order == st.older \cap (kept \X kept)
<1>1. Trimmed(st) = [st EXCEPT !.seen = kept, !.older = order]
  BY DEF Trimmed, PollState
<1>2. kept \subseteq Ids /\ order \subseteq Ids \X Ids /\ Excess(st) \subseteq st.seen
  BY DEF PollState, Excess
<1> HIDE DEF order
<1> QED BY <1>1, <1>2 DEF PollState

LEMMA MergedType ==
  ASSUME date \in [Ids -> Times \cup {0}], NEW st \in PollState, NEW b \in Batches
  PROVE  /\ Merged(st, b) \in PollState
         /\ Merged(st, b).seen = st.seen \cup Absorbed(st, b)
         /\ Merged(st, b).pending = (st.pending \cup Unknown(st, b)) \ Absorbed(st, b)
         /\ Merged(st, b).decided = st.decided
         /\ Merged(st, b).fingerprint = st.fingerprint
         /\ Merged(st, b).initialized = TRUE
         /\ Absorbed(st, b) \subseteq Unknown(st, b)
         /\ Unknown(st, b) = IdsOf(b) \ (st.seen \cup st.pending)
         /\ ~st.initialized => Absorbed(st, b) = Unknown(st, b)
<1> DEFINE old == Absorbed(st, b)
           order == st.older \cup (st.seen \X old) \cup {p \in old \X old : Precedes(b, p[1], p[2])}
           dates == {st.watermark} \cup {date[i] : i \in IdsOf(b)}
           waiting == (st.pending \cup Unknown(st, b)) \ old
<1>1. Merged(st, b) = [st EXCEPT !.seen = st.seen \cup old, !.older = order, !.pending = waiting,
                                 !.initialized = TRUE, !.watermark = Newest(dates)]
  BY DEF Merged, PollState
<1>2. /\ old \subseteq Unknown(st, b) /\ Unknown(st, b) = IdsOf(b) \ (st.seen \cup st.pending)
      /\ ~st.initialized => old = Unknown(st, b)
  BY DEF Absorbed, Unknown
<1>3. IdsOf(b) \in SUBSET Ids /\ IsFiniteSet(IdsOf(b))
  BY BatchType
<1>4. order \subseteq Ids \X Ids /\ waiting \subseteq Ids
  BY <1>2, <1>3 DEF PollState
<1>5. Newest(dates) \in Times \cup {0}
  <2> DEFINE shown == {date[i] : i \in IdsOf(b)}
             f == [i \in IdsOf(b) |-> date[i]]
  <2>1. f \in Surjection(IdsOf(b), shown)
    BY DEF Surjection
  <2>2. IsFiniteSet(shown)
    <3> HIDE DEF f, shown
    <3> QED BY <1>3, <2>1, FS_Surjection
  <2>3. shown \cup {st.watermark} = dates
    OBVIOUS
  <2>4. dates \subseteq Times \cup {0}
    BY <1>3 DEF PollState
  <2> HIDE DEF shown, dates
  <2>5. IsFiniteSet(dates) /\ dates # {}
    BY <2>2, <2>3, FS_AddElement
  <2>6. dates \in SUBSET Nat
    BY <2>4, AndroidPollAssumption
  <2> QED BY <2>4, <2>5, <2>6, NewestOfFinite
<1> HIDE DEF old, order, dates, waiting
<1>6. st.seen \cup old \subseteq Ids
  BY <1>2, <1>3 DEF PollState
<1>r. Merged(st, b) = [fingerprint |-> st.fingerprint, initialized |-> TRUE,
                       seen |-> st.seen \cup old, older |-> order, pending |-> waiting,
                       decided |-> st.decided, watermark |-> Newest(dates)]
  BY <1>1 DEF PollState
<1>7. /\ Merged(st, b) \in PollState
      /\ Merged(st, b).seen = st.seen \cup old
      /\ Merged(st, b).pending = waiting
      /\ Merged(st, b).decided = st.decided
      /\ Merged(st, b).fingerprint = st.fingerprint
      /\ Merged(st, b).initialized = TRUE
  BY <1>r, <1>4, <1>5, <1>6 DEF PollState
<1> QED BY <1>2, <1>7 DEF old, waiting

LEMMA DeliveredType ==
  ASSUME NEW st \in PollState, NEW i \in Ids
  PROVE  /\ Delivered(st, i) \in PollState
         /\ Delivered(st, i).seen = st.seen \cup {i}
         /\ Delivered(st, i).pending = st.pending \ {i}
         /\ Delivered(st, i).decided = [st.decided EXCEPT ![i] = NoRule]
         /\ Delivered(st, i).fingerprint = st.fingerprint
         /\ Delivered(st, i).initialized = st.initialized
<1> DEFINE order == st.older \cup ((st.seen \ {i}) \X {i})
           verdicts == [st.decided EXCEPT ![i] = NoRule]
<1>1. Delivered(st, i) = [st EXCEPT !.pending = st.pending \ {i}, !.decided = verdicts,
                                    !.seen = st.seen \cup {i}, !.older = order]
  BY DEF Delivered, PollState
<1>2. order \subseteq Ids \X Ids /\ verdicts \in [Ids -> Rules \cup {NoRule}]
  BY DEF PollState
<1> HIDE DEF order, verdicts
<1>r. Delivered(st, i) = [fingerprint |-> st.fingerprint, initialized |-> st.initialized,
                         seen |-> st.seen \cup {i}, older |-> order,
                         pending |-> st.pending \ {i}, decided |-> verdicts,
                         watermark |-> st.watermark]
  BY <1>1 DEF PollState
<1>3. /\ Delivered(st, i) \in PollState
      /\ Delivered(st, i).seen = st.seen \cup {i}
      /\ Delivered(st, i).pending = st.pending \ {i}
      /\ Delivered(st, i).decided = verdicts
      /\ Delivered(st, i).fingerprint = st.fingerprint
      /\ Delivered(st, i).initialized = st.initialized
  BY <1>r, <1>2 DEF PollState
<1> QED BY <1>3 DEF verdicts

(* Decide's copy of the state. *)
DecidedAs(st, i, r) == [st EXCEPT !.decided[i] = r]

LEMMA DecidedType ==
  ASSUME NEW st \in PollState, NEW i \in Ids, NEW r \in Rules \cup {NoRule}
  PROVE  /\ DecidedAs(st, i, r) \in PollState
         /\ DecidedAs(st, i, r).decided = [st.decided EXCEPT ![i] = r]
         /\ DecidedAs(st, i, r).seen = st.seen
         /\ DecidedAs(st, i, r).pending = st.pending
         /\ DecidedAs(st, i, r).fingerprint = st.fingerprint
         /\ DecidedAs(st, i, r).initialized = st.initialized
<1> DEFINE verdicts == [st.decided EXCEPT ![i] = r]
           new == DecidedAs(st, i, r)
<1>1. new = [st EXCEPT !.decided = verdicts]
  BY DEF PollState, DecidedAs
<1>2. verdicts \in [Ids -> Rules \cup {NoRule}]
  BY DEF PollState
<1> HIDE DEF verdicts, new
<1>3. /\ new \in PollState /\ new.decided = verdicts
      /\ new.seen = st.seen /\ new.pending = st.pending
      /\ new.fingerprint = st.fingerprint /\ new.initialized = st.initialized
  BY <1>1, <1>2 DEF PollState
<1> QED BY <1>3 DEF verdicts, new

LEMMA SaveEffect ==
  ASSUME NEW st \in PollState, NEW lived \in Lives, Save(st, lived)
  PROVE  /\ stored' \in PollState /\ HasState'
         /\ Excess(st) \subseteq st.seen
         /\ stored'.seen = st.seen \ Excess(st) /\ stored'.pending = st.pending
         /\ stored'.decided = st.decided /\ stored'.fingerprint = st.fingerprint
         /\ stored'.initialized = st.initialized
         /\ lives' \in Lives
         /\ lives'.primed = lived.primed \ Excess(st)
         /\ lives'.pended = lived.pended \ Excess(st)
         /\ lives'.shown = lived.shown \ Excess(st)
         /\ lives'.filtered = lived.filtered \ Excess(st)
         /\ lives'.unmarked = lived.unmarked \ Excess(st)
<1> DEFINE gone == Excess(st)
<1>1. stored' = Trimmed(st) /\ lives' = [x \in DOMAIN lived |-> lived[x] \ gone]
  BY DEF Save
<1>2. stored' # Nothing
  BY <1>1, TrimmedType, NothingAssumption
<1> HIDE DEF gone
<1>3. /\ lives' \in Lives
      /\ lives'.primed = lived.primed \ gone /\ lives'.pended = lived.pended \ gone
      /\ lives'.shown = lived.shown \ gone /\ lives'.filtered = lived.filtered \ gone
      /\ lives'.unmarked = lived.unmarked \ gone
  BY <1>1 DEF Lives
<1>4. /\ stored' \in PollState /\ gone \subseteq st.seen
      /\ stored'.seen = st.seen \ gone /\ stored'.pending = st.pending
      /\ stored'.decided = st.decided /\ stored'.fingerprint = st.fingerprint
      /\ stored'.initialized = st.initialized
  BY <1>1, TrimmedType DEF gone
<1> QED BY <1>2, <1>3, <1>4 DEF gone, HasState

-----------------------------------------------------------------------------
(* What the poll carries from one step to the next.  No screen can act between the last
   check of an entry and its mark, so what that check found is still true there. *)
Carried ==
  /\ pc # "idle" => snap \in Feeds
  /\ pc \in {"commit", "send", "mark"} => item \in Ids
  /\ verdict # "none" => rule # NoRule
  /\ pc \in {"send", "mark"} => StillWanted
  /\ pc = "mark" => item \in lives.shown

Sound == TypeOK /\ Carried /\ StateBelongsToFeed /\ OneLineEach(history)

LEMMA StateOfType ==
  ASSUME TypeOK, snap \in Feeds
  PROVE  StateOf(snap) \in PollState /\ StateOf(snap).fingerprint = snap.source
<1>1. snap.source \in Sources
  BY DEF Feeds
<1>2. EmptyState(snap.source) \in PollState /\ EmptyState(snap.source).fingerprint = snap.source
  BY <1>1, EmptyStateType DEF EmptyState
<1> QED BY <1>2 DEF StateOf, TypeOK

(* For a current source, the state of the copy is the stored one, or a new one. *)
LEMMA CurrentState ==
  ASSUME StateBelongsToFeed, Current
  PROVE  /\ feed # Nothing /\ feed.source = snap.source
         /\ StateOf(snap) = IF HasState THEN stored ELSE EmptyState(snap.source)
BY DEF StateBelongsToFeed, Current, StateOf, HasState

(* An entry still wanted is pending in the stored state. *)
LEMMA WantedState ==
  ASSUME StateBelongsToFeed, StillWanted
  PROVE  /\ HasState /\ StateOf(snap) = stored /\ item \in stored.pending
         /\ feed # Nothing /\ feed.enabled /\ feed.source = snap.source
         /\ (manual \/ ~paused) /\ feed.rule = rule
BY CurrentState DEF StillWanted, Current, EmptyState

LEMMA StaysWanted ==
  ASSUME StateBelongsToFeed, StillWanted, UNCHANGED <<feed, paused, manual, snap, item, rule>>,
         HasState', stored'.pending = stored.pending, stored'.fingerprint = stored.fingerprint
  PROVE  StillWanted'
<1>1. HasState /\ StateOf(snap) = stored /\ item \in stored.pending /\ stored.fingerprint = snap.source
  BY WantedState DEF StateBelongsToFeed
<1>2. StateOf(snap)' = stored'
  BY <1>1 DEF StateOf, HasState
<1>3. Current'
  BY DEF StillWanted, Current
<1> QED BY <1>1, <1>2, <1>3 DEF StillWanted

LEMMA LeaveType ==
  ASSUME Leave
  PROVE  /\ pc' = "idle" /\ manual' \in BOOLEAN /\ snap' = Nothing /\ again' \in BOOLEAN
         /\ todo' \subseteq Ids /\ item' = Nothing /\ rule' = NoRule /\ verdict' = "none"
BY DEF Leave

LEMMA LeaveSound ==
  ASSUME Sound, Leave, UNCHANGED <<date, feed, paused, stored, history>>,
         edits' \in 0..MaxEdits, faults' \in 0..MaxFaults, lives' \in Lives
  PROVE  Sound'
<1>1. TypeOK'
  BY LeaveType DEF Sound, TypeOK, Verdicts
<1>2. Carried'
  BY LeaveType DEF Carried
<1>3. StateBelongsToFeed' /\ OneLineEach(history)'
  BY DEF Sound, StateBelongsToFeed, HasState
<1> QED BY <1>1, <1>2, <1>3 DEF Sound

LEMMA InitSound == Init => Sound
<1> SUFFICES ASSUME Init PROVE Sound
  OBVIOUS
<1>1. edits \in 0..MaxEdits /\ faults \in 0..MaxFaults /\ Len(history) <= MaxHistory
  BY AndroidPollAssumption DEF Init
<1>2. lives \in Lives
  BY DEF Init, Lives, Unlived
<1>3. history \in Seq(Ids) /\ OneLineEach(history)
  BY DEF Init, OneLineEach
<1>4. TypeOK
  BY <1>1, <1>2, <1>3 DEF Init, TypeOK, Verdicts
<1> QED BY <1>3, <1>4 DEF Init, Sound, Carried, StateBelongsToFeed, HasState

LEMMA BoundsType ==
  ASSUME TypeOK
  PROVE  /\ edits < MaxEdits /\ edits' = edits + 1 => edits' \in 0..MaxEdits
         /\ faults < MaxFaults /\ faults' = faults + 1 => faults' \in 0..MaxFaults
BY AndroidPollAssumption DEF TypeOK

LEMMA LoseMarkType ==
  ASSUME Sound, LoseMark
  PROVE  /\ lives' \in Lives /\ lives'.primed = lives.primed /\ lives'.pended = lives.pended
         /\ lives'.shown = lives.shown /\ lives'.filtered = lives.filtered
         /\ lives'.unmarked = lives.unmarked \cup IF pc = "mark" THEN {item} ELSE {}
<1>1. CASE pc = "mark"
  <2>1. lives' = [lives EXCEPT !.unmarked = lives.unmarked \cup {item}] /\ item \in Ids
    BY <1>1 DEF LoseMark, Sound, TypeOK, Lives, Carried
  <2> QED BY <1>1, <2>1 DEF Sound, TypeOK, Lives
<1>2. CASE pc # "mark"
  BY <1>2 DEF LoseMark, Sound, TypeOK
<1> QED BY <1>1, <1>2

(* What each writing step leaves in the document. *)
LEMMA FetchedEffect ==
  ASSUME Sound, Fetched, Current
  PROVE  \E b \in Batches :
           LET st == StateOf(snap)
               new == Merged(st, b)
               gone == Excess(new)
           IN /\ st \in PollState
              /\ st = IF HasState THEN stored ELSE EmptyState(snap.source)
              /\ stored' \in PollState /\ HasState' /\ stored'.fingerprint = snap.source
              /\ stored'.seen = new.seen \ gone /\ stored'.pending = new.pending
              /\ new.seen = st.seen \cup Absorbed(st, b)
              /\ new.pending = (st.pending \cup Unknown(st, b)) \ Absorbed(st, b)
              /\ stored'.decided = st.decided /\ stored'.initialized = TRUE
              /\ Absorbed(st, b) \subseteq Unknown(st, b)
              /\ Unknown(st, b) = IdsOf(b) \ (st.seen \cup st.pending)
              /\ ~st.initialized => Absorbed(st, b) = Unknown(st, b)
              /\ lives' \in Lives
              /\ lives'.primed = (IF st.initialized THEN lives.primed ELSE IdsOf(b)) \ gone
              /\ lives'.pended = (lives.pended \cup new.pending) \ gone
              /\ lives'.shown = lives.shown \ gone /\ lives'.filtered = lives.filtered \ gone
              /\ lives'.unmarked = lives.unmarked \ gone
<1> DEFINE st == StateOf(snap)
<1>1. /\ date \in [Ids -> Times \cup {0}] /\ lives \in Lives
      /\ st \in PollState /\ st.fingerprint = snap.source
      /\ st = IF HasState THEN stored ELSE EmptyState(snap.source)
  BY StateOfType, CurrentState DEF Sound, TypeOK, Carried, Fetched
<1>2. PICK b \in Batches :
        Save(Merged(st, b), [lives EXCEPT !.primed = IF st.initialized THEN @ ELSE IdsOf(b),
                                          !.pended = @ \cup Merged(st, b).pending])
  BY DEF Fetched
<1> HIDE DEF st
<1> DEFINE new == Merged(st, b)
           lived == [lives EXCEPT !.primed = IF st.initialized THEN lives.primed ELSE IdsOf(b),
                                  !.pended = lives.pended \cup new.pending]
<1>3. /\ new \in PollState /\ new.fingerprint = st.fingerprint
      /\ new.seen = st.seen \cup Absorbed(st, b)
      /\ new.pending = (st.pending \cup Unknown(st, b)) \ Absorbed(st, b)
      /\ new.decided = st.decided /\ new.initialized = TRUE
      /\ Absorbed(st, b) \subseteq Unknown(st, b)
      /\ Unknown(st, b) = IdsOf(b) \ (st.seen \cup st.pending)
      /\ ~st.initialized => Absorbed(st, b) = Unknown(st, b)
  <2>0. st \in PollState /\ date \in [Ids -> Times \cup {0}]
    BY <1>1
  <2>1. new \in PollState
    BY <2>0, MergedType
  <2>2. new.fingerprint = st.fingerprint
    BY <2>0, MergedType
  <2>3. new.seen = st.seen \cup Absorbed(st, b)
    BY <2>0, MergedType
  <2>4. new.pending = (st.pending \cup Unknown(st, b)) \ Absorbed(st, b)
    BY <2>0, MergedType
  <2>5. new.decided = st.decided
    BY <2>0, MergedType
  <2>6. new.initialized = TRUE
    BY <2>0, MergedType
  <2>7. /\ Absorbed(st, b) \subseteq Unknown(st, b)
        /\ Unknown(st, b) = IdsOf(b) \ (st.seen \cup st.pending)
        /\ ~st.initialized => Absorbed(st, b) = Unknown(st, b)
    BY <2>0, MergedType
  <2> QED BY <2>1, <2>2, <2>3, <2>4, <2>5, <2>6, <2>7
<1>4. Save(new, lived)
  BY <1>1, <1>2 DEF Lives
<1> HIDE DEF new
<1>5. new.pending \subseteq Ids /\ IdsOf(b) \subseteq Ids
  BY <1>3, BatchType DEF PollState
<1>6. /\ lived \in Lives
      /\ lived.primed = IF st.initialized THEN lives.primed ELSE IdsOf(b)
      /\ lived.pended = lives.pended \cup new.pending
      /\ lived.shown = lives.shown /\ lived.filtered = lives.filtered
      /\ lived.unmarked = lives.unmarked
  BY <1>1, <1>5 DEF Lives
<1> HIDE DEF lived
<1>7. /\ stored' \in PollState /\ HasState'
      /\ stored'.seen = new.seen \ Excess(new) /\ stored'.pending = new.pending
      /\ stored'.decided = new.decided /\ stored'.fingerprint = new.fingerprint
      /\ stored'.initialized = new.initialized
      /\ lives' \in Lives
      /\ lives'.primed = lived.primed \ Excess(new)
      /\ lives'.pended = lived.pended \ Excess(new)
      /\ lives'.shown = lived.shown \ Excess(new)
      /\ lives'.filtered = lived.filtered \ Excess(new)
      /\ lives'.unmarked = lived.unmarked \ Excess(new)
  BY <1>3, <1>4, <1>6, SaveEffect
<1> QED BY <1>1, <1>3, <1>6, <1>7 DEF st, new

(* trim does not forget the identifier that was just remembered. *)
LEMMA NewestIsKept ==
  ASSUME NEW st \in PollState, NEW i \in Ids, i \notin st.seen
  PROVE  i \notin Excess(Delivered(st, i))
<1> DEFINE new == Delivered(st, i)
           before == {j \in new.seen : <<j, i>> \in new.older}
<1>1. new.older = st.older \cup ((st.seen \ {i}) \X {i})
  BY DEF Delivered, PollState
<1>2. new.seen = st.seen \cup {i} /\ st.seen \subseteq Ids
  BY DeliveredType DEF PollState
<1> HIDE DEF new
<1>3. st.seen \subseteq before /\ before \subseteq new.seen
  BY <1>1, <1>2
<1>4. IsFiniteSet(st.seen) /\ IsFiniteSet(new.seen)
  BY <1>2, AndroidPollAssumption, FS_Subset, FS_AddElement
<1> HIDE DEF before
<1>5. IsFiniteSet(before) /\ Cardinality(st.seen) <= Cardinality(before)
  BY <1>3, <1>4, FS_Subset
<1>6. Cardinality(new.seen) = Cardinality(st.seen) + 1
  BY <1>2, <1>4, FS_AddElement
<1>7. Cardinality(st.seen) \in Nat /\ Cardinality(before) \in Nat /\ MaxSeen \in Nat \ {0}
  BY <1>4, <1>5, FS_CardinalityType, AndroidPollAssumption
<1>8. ~(Cardinality(before) < Cardinality(new.seen) - MaxSeen)
  BY <1>5, <1>6, <1>7
<1> QED BY <1>8 DEF Excess, before, new

LEMMA DeliveredEffect ==
  ASSUME Sound, StillWanted, pc \in {"commit", "mark"}, NEW lived \in Lives,
         Save(Delivered(StateOf(snap), item), lived)
  PROVE  \E gone \in SUBSET Ids :
           /\ stored \in PollState /\ HasState /\ item \in Ids /\ item \in stored.pending
           /\ stored' \in PollState /\ HasState' /\ stored'.fingerprint = stored.fingerprint
           /\ stored'.initialized = stored.initialized
           /\ gone \subseteq stored.seen \cup {item} /\ (item \notin stored.seen => item \notin gone)
           /\ stored'.seen = (stored.seen \cup {item}) \ gone
           /\ stored'.pending = stored.pending \ {item}
           /\ stored'.decided = [stored.decided EXCEPT ![item] = NoRule]
           /\ lives' \in Lives
           /\ lives'.primed = lived.primed \ gone /\ lives'.pended = lived.pended \ gone
           /\ lives'.shown = lived.shown \ gone /\ lives'.filtered = lived.filtered \ gone
           /\ lives'.unmarked = lived.unmarked \ gone
<1> DEFINE new == Delivered(stored, item)
<1>1. /\ stored \in PollState /\ HasState /\ StateOf(snap) = stored
      /\ item \in Ids /\ item \in stored.pending
  BY WantedState DEF Sound, TypeOK, Carried, HasState
<1>2. /\ new \in PollState /\ new.seen = stored.seen \cup {item}
      /\ new.pending = stored.pending \ {item}
      /\ new.decided = [stored.decided EXCEPT ![item] = NoRule]
      /\ new.fingerprint = stored.fingerprint /\ new.initialized = stored.initialized
  BY <1>1, DeliveredType
<1>3. Save(new, lived)
  BY <1>1
<1> HIDE DEF new
<1>4. /\ stored' \in PollState /\ HasState'
      /\ Excess(new) \subseteq new.seen
      /\ stored'.seen = new.seen \ Excess(new) /\ stored'.pending = new.pending
      /\ stored'.decided = new.decided /\ stored'.fingerprint = new.fingerprint
      /\ stored'.initialized = new.initialized
      /\ lives' \in Lives
      /\ lives'.primed = lived.primed \ Excess(new)
      /\ lives'.pended = lived.pended \ Excess(new)
      /\ lives'.shown = lived.shown \ Excess(new)
      /\ lives'.filtered = lived.filtered \ Excess(new)
      /\ lives'.unmarked = lived.unmarked \ Excess(new)
  BY <1>2, <1>3, SaveEffect
<1>5. Excess(new) \in SUBSET Ids
  BY <1>2, <1>4 DEF PollState
<1>6. item \notin stored.seen => item \notin Excess(new)
  BY <1>1, NewestIsKept DEF new
<1> WITNESS Excess(new) \in SUBSET Ids
<1> QED BY <1>1, <1>2, <1>4, <1>6

-----------------------------------------------------------------------------
(* One step, whoever takes it. *)
LEMMA NextSound == Sound /\ [Next]_vars => Sound'
<1> SUFFICES ASSUME Sound, [Next]_vars PROVE Sound'
  OBVIOUS
<1> USE DEF durable, volatile, bounds
<1>t. TypeOK /\ Carried /\ StateBelongsToFeed /\ OneLineEach(history)
  BY DEF Sound
<1>a. /\ edits < MaxEdits /\ edits' = edits + 1 => edits' \in 0..MaxEdits
      /\ faults < MaxFaults /\ faults' = faults + 1 => faults' \in 0..MaxFaults
  BY <1>t, BoundsType
<1>b. ASSUME UNCHANGED <<feed, stored>> PROVE StateBelongsToFeed'
  BY <1>t, <1>b DEF StateBelongsToFeed, HasState
<1>1. ASSUME NEW m \in BOOLEAN, StartPoll(m) PROVE Sound'
  BY <1>1, <1>b DEF StartPoll, Sound, TypeOK, Carried
<1>2. CASE Check
  <2>1. CASE Current
    BY <1>2, <1>b, <2>1 DEF Check, Sound, TypeOK, Carried
  <2>2. CASE ~Current
    BY <1>2, <1>t, <2>2, LeaveSound DEF Check, TypeOK
  <2> QED BY <2>1, <2>2
<1>3. CASE Fetched /\ Current
  <2>1. /\ stored' \in PollState /\ stored'.fingerprint = snap.source /\ lives' \in Lives
        /\ feed # Nothing /\ feed.source = snap.source
    BY <1>3, <1>t, FetchedEffect, CurrentState
  <2>2. /\ pc' = "list" /\ pc = "fetch"
        /\ UNCHANGED <<date, feed, paused, history, manual, snap, again, todo, item, rule, verdict>>
        /\ UNCHANGED <<edits, faults>>
    BY <1>3 DEF Fetched
  <2> QED BY <2>1, <2>2 DEF Sound, TypeOK, Carried, StateBelongsToFeed
<1>4. CASE Fetched /\ ~Current
  BY <1>4, <1>t, LeaveSound DEF Fetched, TypeOK
<1>5. CASE FetchFails
  BY <1>5, <1>b DEF FetchFails, Sound, TypeOK, Carried
<1>6. CASE Failed /\ Current
  <2>1. snap \in Feeds /\ StateOf(snap) \in PollState /\ StateOf(snap).fingerprint = snap.source
    BY <1>6, <1>t, StateOfType DEF Failed, Carried
  <2>2. stored' \in {StateOf(snap), stored} /\ faults' \in 0..MaxFaults
    BY <1>6, <1>t, <1>a DEF Failed, TypeOK
  <2>3. /\ pc' = "list" /\ again' = TRUE /\ todo' = {} /\ item' = Nothing
        /\ rule' = NoRule /\ verdict' = "none"
        /\ UNCHANGED <<date, feed, paused, history, manual, snap, edits, lives>>
    BY <1>6 DEF Failed
  <2>4. StateBelongsToFeed'
    <3>1. feed # Nothing /\ feed.source = snap.source
      BY <1>6, <1>t, CurrentState
    <3> QED BY <1>t, <2>1, <2>2, <2>3, <3>1 DEF StateBelongsToFeed, HasState
  <2> QED BY <2>1, <2>2, <2>3, <2>4 DEF Sound, TypeOK, Carried, Verdicts
<1>7. CASE Failed /\ ~Current
  BY <1>7, <1>t, LeaveSound DEF Failed, TypeOK
<1>8. CASE List
  <2>1. StateOf(snap).pending \subseteq Ids
    BY <1>8, <1>t, StateOfType DEF List, Carried, PollState
  <2> QED BY <1>8, <1>b, <2>1 DEF List, Sound, TypeOK, Carried
<1>9. ASSUME NEW i \in Ids, Pick(i) PROVE Sound'
  <2>1. feed \in Feeds /\ feed.rule \in Rules \cup {NoRule}
    BY <1>9, <1>t DEF Pick, Current, TypeOK, Feeds
  <2>2. verdict' \in Verdicts /\ (verdict' # "none" => rule' # NoRule)
    BY <1>9 DEF Pick, Judgements, Verdicts
  <2> QED BY <1>9, <1>b, <2>1, <2>2 DEF Pick, Sound, TypeOK, Carried
<1>10. CASE Done
  BY <1>10, <1>t, LeaveSound DEF Done, TypeOK
<1>11. CASE Skip
  BY <1>11, <1>b, LeaveType DEF Skip, ToPick, Sound, TypeOK, Carried, Verdicts
<1>12. CASE Hide
  <2>1. [lives EXCEPT !.filtered = @ \cup {item}] \in Lives
    BY <1>12, <1>t DEF Hide, TypeOK, Lives, Carried
  <2>2. stored' \in PollState /\ stored'.fingerprint = stored.fingerprint /\ lives' \in Lives /\ HasState
    BY <1>12, <2>1, DeliveredEffect DEF Hide
  <2>3. StateBelongsToFeed'
    BY <1>12, <1>t, <2>2 DEF StateBelongsToFeed, Hide
  <2> QED BY <1>12, <2>2, <2>3 DEF Hide, ToPick, Sound, TypeOK, Carried, Verdicts
<1>13. CASE Decide
  <2>1. /\ HasState /\ StateOf(snap) = stored /\ stored \in PollState /\ item \in Ids
        /\ rule \in Rules \cup {NoRule}
    BY <1>13, <1>t, WantedState DEF Decide, TypeOK, Carried, HasState
  <2>2. stored' = stored \/ stored' = DecidedAs(stored, item, rule)
    BY <1>13, <2>1 DEF Decide, DecidedAs
  <2>3. /\ stored' \in PollState /\ HasState' /\ stored'.pending = stored.pending
        /\ stored'.fingerprint = stored.fingerprint
    <3>1. CASE stored' = stored
      BY <2>1, <3>1 DEF HasState
    <3>2. CASE stored' = DecidedAs(stored, item, rule)
      <4>1. DecidedAs(stored, item, rule) \in PollState
        BY <2>1, DecidedType
      <4>2. DecidedAs(stored, item, rule).pending = stored.pending
        BY <2>1, DecidedType
      <4>3. DecidedAs(stored, item, rule).fingerprint = stored.fingerprint
        BY <2>1, DecidedType
      <4> QED BY <3>2, <4>1, <4>2, <4>3, NothingAssumption DEF HasState
    <3> QED BY <2>2, <3>1, <3>2
  <2>4. StillWanted'
    BY <1>13, <1>t, <2>3, StaysWanted DEF Decide
  <2>5. StateBelongsToFeed'
    BY <1>13, <1>t, <2>1, <2>3 DEF StateBelongsToFeed, Decide
  <2> QED BY <1>13, <2>1, <2>3, <2>4, <2>5 DEF Decide, Sound, TypeOK, Carried
<1>14. CASE Send
  <2>1. lives' \in Lives /\ item \in lives'.shown /\ HasState /\ item \in Ids /\ StillWanted
    BY <1>14, <1>t, WantedState DEF Send, TypeOK, Lives, Carried
  <2>2. StillWanted'
    BY <1>14, <1>t, <2>1, StaysWanted DEF Send, HasState
  <2> QED BY <1>14, <1>b, <2>1, <2>2 DEF Send, Sound, TypeOK, Carried
<1>15. CASE SendRefused
  BY <1>15, <1>a, <1>b DEF SendRefused, ToPick, Sound, TypeOK, Carried, Verdicts
<1>16. CASE Mark
  <2>1. lives \in Lives /\ StillWanted /\ item \in Ids
    BY <1>16, <1>t DEF Mark, TypeOK, Carried
  <2>2. stored' \in PollState /\ stored'.fingerprint = stored.fingerprint /\ lives' \in Lives /\ HasState
    BY <1>16, <2>1, DeliveredEffect DEF Mark
  <2>3. StateBelongsToFeed'
    BY <1>16, <1>t, <2>2 DEF StateBelongsToFeed, Mark
  <2>4. history' \in Seq(Ids) /\ Len(history') <= MaxHistory /\ OneLineEach(history')
    BY <1>16, <1>t, <2>1, HistoryWithProperties DEF Mark, TypeOK
  <2> QED BY <1>16, <2>2, <2>3, <2>4 DEF Mark, ToPick, Sound, TypeOK, Carried, Verdicts
<1>17. CASE SaveFails
  <2>1. lives' \in Lives
    BY <1>17, LoseMarkType DEF SaveFails
  <2>2. CASE again
    BY <1>17, <1>t, <1>a, <2>1, <2>2, LeaveSound DEF SaveFails, TypeOK
  <2>3. CASE ~again
    BY <1>17, <1>a, <1>b, <2>1, <2>3 DEF SaveFails, Sound, TypeOK, Carried
  <2> QED BY <2>2, <2>3
<1>18. CASE Interrupted
  BY <1>18, <1>t, <1>a, LeaveSound DEF Interrupted, TypeOK
<1>19. CASE Killed
  <2>1. lives' \in Lives
    BY <1>19, LoseMarkType DEF Killed
  <2> QED BY <1>19, <1>t, <1>a, <2>1, LeaveSound DEF Killed, TypeOK
<1>20. ASSUME NEW f \in Feeds, PutFeed(f) PROVE Sound'
  <2>1. stored' \in PollState \cup {Nothing} /\ lives' \in Lives
    BY <1>20, <1>t DEF PutFeed, Forget, TypeOK, Lives, Unlived
  <2>2. StateBelongsToFeed'
    BY <1>20, <1>t, NothingAssumption DEF PutFeed, Forget, StateBelongsToFeed, HasState
  <2> QED BY <1>20, <1>a, <2>1, <2>2 DEF PutFeed, Edit, Sound, TypeOK, Carried
<1>21. CASE RemoveFeed
  <2>1. stored' = Nothing /\ lives' \in Lives
    BY <1>21 DEF RemoveFeed, Forget, Lives, Unlived
  <2> QED BY <1>21, <1>a, <2>1 DEF RemoveFeed, Edit, Sound, TypeOK, Carried, StateBelongsToFeed, HasState
<1>22. CASE SetPaused
  BY <1>22, <1>a, <1>b DEF SetPaused, Edit, Sound, TypeOK, Carried
<1>23. CASE ClearHistory
  <2>1. history' \in Seq(Ids) /\ Len(history') <= MaxHistory /\ OneLineEach(history')
    BY <1>23, AndroidPollAssumption DEF ClearHistory, OneLineEach
  <2> QED BY <1>23, <1>a, <1>b, <2>1 DEF ClearHistory, Edit, Sound, TypeOK, Carried
<1>24. ASSUME NEW i \in Ids, RemoveHistory(i) PROVE Sound'
  <2>1. \E kept \in SUBSET DOMAIN history : history' = Lines(kept)
    BY <1>24 DEF RemoveHistory
  <2>2. history' \in Seq(Ids) /\ Len(history') <= Len(history) /\ OneLineEach(history')
    BY <1>t, <2>1, LinesProperties DEF TypeOK
  <2>3. Len(history') <= MaxHistory
    BY <1>t, <2>2, AndroidPollAssumption DEF TypeOK
  <2> QED BY <1>24, <1>a, <1>b, <2>2, <2>3 DEF RemoveHistory, Edit, Sound, TypeOK, Carried
<1>25. CASE UNCHANGED vars
  <2>1. StillWanted' = StillWanted
    BY <1>25 DEF vars, StillWanted, Current, StateOf
  <2> QED BY <1>25, <1>b, <2>1 DEF vars, Sound, TypeOK, Carried
<1> QED
  BY <1>1, <1>2, <1>3, <1>4, <1>5, <1>6, <1>7, <1>8, <1>9, <1>10, <1>11, <1>12, <1>13, <1>14, <1>15,
     <1>16, <1>17, <1>18, <1>19, <1>20, <1>21, <1>22, <1>23, <1>24, <1>25
  DEF Next, Poll, Deliver, Fault, Screen

(* The document and what the poll carries, in every reachable state. *)
LEMMA AlwaysSound == Spec => []Sound
BY InitSound, NextSound, PTL DEF Spec

-----------------------------------------------------------------------------
(* Why no entry is lost, repeated or unearthed: under an initialized state, what is primed
   or filtered is remembered, and a shown entry is remembered too, unless its mark was lost
   or is about to be written; before that nothing has happened to any entry. *)
Ringing == IF pc = "mark" THEN {item} ELSE {}

Accounted ==
  IF HasState /\ stored.initialized
  THEN /\ lives.primed \cup lives.filtered \subseteq stored.seen
       /\ lives.shown \subseteq stored.seen \cup lives.unmarked \cup Ringing
  ELSE /\ lives = Unlived
       /\ HasState => stored.seen = {} /\ stored.pending = {}

Tidy == HasState => /\ stored.seen \cap stored.pending = {}
                    /\ \A i \in Ids : stored.decided[i] # NoRule => i \in stored.pending

Safe == Tidy /\ Accounted /\ PendingIsNeverLost /\ PrimedStaysSilent

LEMMA UnlivedFields ==
  /\ Unlived.primed = {} /\ Unlived.pended = {} /\ Unlived.shown = {}
  /\ Unlived.filtered = {} /\ Unlived.unmarked = {}
BY DEF Unlived

(* Steps that touch neither the state nor what the entries lived through. *)
LEMMA SafeUntouched ==
  ASSUME Safe, UNCHANGED <<stored, lives>>, Ringing \subseteq Ringing'
  PROVE  Safe'
BY DEF Safe, Tidy, Accounted, PendingIsNeverLost, PrimedStaysSilent, HasState, Unlived

LEMMA SafeForgotten ==
  ASSUME stored' = Nothing, lives' = Unlived
  PROVE  Safe'
BY UnlivedFields DEF Safe, Tidy, Accounted, PendingIsNeverLost, PrimedStaysSilent, HasState, Unlived

LEMMA SafeLostMark ==
  ASSUME Sound, Safe, LoseMark, stored' = stored, pc' # "mark"
  PROVE  Safe'
<1>1. /\ lives'.primed = lives.primed /\ lives'.pended = lives.pended
      /\ lives'.shown = lives.shown /\ lives'.filtered = lives.filtered
      /\ lives'.unmarked = lives.unmarked \cup Ringing
  BY LoseMarkType DEF Ringing
<1>2. Ringing' = {}
  BY DEF Ringing
<1>3. CASE HasState /\ stored.initialized
  BY <1>1, <1>2, <1>3 DEF Safe, Tidy, Accounted, PendingIsNeverLost, PrimedStaysSilent, HasState
<1>4. CASE ~(HasState /\ stored.initialized)
  <2>1. pc # "mark"
    <3>1. SUFFICES ASSUME pc = "mark" PROVE FALSE
      OBVIOUS
    <3>2. HasState /\ item \in stored.pending
      BY <3>1, WantedState DEF Sound, Carried
    <3> QED BY <1>4, <3>2 DEF Safe, Accounted
  <2>2. lives' = lives
    BY <2>1 DEF LoseMark
  <2> QED BY <1>2, <2>1, <2>2, SafeUntouched DEF Ringing
<1> QED BY <1>3, <1>4

(* A wanted entry is pending under an initialized state, and so not remembered. *)
LEMMA WantedIsFresh ==
  ASSUME Sound, Safe, StillWanted
  PROVE  /\ HasState /\ stored.initialized /\ item \in stored.pending /\ item \notin stored.seen
         /\ item \notin lives.primed /\ item \notin lives.filtered
         /\ item \in lives.shown => item \in lives.unmarked \cup Ringing
<1>1. HasState /\ item \in stored.pending
  BY WantedState DEF Sound
<1>2. stored.initialized
  BY <1>1 DEF Safe, Accounted
<1> QED BY <1>1, <1>2 DEF Safe, Tidy, Accounted

LEMMA SafeFetched ==
  ASSUME Sound, Safe, Fetched, Current
  PROVE  Safe'
<1>1. PICK b \in Batches :
        LET st == StateOf(snap)
            new == Merged(st, b)
            gone == Excess(new)
        IN /\ st \in PollState
           /\ st = IF HasState THEN stored ELSE EmptyState(snap.source)
           /\ HasState'
           /\ stored'.seen = new.seen \ gone /\ stored'.pending = new.pending
           /\ new.seen = st.seen \cup Absorbed(st, b)
           /\ new.pending = (st.pending \cup Unknown(st, b)) \ Absorbed(st, b)
           /\ stored'.decided = st.decided /\ stored'.initialized = TRUE
           /\ Absorbed(st, b) \subseteq Unknown(st, b)
           /\ Unknown(st, b) = IdsOf(b) \ (st.seen \cup st.pending)
           /\ ~st.initialized => Absorbed(st, b) = Unknown(st, b)
           /\ lives'.primed = (IF st.initialized THEN lives.primed ELSE IdsOf(b)) \ gone
           /\ lives'.pended = (lives.pended \cup new.pending) \ gone
           /\ lives'.shown = lives.shown \ gone /\ lives'.filtered = lives.filtered \ gone
           /\ lives'.unmarked = lives.unmarked \ gone
  BY FetchedEffect
<1> DEFINE st == StateOf(snap)
           new == Merged(st, b)
           gone == Excess(new)
           old == Absorbed(st, b)
           fresh == Unknown(st, b)
<1>2. Ringing = {} /\ Ringing' = {}
  BY DEF Fetched, Ringing
<1>3. CASE HasState /\ stored.initialized
  <2>1. /\ st = stored /\ st.initialized
        /\ stored'.seen = (stored.seen \cup old) \ gone
        /\ stored'.pending = (stored.pending \cup fresh) \ old
        /\ stored'.decided = stored.decided /\ stored'.initialized = TRUE /\ HasState'
        /\ old \subseteq fresh /\ fresh = IdsOf(b) \ (stored.seen \cup stored.pending)
        /\ lives'.primed = lives.primed \ gone
        /\ lives'.pended = (lives.pended \cup stored'.pending) \ gone
        /\ lives'.shown = lives.shown \ gone /\ lives'.filtered = lives.filtered \ gone
        /\ lives'.unmarked = lives.unmarked \ gone
    BY <1>1, <1>3
  <2> HIDE DEF st, old, fresh, gone, new
  <2>2. Tidy'
    BY <1>3, <2>1 DEF Safe, Tidy
  <2>3. Accounted'
    BY <1>2, <1>3, <2>1 DEF Safe, Accounted
  <2>4. PendingIsNeverLost' /\ PrimedStaysSilent'
    BY <1>3, <2>1 DEF Safe, Tidy, PendingIsNeverLost, PrimedStaysSilent
  <2> QED BY <2>2, <2>3, <2>4 DEF Safe
<1>4. CASE ~(HasState /\ stored.initialized)
  <2>1. /\ st.seen = {} /\ st.pending = {} /\ ~st.initialized /\ lives = Unlived
        /\ \A i \in Ids : st.decided[i] = NoRule
    BY <1>1, <1>4 DEF Safe, Accounted, Tidy, EmptyState
  <2>2. /\ stored'.seen = IdsOf(b) \ gone /\ stored'.pending = {}
        /\ stored'.decided = st.decided /\ stored'.initialized = TRUE /\ HasState'
        /\ lives'.primed = IdsOf(b) \ gone /\ lives'.pended = {} /\ lives'.shown = {}
        /\ lives'.filtered = {} /\ lives'.unmarked = {}
    BY <1>1, <2>1, UnlivedFields
  <2> HIDE DEF st, gone
  <2> QED BY <1>2, <2>1, <2>2 DEF Safe, Tidy, Accounted, PendingIsNeverLost, PrimedStaysSilent
<1> QED BY <1>3, <1>4

LEMMA SafeDelivered ==
  ASSUME Sound, Safe, StillWanted, pc \in {"commit", "mark"}, NEW lived \in Lives,
         Save(Delivered(StateOf(snap), item), lived), pc' # "mark",
         lived.primed = lives.primed, lived.pended = lives.pended, lived.shown = lives.shown,
         lived.unmarked = lives.unmarked,
         lived.filtered \subseteq lives.filtered \cup {item}, lives.filtered \subseteq lived.filtered,
         item \in lived.filtered \cup lives.shown
  PROVE  Safe'
<1>1. PICK gone \in SUBSET Ids :
        /\ stored \in PollState /\ item \in Ids
        /\ HasState' /\ stored'.initialized = stored.initialized
        /\ gone \subseteq stored.seen \cup {item}
        /\ stored'.seen = (stored.seen \cup {item}) \ gone
        /\ stored'.pending = stored.pending \ {item}
        /\ stored'.decided = [stored.decided EXCEPT ![item] = NoRule]
        /\ lives'.primed = lived.primed \ gone /\ lives'.pended = lived.pended \ gone
        /\ lives'.shown = lived.shown \ gone /\ lives'.filtered = lived.filtered \ gone
        /\ lives'.unmarked = lived.unmarked \ gone
  BY DeliveredEffect
<1>2. /\ HasState /\ stored.initialized /\ item \in stored.pending /\ item \notin stored.seen
      /\ item \notin lives.primed /\ item \notin lives.filtered
  BY WantedIsFresh
<1>3. Ringing' = {} /\ Ringing \subseteq {item}
  BY DEF Ringing
<1>4. Tidy'
  <2>1. \A i \in Ids : stored'.decided[i] # NoRule => stored.decided[i] # NoRule /\ i # item
    BY <1>1 DEF PollState
  <2> QED BY <1>1, <1>2, <2>1 DEF Safe, Tidy
<1>5. Accounted'
  BY <1>1, <1>2, <1>3 DEF Safe, Accounted
<1>6. PendingIsNeverLost' /\ PrimedStaysSilent'
  BY <1>1, <1>2 DEF Safe, PendingIsNeverLost, PrimedStaysSilent
<1> QED BY <1>4, <1>5, <1>6 DEF Safe

LEMMA InitSafe == Init => Safe
<1> SUFFICES ASSUME Init PROVE Safe
  OBVIOUS
<1> QED BY UnlivedFields DEF Init, Safe, Tidy, Accounted, PendingIsNeverLost, PrimedStaysSilent, HasState

LEMMA NextSafe == Sound /\ Safe /\ [Next]_vars => Safe'
<1> SUFFICES ASSUME Sound, Safe, [Next]_vars PROVE Safe'
  OBVIOUS
<1> USE DEF durable, volatile, bounds
<1>l. lives \in Lives
  BY DEF Sound, TypeOK
<1>1. CASE UNCHANGED <<stored, lives>> /\ pc # "mark"
  <2>1. Ringing = {}
    BY <1>1 DEF Ringing
  <2> QED BY <1>1, <2>1, SafeUntouched
<1>2. CASE Fetched /\ Current
  BY <1>2, SafeFetched
<1>3. CASE Failed /\ Current
  <2>1. pc = "failed" /\ pc' = "list" /\ lives' = lives /\ stored' \in {StateOf(snap), stored}
    BY <1>3 DEF Failed
  <2>2. CASE HasState \/ stored' = stored
    <3>1. stored' = stored
      BY <1>3, <2>1, <2>2, CurrentState DEF Sound
    <3> QED BY <2>1, <3>1, SafeUntouched DEF Ringing
  <2>3. CASE ~HasState /\ stored' # stored
    <3>1. stored' = EmptyState(snap.source)
      BY <1>3, <2>1, <2>3, CurrentState DEF Sound
    <3>2. lives' = Unlived
      BY <2>1, <2>3 DEF Safe, Accounted
    <3>3. /\ stored'.seen = {} /\ stored'.pending = {} /\ ~stored'.initialized
          /\ \A i \in Ids : stored'.decided[i] = NoRule
      BY <3>1 DEF EmptyState
    <3> QED BY <3>2, <3>3, UnlivedFields
            DEF Safe, Tidy, Accounted, PendingIsNeverLost, PrimedStaysSilent, Unlived
  <2> QED BY <2>2, <2>3
<1>4. CASE Hide
  <2> DEFINE lived == [lives EXCEPT !.filtered = lives.filtered \cup {item}]
  <2>1. item \in Ids
    BY <1>4 DEF Hide, Sound, Carried
  <2>2. /\ lived \in Lives /\ lived.primed = lives.primed /\ lived.pended = lives.pended
        /\ lived.shown = lives.shown /\ lived.unmarked = lives.unmarked
        /\ lived.filtered = lives.filtered \cup {item}
    BY <1>l, <2>1 DEF Lives
  <2>3. /\ StillWanted /\ pc = "commit" /\ pc' = "pick"
        /\ Save(Delivered(StateOf(snap), item), lived)
    BY <1>4, <1>l DEF Hide, ToPick, Lives
  <2> HIDE DEF lived
  <2> QED BY <2>2, <2>3, SafeDelivered
<1>5. CASE Decide
  <2>1. /\ HasState /\ StateOf(snap) = stored /\ stored \in PollState /\ item \in Ids
        /\ rule \in Rules \cup {NoRule} /\ item \in stored.pending
    BY <1>5, WantedState DEF Decide, Sound, TypeOK, Carried, HasState
  <2>2. stored' = stored \/ stored' = DecidedAs(stored, item, rule)
    BY <1>5, <2>1 DEF Decide, DecidedAs
  <2>3. Ringing = {} /\ Ringing' = {} /\ lives' = lives
    BY <1>5 DEF Decide, Ringing
  <2>4. CASE stored' = DecidedAs(stored, item, rule)
    <3>1. /\ stored'.seen = stored.seen /\ stored'.pending = stored.pending
          /\ stored'.initialized = stored.initialized
      BY <2>1, <2>4, DecidedType
    <3>2. stored'.decided = [stored.decided EXCEPT ![item] = rule]
      BY <2>1, <2>4, DecidedType
    <3>3. HasState'
      <4>1. DecidedAs(stored, item, rule) \in PollState
        BY <2>1, DecidedType
      <4> QED BY <2>4, <4>1, NothingAssumption DEF HasState
    <3>4. \A i \in Ids : stored'.decided[i] # NoRule => i \in stored.pending
      BY <2>1, <3>2 DEF Safe, Tidy, PollState
    <3>5. Tidy'
      BY <2>1, <3>1, <3>4 DEF Safe, Tidy
    <3> QED BY <2>1, <2>3, <3>1, <3>3, <3>5
            DEF Safe, Accounted, PendingIsNeverLost, PrimedStaysSilent
  <2> QED BY <2>2, <2>3, <2>4, SafeUntouched
<1>6. CASE Send
  <2>1. /\ HasState /\ stored.initialized /\ item \in stored.pending /\ item \notin stored.seen
        /\ item \notin lives.primed /\ item \in Ids
    BY <1>6, WantedIsFresh DEF Send, Sound, Carried
  <2>2. /\ lives'.primed = lives.primed /\ lives'.pended = lives.pended
        /\ lives'.shown = lives.shown \cup {item} /\ lives'.filtered = lives.filtered
        /\ lives'.unmarked = lives.unmarked \ {item}
    BY <1>6, <1>l DEF Send, Lives
  <2>3. stored' = stored /\ Ringing = {} /\ Ringing' = {item}
    BY <1>6 DEF Send, Ringing
  <2> QED BY <2>1, <2>2, <2>3
          DEF Safe, Tidy, Accounted, PendingIsNeverLost, PrimedStaysSilent, HasState
<1>7. CASE Mark
  <2>1. /\ StillWanted /\ pc = "mark" /\ pc' = "pick" /\ item \in lives.shown
        /\ Save(Delivered(StateOf(snap), item), lives)
    BY <1>7 DEF Mark, ToPick, Sound, Carried
  <2> QED BY <1>l, <2>1, SafeDelivered
<1>8. CASE SaveFails
  <2>1. stored' = stored /\ LoseMark /\ pc' # "mark"
    BY <1>8, LeaveType DEF SaveFails
  <2> QED BY <2>1, SafeLostMark
<1>9. CASE Killed
  <2>1. stored' = stored /\ LoseMark /\ pc' # "mark"
    BY <1>9, LeaveType DEF Killed
  <2> QED BY <2>1, SafeLostMark
<1>10. CASE \E f \in Feeds : PutFeed(f)
  <2>1. pc # "mark" /\ (UNCHANGED <<stored, lives>> \/ (stored' = Nothing /\ lives' = Unlived))
    BY <1>10 DEF PutFeed, Edit, Forget
  <2> QED BY <1>1, <2>1, SafeForgotten
<1>11. CASE RemoveFeed
  BY <1>11, SafeForgotten DEF RemoveFeed, Forget
<1>12. CASE UNCHANGED vars
  BY <1>12, SafeUntouched DEF vars, Ringing
<1> QED
  BY <1>1, <1>2, <1>3, <1>4, <1>5, <1>6, <1>7, <1>8, <1>9, <1>10, <1>11, <1>12
  DEF Next, Poll, Deliver, Fault, Screen, StartPoll, Check, Fetched, FetchFails, Failed, List, Pick, Done,
      Skip, SendRefused, Interrupted, SetPaused, ClearHistory, RemoveHistory, Edit

LEMMA AlwaysSafe == Spec => []Safe
BY InitSafe, NextSafe, AlwaysSound, PTL DEF Spec

-----------------------------------------------------------------------------
(* The document is complete and consistent whatever is interleaved and wherever the process
   dies, and a request under way never writes the state of another address. *)
THEOREM DocumentInvariantHolds == Spec => []DocumentInvariant
<1>1. Sound /\ Safe => DocumentInvariant
  BY DEF Sound, Safe, Tidy, DocumentInvariant, DocumentIsConsistent, OneLineEach
<1> QED BY <1>1, AlwaysSound, AlwaysSafe, PTL

(* An entry that was once pending is alerted or filtered before it leaves the state. *)
THEOREM PendingKept == Spec => []PendingIsNeverLost
<1>1. Safe => PendingIsNeverLost
  BY DEF Safe
<1> QED BY <1>1, AlwaysSafe, PTL

(* What a new source shows first is never alerted, nor even judged. *)
THEOREM PrimedSilent == Spec => []PrimedStaysSilent
<1>1. Safe => PrimedStaysSilent
  BY DEF Safe
<1> QED BY <1>1, AlwaysSafe, PTL

(* A second alert for an entry needs a first one whose mark was lost. *)
THEOREM NoRepeat == Spec => []NoRepeatWithoutLostMark
<1>1. Sound /\ Safe => NoRepeatWithoutLostMark
  <2> SUFFICES ASSUME Sound, Safe, pc = "send", item \in lives.shown PROVE item \in lives.unmarked
    BY DEF NoRepeatWithoutLostMark
  <2>1. StillWanted /\ Ringing = {}
    BY DEF Sound, Carried, Ringing
  <2> QED BY <2>1, WantedIsFresh
<1> QED BY <1>1, AlwaysSound, AlwaysSafe, PTL

(* Send and Hide are the steps of a decision; no other step filters an entry. *)
LEMMA CurrentStep ==
  ASSUME Sound, [Next]_vars
  PROVE  /\ pc = "send" /\ pc' = "mark" =>
              feed # Nothing /\ feed.enabled /\ feed.source = snap.source /\ (manual \/ ~paused)
         /\ lives'.filtered \ lives.filtered # {} => feed # Nothing /\ feed.rule = rule /\ rule # NoRule
<1>1. pc = "send" => feed # Nothing /\ feed.enabled /\ feed.source = snap.source /\ (manual \/ ~paused)
  BY WantedState DEF Sound, Carried
<1>2. CASE Hide
  <2>1. StillWanted /\ verdict = "irrelevant"
    BY <1>2 DEF Hide
  <2> QED BY <1>1, <2>1, WantedState DEF Sound, Carried
<1>3. CASE ~Hide
  <2>1. lives'.filtered \subseteq lives.filtered
    <3>1. CASE Fetched /\ Current
      BY <3>1, FetchedEffect
    <3>2. CASE Mark
      <4>1. lives \in Lives /\ StillWanted /\ pc = "mark"
        BY <3>2 DEF Mark, Sound, TypeOK, Carried
      <4> QED BY <3>2, <4>1, DeliveredEffect DEF Mark
    <3>3. CASE LoseMark
      BY <3>3, LoseMarkType
    <3>4. CASE Send
      BY <3>4 DEF Send, Sound, TypeOK, Lives
    <3>5. CASE lives' = lives \/ lives' = Unlived
      BY <3>5, UnlivedFields
    <3> QED
      BY <1>3, <3>1, <3>2, <3>3, <3>4, <3>5
      DEF Next, Poll, Deliver, Fault, Screen, vars, StartPoll, Check, Fetched, FetchFails, Failed, List, Pick,
          Done, Skip, Decide, SendRefused, SaveFails, Interrupted, Killed, PutFeed, RemoveFeed, Forget,
          SetPaused, ClearHistory, RemoveHistory
  <2> QED BY <1>1, <2>1
<1> QED BY <1>2, <1>3

(* Pause, deletion and edit take effect at once: an alert leaves for a current source only,
   and an entry is hidden only by the rule of this moment. *)
THEOREM DecisionsCurrent == Spec => DecisionsAreCurrent
<1>1. Sound /\ [Next]_vars =>
        [ /\ pc = "send" /\ pc' = "mark" =>
               feed # Nothing /\ feed.enabled /\ feed.source = snap.source /\ (manual \/ ~paused)
          /\ lives'.filtered \ lives.filtered # {} =>
               feed # Nothing /\ feed.rule = rule /\ rule # NoRule ]_vars
  BY CurrentStep
<1> QED BY <1>1, AlwaysSound, PTL DEF Spec, DecisionsAreCurrent

(* Every save carries the verdicts of the entries that wait. *)
LEMMA VerdictStep ==
  ASSUME Sound, [Next]_vars, HasState, stored' # Nothing,
         NEW i \in stored.pending \cap stored'.pending, stored.decided[i] # NoRule
  PROVE  stored'.decided[i] \in {stored.decided[i], rule} \ {NoRule}
<1>i. i \in Ids /\ stored \in PollState
  BY DEF Sound, TypeOK, HasState, PollState
<1>1. CASE Fetched /\ Current
  BY <1>1, FetchedEffect
<1>2. CASE Failed /\ Current
  BY <1>2, CurrentState DEF Failed, Sound
<1>3. CASE Hide \/ Mark
  <2>1. lives \in Lives /\ StillWanted /\ pc \in {"commit", "mark"} /\ item \in Ids
    BY <1>3 DEF Hide, Mark, Sound, TypeOK, Carried
  <2>2. [lives EXCEPT !.filtered = @ \cup {item}] \in Lives
    BY <2>1 DEF Lives
  <2>3. /\ stored'.pending = stored.pending \ {item}
        /\ stored'.decided = [stored.decided EXCEPT ![item] = NoRule]
    BY <1>3, <2>1, <2>2, DeliveredEffect DEF Hide, Mark
  <2> QED BY <1>i, <2>3 DEF PollState
<1>4. CASE Decide
  <2>1. /\ StateOf(snap) = stored /\ item \in Ids /\ rule \in Rules \cup {NoRule}
    BY <1>4, WantedState DEF Decide, Sound, TypeOK, Carried
  <2>2. stored' = stored \/ (stored' = DecidedAs(stored, item, rule) /\ rule # NoRule)
    BY <1>4, <2>1 DEF Decide, DecidedAs, Sound, Carried
  <2>3. CASE stored' = DecidedAs(stored, item, rule) /\ rule # NoRule
    <3>1. stored'.decided = [stored.decided EXCEPT ![item] = rule]
      BY <1>i, <2>1, <2>3, DecidedType
    <3> QED BY <1>i, <2>3, <3>1 DEF PollState
  <2> QED BY <2>2, <2>3
<1>5. CASE stored' = stored
  BY <1>5
<1> QED
  BY <1>1, <1>2, <1>3, <1>4, <1>5
  DEF Next, Poll, Deliver, Fault, Screen, vars, durable, StartPoll, Check, Fetched, FetchFails, Failed, List,
      Pick, Done, Skip, Send, SendRefused, SaveFails, Interrupted, Killed, PutFeed, RemoveFeed, Forget,
      SetPaused, ClearHistory, RemoveHistory

(* A verdict that was paid for stays while its entry waits, or is replaced by that of the
   present rule. *)
THEOREM VerdictsKept == Spec => VerdictIsKept
<1>1. Sound /\ [Next]_vars =>
        [ HasState /\ stored' # Nothing =>
            \A i \in stored.pending \cap stored'.pending :
              stored.decided[i] # NoRule => stored'.decided[i] \in {stored.decided[i], rule} \ {NoRule} ]_vars
  BY VerdictStep
<1> QED BY <1>1, AlwaysSound, PTL DEF Spec, VerdictIsKept

-----------------------------------------------------------------------------
(* The refinement.  The state of the ledger, as the document and the poll give it. *)
Status == [i \in Ids |-> IF stored = Nothing THEN "new"
                         ELSE IF i \in stored.seen THEN "known"
                         ELSE IF i \in stored.pending THEN "pending" ELSE "new"]

Bell == IF pc = "mark" THEN item ELSE Nothing

(* Each of the ledger's operations, in terms of that state. *)
LEMMA LedgerPrimes ==
  ASSUME NEW S \in SUBSET Ids, Bell = Nothing, Bell' = Nothing,
         Status' = [i \in Ids |-> IF i \in S THEN "known" ELSE "new"]
  PROVE  Ledger!Next
<1>1. Ledger!Prime(S)
  BY DEF Ledger!Prime, Status, Bell
<1> QED BY <1>1 DEF Ledger!Next

LEMMA LedgerNotices ==
  ASSUME NEW P \in SUBSET Ids, NEW K \in SUBSET Ids, NEW F \in SUBSET Ids,
         Bell = Nothing, Bell' = Nothing, P \cap K = {},
         \A i \in P \cup K : Status[i] = "new", \A i \in F : Status[i] = "known",
         Status' = [i \in Ids |-> IF i \in P THEN "pending"
                                  ELSE IF i \in K THEN "known"
                                  ELSE IF i \in F THEN "new" ELSE Status[i]]
  PROVE  Ledger!Next
<1>1. Ledger!Notice(P, K, F)
  BY DEF Ledger!Notice, Status, Bell
<1>2. /\ P \in SUBSET Ledger!Are("new") /\ K \in SUBSET Ledger!Are("new")
      /\ F \in SUBSET Ledger!Are("known")
  BY DEF Ledger!Are, Status
<1> QED BY <1>1, <1>2 DEF Ledger!Next

LEMMA LedgerRings ==
  ASSUME NEW i \in Ids, Bell = Nothing, Bell' = i, Status[i] = "pending", Status' = Status
  PROVE  Ledger!Next
<1>1. Ledger!Ring(i)
  BY DEF Ledger!Ring, Status, Bell
<1> QED BY <1>1 DEF Ledger!Next

LEMMA LedgerSettles ==
  ASSUME NEW i \in Ids, NEW F \in SUBSET Ids, Bell \in {Nothing, i}, Bell' = Nothing,
         Status[i] = "pending", \A j \in F : Status[j] = "known",
         Status' = [j \in Ids |-> IF j = i THEN "known" ELSE IF j \in F THEN "new" ELSE Status[j]]
  PROVE  Ledger!Next
<1>1. Ledger!Settle(i, F)
  BY DEF Ledger!Settle, Status, Bell
<1>2. F \in SUBSET Ledger!Are("known")
  BY DEF Ledger!Are, Status
<1> QED BY <1>1, <1>2 DEF Ledger!Next

LEMMA LedgerInterrupted ==
  ASSUME Status' = Status, Bell' = Nothing
  PROVE  Ledger!Next \/ UNCHANGED Ledger!ledger
<1>1. CASE Bell = Nothing
  BY <1>1 DEF Ledger!ledger, Status, Bell
<1>2. CASE Bell # Nothing
  <2>1. Ledger!Interrupt
    BY <1>2 DEF Ledger!Interrupt, Status, Bell
  <2> QED BY <2>1 DEF Ledger!Next
<1> QED BY <1>1, <1>2

LEMMA LedgerStutters ==
  ASSUME Status' = Status, Bell' = Bell
  PROVE  UNCHANGED Ledger!ledger
BY DEF Ledger!ledger, Status, Bell

LEMMA InitLedger == Init => Ledger!Init
BY DEF Ledger!Init, Init

(* A merge: a reference under a state without one, and news with its trim otherwise. *)
LEMMA LedgerFetched ==
  ASSUME Sound, Safe, Fetched, Current
  PROVE  Ledger!Next
<1>1. PICK b \in Batches :
        LET st == StateOf(snap)
            new == Merged(st, b)
            gone == Excess(new)
        IN /\ st \in PollState
           /\ st = IF HasState THEN stored ELSE EmptyState(snap.source)
           /\ stored' \in PollState /\ HasState'
           /\ stored'.seen = new.seen \ gone /\ stored'.pending = new.pending
           /\ new.seen = st.seen \cup Absorbed(st, b)
           /\ new.pending = (st.pending \cup Unknown(st, b)) \ Absorbed(st, b)
           /\ Absorbed(st, b) \subseteq Unknown(st, b)
           /\ Unknown(st, b) = IdsOf(b) \ (st.seen \cup st.pending)
           /\ ~st.initialized => Absorbed(st, b) = Unknown(st, b)
  BY FetchedEffect
<1> DEFINE st == StateOf(snap)
           gone == Excess(Merged(st, b))
           old == Absorbed(st, b)
           fresh == Unknown(st, b)
<1>2. Bell = Nothing /\ Bell' = Nothing
  BY DEF Fetched, Bell
<1>3. IdsOf(b) \in SUBSET Ids
  BY BatchType
<1>4. CASE HasState /\ stored.initialized
  <2> DEFINE P == fresh \ old
             K == old \ gone
             F == stored.seen \cap gone
  <2>1. /\ stored # Nothing /\ stored' # Nothing
        /\ stored'.seen = (stored.seen \cup old) \ gone
        /\ stored'.pending = (stored.pending \cup fresh) \ old
        /\ old \subseteq fresh /\ fresh = IdsOf(b) \ (stored.seen \cup stored.pending)
        /\ stored.seen \cap stored.pending = {} /\ stored.seen \subseteq Ids
    BY <1>1, <1>4 DEF Safe, Tidy, HasState, PollState
  <2> HIDE DEF st, gone, old, fresh
  <2>2. /\ P \in SUBSET Ids /\ K \in SUBSET Ids /\ F \in SUBSET Ids /\ P \cap K = {}
        /\ \A i \in P \cup K : Status[i] = "new"
        /\ \A i \in F : Status[i] = "known"
    BY <1>3, <2>1 DEF Status
  <2>3. Status' = [i \in Ids |-> IF i \in P THEN "pending"
                                 ELSE IF i \in K THEN "known"
                                 ELSE IF i \in F THEN "new" ELSE Status[i]]
    BY <2>1 DEF Status
  <2> HIDE DEF P, K, F
  <2> QED BY <1>2, <2>2, <2>3, LedgerNotices
<1>5. CASE ~(HasState /\ stored.initialized)
  <2>1. st.seen = {} /\ st.pending = {} /\ ~st.initialized
    BY <1>1, <1>5 DEF Safe, Accounted, EmptyState
  <2>2. stored' # Nothing /\ stored'.seen = IdsOf(b) \ gone /\ stored'.pending = {}
    BY <1>1, <2>1 DEF HasState
  <2> HIDE DEF gone
  <2>3. Status' = [i \in Ids |-> IF i \in IdsOf(b) \ gone THEN "known" ELSE "new"]
    BY <2>2 DEF Status
  <2> QED BY <1>2, <1>3, <2>3, LedgerPrimes
<1> QED BY <1>4, <1>5

(* An entry is settled by its mark, or by the filter. *)
LEMMA LedgerDelivered ==
  ASSUME Sound, Safe, StillWanted, pc \in {"commit", "mark"}, pc' # "mark", NEW lived \in Lives,
         Save(Delivered(StateOf(snap), item), lived)
  PROVE  Ledger!Next
<1>1. PICK gone \in SUBSET Ids :
        /\ HasState' /\ item \in Ids
        /\ item \notin stored.seen => item \notin gone
        /\ stored'.seen = (stored.seen \cup {item}) \ gone
        /\ stored'.pending = stored.pending \ {item}
  BY DeliveredEffect
<1>2. HasState /\ item \in stored.pending /\ item \notin stored.seen
  BY WantedIsFresh
<1>3. stored.seen \cap stored.pending = {}
  BY <1>2 DEF Safe, Tidy
<1> DEFINE F == stored.seen \cap gone
<1>4. F \in SUBSET Ids /\ Status[item] = "pending" /\ \A j \in F : Status[j] = "known"
  BY <1>1, <1>2 DEF Status, HasState
<1>5. Status' = [j \in Ids |-> IF j = item THEN "known" ELSE IF j \in F THEN "new" ELSE Status[j]]
  BY <1>1, <1>2, <1>3 DEF Status, HasState
<1>6. Bell \in {Nothing, item} /\ Bell' = Nothing
  BY DEF Bell
<1> HIDE DEF F
<1> QED BY <1>1, <1>4, <1>5, <1>6, LedgerSettles

LEMMA LedgerStep ==
  ASSUME Sound, Safe, [Next]_vars
  PROVE  Ledger!Next \/ UNCHANGED Ledger!ledger
<1> USE DEF durable, volatile, bounds
<1>1. CASE stored' = stored /\ pc' # "mark"
  <2>1. Status' = Status /\ Bell' = Nothing
    BY <1>1 DEF Status, Bell
  <2> QED BY <2>1, LedgerInterrupted
<1>2. CASE Fetched /\ Current
  BY <1>2, LedgerFetched
<1>3. CASE Failed /\ Current
  <2>1. pc' = "list" /\ stored' \in {StateOf(snap), stored}
    BY <1>3 DEF Failed
  <2>2. CASE stored' # stored
    <3>1. stored = Nothing /\ stored' = EmptyState(snap.source)
      BY <1>3, <2>1, <2>2, CurrentState DEF Sound, HasState
    <3>2. stored'.seen = {} /\ stored'.pending = {}
      BY <3>1 DEF EmptyState
    <3>3. Status' = Status /\ Bell' = Nothing
      BY <2>1, <3>1, <3>2 DEF Status, Bell
    <3> QED BY <3>3, LedgerInterrupted
  <2> QED BY <1>1, <2>1, <2>2
<1>4. CASE Hide
  <2> DEFINE lived == [lives EXCEPT !.filtered = @ \cup {item}]
  <2>1. /\ lived \in Lives /\ StillWanted /\ pc = "commit" /\ pc' = "pick"
        /\ Save(Delivered(StateOf(snap), item), lived)
    BY <1>4 DEF Hide, ToPick, Sound, TypeOK, Carried, Lives
  <2> HIDE DEF lived
  <2> QED BY <2>1, LedgerDelivered
<1>5. CASE Mark
  <2>1. /\ lives \in Lives /\ StillWanted /\ pc = "mark" /\ pc' = "pick"
        /\ Save(Delivered(StateOf(snap), item), lives)
    BY <1>5 DEF Mark, ToPick, Sound, TypeOK, Carried
  <2> QED BY <2>1, LedgerDelivered
<1>6. CASE Decide
  <2>1. /\ HasState /\ StateOf(snap) = stored /\ stored \in PollState /\ item \in Ids
        /\ rule \in Rules \cup {NoRule} /\ pc' = "send"
    BY <1>6, WantedState DEF Decide, Sound, TypeOK, Carried, HasState
  <2>2. stored' = stored \/ stored' = DecidedAs(stored, item, rule)
    BY <1>6, <2>1 DEF Decide, DecidedAs
  <2>3. CASE stored' = DecidedAs(stored, item, rule)
    <3>1. stored'.seen = stored.seen /\ stored'.pending = stored.pending
      BY <2>1, <2>3, DecidedType
    <3>2. stored' # Nothing /\ stored # Nothing
      <4>1. stored' \in PollState
        BY <2>1, <2>3, DecidedType
      <4> QED BY <2>1, <4>1, NothingAssumption
    <3>3. Status' = Status /\ Bell' = Nothing
      BY <2>1, <3>1, <3>2 DEF Status, Bell
    <3> QED BY <3>3, LedgerInterrupted
  <2> QED BY <1>1, <2>1, <2>2, <2>3
<1>7. CASE Send
  <2>1. /\ HasState /\ item \in stored.pending /\ item \notin stored.seen /\ item \in Ids
    BY <1>7, WantedIsFresh DEF Send, Sound, Carried
  <2>2. stored' = stored /\ item' = item /\ pc = "send" /\ pc' = "mark"
    BY <1>7 DEF Send
  <2>3. Status[item] = "pending" /\ Status' = Status /\ Bell = Nothing /\ Bell' = item
    BY <2>1, <2>2 DEF Status, Bell, HasState
  <2> QED BY <2>1, <2>3, LedgerRings
<1>8. ASSUME Edit, pc' = pc, stored' \in {stored, Nothing}
      PROVE  Ledger!Next \/ UNCHANGED Ledger!ledger
  <2>1. Bell = Nothing /\ Bell' = Nothing
    BY <1>8 DEF Edit, Bell
  <2>2. CASE stored' = Nothing
    <3> DEFINE S == {}
    <3>1. S \in SUBSET Ids
      OBVIOUS
    <3>2. Status' = [i \in Ids |-> IF i \in S THEN "known" ELSE "new"]
      BY <2>2 DEF Status
    <3> HIDE DEF S
    <3> QED BY <2>1, <3>1, <3>2, LedgerPrimes
  <2>3. CASE stored' = stored
    BY <2>1, <2>3, LedgerInterrupted DEF Status
  <2> QED BY <1>8, <2>2, <2>3
<1>9. CASE Screen
  <2>1. Edit /\ pc' = pc /\ stored' \in {stored, Nothing}
    BY <1>9 DEF Screen, PutFeed, RemoveFeed, Forget, SetPaused, ClearHistory, RemoveHistory
  <2> QED BY <1>8, <2>1
<1>10. CASE UNCHANGED vars
  BY <1>10, LedgerStutters DEF vars, Status, Bell
<1>11. CASE Leave /\ stored' = stored
  BY <1>1, <1>11, LeaveType
<1> QED
  BY <1>1, <1>2, <1>3, <1>4, <1>5, <1>6, <1>7, <1>9, <1>10, <1>11
  DEF Next, Poll, Deliver, Fault, StartPoll, Check, Fetched, FetchFails, Failed, List, Pick, Done, Skip,
      SendRefused, SaveFails, Interrupted, Killed, ToPick

(* The phone implements NotificationLedger: seen through the refinement mapping, every step,
   the edits on the screens, the faults and the forgetting of each save included, is an
   operation of the ledger or none. *)
THEOREM PhoneKeepsLedger == Spec => KeepsLedger
<1>1. Sound /\ Safe /\ [Next]_vars => [Ledger!Next]_(Ledger!ledger)
  BY LedgerStep
<1> QED BY <1>1, InitLedger, AlwaysSound, AlwaysSafe, PTL DEF Spec, KeepsLedger, Ledger!Spec
=============================================================================
