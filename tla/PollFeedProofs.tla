--------------------------- MODULE PollFeedProofs ---------------------------
(***************************************************************************)
(* Proofs about PollFeed, for every set of entries, sources and dates and  *)
(* every value of the bounds: type correctness, the safety invariants that *)
(* say an entry is neither lost nor repeated, the watermark, the pruning,  *)
(* and that the poller implements NotificationLedger.                      *)
(***************************************************************************)
EXTENDS PollFeed, FiniteSetTheorems, TLAPS

States == FeedState \cup {NoFile}

(* The newest of some dates is one of them, and none of them is later. *)
LEMMA LatestProperties ==
  ASSUME NEW ts \in SUBSET Times
  PROVE  /\ Latest(ts) \in Dates
         /\ ts # {} => Latest(ts) \in ts /\ \A u \in ts : u <= Latest(ts)
BY PollFeedAssumption DEF Latest, Dates

LEMMA DatesOfType ==
  ASSUME date \in [Ids -> Dates], NEW ids \in SUBSET Ids
  PROVE  DatesOf(ids) \in SUBSET Times
BY DEF DatesOf, Dates

LEMMA BatchType ==
  ASSUME NEW b \in Batches
  PROVE  /\ IdsOf(b) \in SUBSET Ids
         /\ \A m, n \in DOMAIN b : m \in Int /\ n \in Int /\ (b[m] = b[n] => m = n)
<1>1. PICK n \in 0..Cardinality(Ids) :
        b \in [1..n -> Ids] /\ \A j, k \in 1..n : b[j] = b[k] => j = k
  BY DEF Batches
<1>2. Cardinality(Ids) \in Nat
  BY PollFeedAssumption, FS_CardinalityType
<1>3. DOMAIN b = 1..n /\ \A k \in 1..n : k \in Int
  BY <1>1, <1>2
<1> QED BY <1>1, <1>3 DEF IdsOf

LEMMA EmptyBatch == <<>> \in Batches /\ IdsOf(<<>>) = {}
<1>1. Cardinality(Ids) \in Nat
  BY PollFeedAssumption, FS_CardinalityType
<1>2. 0 \in 0..Cardinality(Ids) /\ 1..0 = {}
  BY <1>1
<1>3. <<>> \in [1..0 -> Ids] /\ DOMAIN <<>> = {}
  BY <1>2
<1>4. <<>> \in {b \in [1..0 -> Ids] : \A j, k \in 1..0 : b[j] = b[k] => j = k}
  BY <1>2, <1>3
<1> QED BY <1>2, <1>3, <1>4 DEF Batches, IdsOf

LEMMA RememberType ==
  ASSUME NEW st \in FeedState, NEW ids \in SUBSET Ids, NEW b
  PROVE  /\ Remember(st, ids, b) \in FeedState
         /\ Remember(st, ids, b).seen = st.seen \cup ids
         /\ Remember(st, ids, b).pending = st.pending
         /\ Remember(st, ids, b).newest = st.newest
         /\ Remember(st, ids, b).source = st.source
         /\ Remember(st, ids, b).legacy = st.legacy
<1> DEFINE new == ids \ st.seen
           more == (st.seen \X new) \cup {p \in new \X new : Precedes(b, p[1], p[2])}
<1>1. more \subseteq Ids \X Ids
  BY DEF FeedState
<1>2. Remember(st, ids, b) =
        [st EXCEPT !.seen = st.seen \cup new, !.older = st.older \cup more]
  BY DEF Remember, FeedState
<1> HIDE DEF more
<1> QED BY <1>1, <1>2 DEF FeedState

LEMMA ClassifiedType ==
  ASSUME date \in [Ids -> Dates], NEW st \in FeedState, NEW b \in Batches, NEW t \in Dates
  PROVE  /\ Classified(st, b, t) \in FeedState
         /\ st.seen \subseteq Classified(st, b, t).seen
         /\ Classified(st, b, t).seen \subseteq st.seen \cup IdsOf(b)
         /\ Classified(st, b, t).seen \cap Candidates(st, IdsOf(b), t) = {}
         /\ \A i \in st.pending : i \in Classified(st, b, t).seen => i \in st.seen
         /\ \A i \in Classified(st, b, t).pending :
              i \in st.pending \/ i \in Candidates(st, IdsOf(b), t)
         /\ \A i \in st.pending : i \in Classified(st, b, t).pending \/ i \in st.seen
         /\ Candidates(st, IdsOf(b), t) \subseteq Classified(st, b, t).pending
         /\ Classified(st, b, t).source = st.source
<1> DEFINE ids == IdsOf(b)
           old == {i \in ids : IsOldBackfill(st, i, t)}
           mid == Remember(st, old, b)
           can == Candidates(st, ids, t)
<1>1. ids \subseteq Ids
  BY BatchType
<1>2. can \subseteq Ids /\ old \subseteq ids /\ can \cap old = {} /\ can \cap st.seen = {}
      /\ old \cap st.pending = {}
  BY <1>1 DEF Candidates, IsOldBackfill
<1>3. /\ mid \in FeedState
      /\ mid.seen = st.seen \cup old
      /\ mid.pending = st.pending
      /\ mid.source = st.source
  BY <1>1, <1>2, RememberType
<1>4. Classified(st, b, t) =
        [mid EXCEPT !.pending = (mid.pending \ (old \cup (ids \cap st.seen))) \cup can,
                    !.newest = t, !.legacy = FALSE]
  BY <1>3 DEF Classified, FeedState
<1> HIDE DEF mid, old, can, ids
<1>5. /\ Classified(st, b, t) \in FeedState
      /\ Classified(st, b, t).seen = mid.seen
      /\ Classified(st, b, t).pending = (mid.pending \ (old \cup (ids \cap st.seen))) \cup can
      /\ Classified(st, b, t).newest = t
      /\ Classified(st, b, t).source = mid.source
      /\ Classified(st, b, t).legacy = FALSE
  BY <1>1, <1>2, <1>3, <1>4 DEF FeedState
<1> QED BY <1>2, <1>3, <1>5 DEF ids, can

LEMMA ClassifiedNewest ==
  ASSUME NEW st \in FeedState, NEW b, NEW t
  PROVE  Classified(st, b, t).newest = t
BY DEF Classified, Remember, FeedState

LEMMA MarkedSeenType ==
  ASSUME NEW st \in FeedState, NEW i \in Ids
  PROVE  /\ MarkedSeen(st, i) \in FeedState
         /\ MarkedSeen(st, i).seen = st.seen \cup {i}
         /\ MarkedSeen(st, i).pending = st.pending \ {i}
         /\ MarkedSeen(st, i).newest = st.newest
         /\ MarkedSeen(st, i).source = st.source
         /\ MarkedSeen(st, i).legacy = st.legacy
<1> DEFINE mid == Remember(st, {i}, batch)
<1>1. /\ mid \in FeedState /\ mid.seen = st.seen \cup {i} /\ mid.pending = st.pending
      /\ mid.newest = st.newest /\ mid.source = st.source /\ mid.legacy = st.legacy
  BY RememberType
<1>2. MarkedSeen(st, i) = [mid EXCEPT !.pending = mid.pending \ {i}]
  BY <1>1 DEF MarkedSeen, FeedState
<1> HIDE DEF mid
<1> QED BY <1>1, <1>2 DEF FeedState

LEMMA WithoutType ==
  ASSUME NEW st \in FeedState, NEW drop
  PROVE  /\ Without(st, drop) \in FeedState
         /\ Without(st, drop).seen = st.seen \ drop
         /\ Without(st, drop).pending = st.pending
         /\ Without(st, drop).newest = st.newest
         /\ Without(st, drop).source = st.source
         /\ Without(st, drop).legacy = st.legacy
<1> DEFINE keep == st.older \cap ((st.seen \ drop) \X (st.seen \ drop))
<1>1. Without(st, drop) = [st EXCEPT !.seen = st.seen \ drop, !.older = keep]
  BY DEF Without, FeedState
<1>2. keep \subseteq Ids \X Ids
  BY DEF FeedState
<1> HIDE DEF keep
<1> QED BY <1>1, <1>2 DEF FeedState

LEMMA EmptyStateType ==
  ASSUME NEW s \in Sources \cup {NoSource}
  PROVE  EmptyState(s) \in FeedState
BY DEF EmptyState, FeedState, Dates

LEMMA BaselineType ==
  ASSUME date \in [Ids -> Dates], NEW st \in FeedState, NEW ids \in SUBSET Ids, NEW t \in Dates
  PROVE  Baseline(st, ids, t) \in Dates
<1>1. DatesOf(ids \cap st.seen) \cup ({t} \ {NoTime}) \in SUBSET Times
  BY DatesOfType DEF Dates
<1>2. Latest(DatesOf(ids \cap st.seen) \cup ({t} \ {NoTime})) \in Dates
  BY <1>1, LatestProperties
<1> QED BY <1>2 DEF Baseline, FeedState

-----------------------------------------------------------------------------
LEMMA IdleType == Idle => /\ pc' = "idle" /\ mem' \in States /\ batch' \in Batches
                          /\ todo' \subseteq Ids /\ fresh' \in BOOLEAN /\ outage' \in BOOLEAN
BY EmptyBatch DEF Idle, States

(* While a cycle runs, memory holds a complete state. *)
Loaded == pc # "idle" => mem \in FeedState

TypeInv == TypeOK /\ Loaded

LEMMA InitType == Init => TypeInv
<1> SUFFICES ASSUME Init PROVE TypeInv
  OBVIOUS
<1>1. \A i \in Ids, t \in Dates, l \in BOOLEAN : OldFile(i, t, l) \in FeedState
  BY DEF OldFile, FeedState
<1>2. disk \in FeedState \cup {NoFile}
  BY <1>1 DEF Init, Dates
<1>3. hist.primed \subseteq Ids
  BY <1>2 DEF Init, FeedState
<1>4. hist \in History
  BY <1>3 DEF Init, History
<1>5. faults \in 0..MaxFaults
  BY PollFeedAssumption DEF Init
<1> QED BY <1>2, <1>4, <1>5, EmptyBatch DEF Init, TypeInv, TypeOK, Loaded, Snapshot

LEMMA NextType == TypeInv /\ [Next]_vars => TypeInv'
<1> SUFFICES ASSUME TypeInv, [Next]_vars PROVE TypeInv'
  OBVIOUS
<1> USE DEF TypeInv, TypeOK, Loaded
<1>a. faults < MaxFaults /\ faults' = faults + 1 => faults' \in 0..MaxFaults
  BY PollFeedAssumption
<1>1. CASE Load
  <2>1. config.source \in Sources \cup {NoSource} /\ disk # NoFile => disk \in FeedState
    BY DEF Snapshot
  <2>2. mem' \in FeedState
    <3>1. EmptyState(config.source) \in FeedState
      BY EmptyStateType DEF Snapshot
    <3>2. disk # NoFile => [disk EXCEPT !.source = config.source] \in FeedState
      BY DEF FeedState, Snapshot
    <3> QED BY <1>1, <3>1, <3>2 DEF Load
  <2> QED BY <1>1, <2>2 DEF Load
<1>2. CASE Prime
  <2>1. PICK b \in Batches :
          /\ disk' = [Remember(mem, IdsOf(b), b) EXCEPT !.newest = Latest(DatesOf(IdsOf(b)))]
          /\ hist' = [primed |-> IdsOf(b), pended |-> {}, shown |-> {}, rejected |-> {},
                      unmarked |-> {}]
    BY <1>2 DEF Prime
  <2>2. mem \in FeedState /\ Remember(mem, IdsOf(b), b) \in FeedState
    BY <1>2, BatchType, RememberType DEF Prime
  <2>3. Latest(DatesOf(IdsOf(b))) \in Dates
    BY BatchType, DatesOfType, LatestProperties
  <2>4. disk' \in FeedState
    BY <2>1, <2>2, <2>3 DEF FeedState
  <2>5. hist' \in History
    BY <2>1, BatchType DEF History
  <2> QED BY <1>2, <2>4, <2>5, IdleType DEF Prime, States
<1>3. CASE Classify
  <2>1. PICK b \in Batches, t \in Dates :
          /\ batch' = b
          /\ todo' = Candidates(mem, IdsOf(b), Baseline(mem, IdsOf(b), t))
          /\ Save(Classified(mem, b, Baseline(mem, IdsOf(b), t)))
          /\ hist' = [hist EXCEPT !.pended = @ \cup todo']
    BY <1>3 DEF Classify
  <2>2. Baseline(mem, IdsOf(b), t) \in Dates
    BY <1>3, BatchType, BaselineType DEF Classify
  <2>3. Classified(mem, b, Baseline(mem, IdsOf(b), t)) \in FeedState
    BY <1>3, <2>2, ClassifiedType DEF Classify
  <2>4. todo' \subseteq Ids
    BY <2>1, BatchType DEF Candidates
  <2>5. hist' \in History
    BY <2>1, <2>4 DEF History
  <2> QED BY <1>3, <2>1, <2>3, <2>4, <2>5 DEF Classify, Save
<1>4. ASSUME NEW i \in Ids, Reject(i) PROVE TypeInv'
  <2>1. MarkedSeen(mem, i) \in FeedState
    BY <1>4, MarkedSeenType DEF Reject
  <2>2. hist' \in History
    BY <1>4 DEF Reject, History
  <2> QED BY <1>4, <2>1, <2>2 DEF Reject, Save
<1>5. ASSUME NEW i \in Ids, Toast(i) PROVE TypeInv'
  <2>1. hist' \in History
    BY <1>5 DEF Toast, History
  <2> QED BY <1>5, <2>1 DEF Toast, Judged
<1>6. ASSUME NEW i \in Ids, ToastFails(i) PROVE TypeInv'
  BY <1>6, <1>a DEF ToastFails, Judged
<1>7. ASSUME NEW i \in Ids, MarkSeen(i) PROVE TypeInv'
  <2>1. MarkedSeen(mem, i) \in FeedState
    BY <1>7, MarkedSeenType DEF MarkSeen
  <2> QED BY <1>7, <2>1 DEF MarkSeen, Save
<1>8. CASE AdvanceWatermark
  <2> DEFINE ts == ({mem.newest} \ {NoTime}) \cup DatesOf(Shown)
  <2>1. mem \in FeedState /\ Shown = IdsOf(batch)
    BY <1>8 DEF AdvanceWatermark, Shown, IdsOf
  <2>2. ts \in SUBSET Times
    BY <2>1, BatchType, DatesOfType DEF FeedState, Dates
  <2>3. Latest(ts) \in Dates
    BY <2>2, LatestProperties
  <2>4. mem' = [mem EXCEPT !.newest = Latest(ts)] /\ disk' = mem'
    BY <1>8, <2>1 DEF AdvanceWatermark, Save, FeedState
  <2>5. mem' \in FeedState
    BY <2>1, <2>3, <2>4 DEF FeedState
  <2> QED BY <1>8, <2>4, <2>5 DEF AdvanceWatermark
<1>9. CASE ForgetOldest
  <2> DEFINE drop == Forgettable(mem, Shown)
  <2>1. disk' = Without(mem, drop) /\ drop \subseteq Ids /\ mem \in FeedState
    BY <1>9 DEF ForgetOldest, Forgettable, FeedState
  <2>2. disk' \in FeedState
    BY <2>1, WithoutType
  <2>3. hist' \in History
    BY <1>9, <2>1 DEF ForgetOldest, History
  <2> QED BY <1>9, <2>2, <2>3, IdleType DEF ForgetOldest, States
<1>10. CASE CycleLost
  <2>1. hist' \in History
    BY <1>10 DEF CycleLost, History
  <2> QED BY <1>10, <1>a, <2>1, IdleType DEF CycleLost, States
<1>11. CASE EditConfig
  BY <1>11 DEF EditConfig
<1>12. CASE UNCHANGED vars
  BY <1>12 DEF vars
<1> QED
  BY <1>1, <1>2, <1>3, <1>4, <1>5, <1>6, <1>7, <1>8, <1>9, <1>10, <1>11, <1>12
  DEF Next, Poll, Fault

(* Every variable keeps its type, whatever the step the process dies at. *)
THEOREM TypeCorrect == Spec => []TypeInv
BY InitType, NextType, PTL DEF Spec

(* TypeOK is its first half. *)
THEOREM TypesAreRight == Spec => []TypeOK
<1>1. TypeInv => TypeOK
  BY DEF TypeInv
<1> QED BY <1>1, TypeCorrect, PTL

-----------------------------------------------------------------------------
LEMMA ShownType == TypeInv => Shown = IdsOf(batch) /\ Shown \subseteq Ids
BY BatchType DEF Shown, IdsOf, TypeInv, TypeOK

(* The source's order is total on a batch: one candidate at a time is next. *)
LEMMA NextCandidateUnique ==
  ASSUME TypeInv, todo \subseteq Shown, NEW i, NEW j, IsNextCandidate(i), IsNextCandidate(j)
  PROVE  i = j
<1>1. PICK m \in DOMAIN batch, n \in DOMAIN batch : batch[m] = i /\ batch[n] = j
  BY DEF Shown, IsNextCandidate
<1>2. m \in Int /\ n \in Int
  BY BatchType DEF TypeInv, TypeOK
<1>3. ~(m < n) /\ ~(n < m)
  BY <1>1 DEF IsNextCandidate, Precedes
<1> QED BY <1>1, <1>2, <1>3

(* What each step that writes the file leaves in it. *)
LEMMA LoadEffect ==
  ASSUME TypeInv, Load
  PROVE  /\ mem'.source = config.source
         /\ fresh' => /\ mem' = EmptyState(config.source)
                      /\ OnDisk => disk.source \notin {NoSource, config.source}
         /\ ~fresh' => /\ OnDisk /\ mem'.seen = disk.seen /\ mem'.older = disk.older
                       /\ mem'.pending = disk.pending /\ mem'.newest = disk.newest
<1>1. disk # NoFile => disk \in FeedState
  BY DEF TypeInv, TypeOK
<1>2. \/ fresh' /\ mem' = EmptyState(config.source)
         /\ (disk # NoFile => disk.source \notin {NoSource, config.source})
      \/ ~fresh' /\ disk # NoFile /\ mem' = [disk EXCEPT !.source = config.source]
  BY DEF Load
<1> QED BY <1>1, <1>2 DEF FeedState, EmptyState, OnDisk

LEMMA PrimeEffect ==
  ASSUME TypeInv, Inductive, pc = "fetch", fresh, NEW b \in Batches,
         disk' = [Remember(mem, IdsOf(b), b) EXCEPT !.newest = Latest(DatesOf(IdsOf(b)))]
  PROVE  /\ disk' \in FeedState /\ disk' # NoFile
         /\ disk'.seen = IdsOf(b) /\ disk'.pending = {} /\ disk'.source = mem.source
         /\ disk'.older = Remember(mem, IdsOf(b), b).older
<1>1. mem \in FeedState /\ mem.seen = {} /\ mem.pending = {}
  BY DEF TypeInv, Loaded, Inductive
<1>2. IdsOf(b) \in SUBSET Ids /\ date \in [Ids -> Dates]
  BY BatchType DEF TypeInv, TypeOK
<1> DEFINE mid == Remember(mem, IdsOf(b), b)
<1>3. /\ mid \in FeedState /\ mid.seen = mem.seen \cup IdsOf(b) /\ mid.pending = mem.pending
      /\ mid.source = mem.source
  <2>1. mid \in FeedState
    BY <1>1, <1>2, RememberType
  <2>2. mid.seen = mem.seen \cup IdsOf(b)
    BY <1>1, <1>2, RememberType
  <2>3. mid.pending = mem.pending
    BY <1>1, <1>2, RememberType
  <2>4. mid.source = mem.source
    BY <1>1, <1>2, RememberType
  <2> QED BY <2>1, <2>2, <2>3, <2>4
<1>4. Latest(DatesOf(IdsOf(b))) \in Dates
  BY <1>2, DatesOfType, LatestProperties
<1>5. disk' = [mid EXCEPT !.newest = Latest(DatesOf(IdsOf(b)))]
  OBVIOUS
<1> HIDE DEF mid
<1>6. /\ disk' \in FeedState /\ disk'.seen = mid.seen /\ disk'.pending = mid.pending
      /\ disk'.source = mid.source /\ disk'.older = mid.older
  BY <1>3, <1>4, <1>5 DEF FeedState
<1> QED BY <1>1, <1>3, <1>6, NoFileAssumption DEF mid

LEMMA ClassifyEffect ==
  ASSUME TypeInv, Inductive, Classify
  PROVE  \E b \in Batches, base \in Dates :
           LET can == Candidates(mem, IdsOf(b), base)
           IN /\ disk # NoFile /\ disk' = Classified(mem, b, base) /\ mem' = disk'
              /\ disk' \in FeedState
              /\ disk.seen \subseteq disk'.seen
              /\ disk'.seen \cap can = {} /\ disk'.seen \cap disk.pending = {}
              /\ disk'.pending = disk.pending \cup can
              /\ disk'.source = mem.source /\ disk'.newest = base
              /\ mem.newest # NoTime => base = mem.newest
              /\ todo' = can /\ can \subseteq IdsOf(b) /\ Shown' = IdsOf(b)
              /\ hist'.primed = hist.primed /\ hist'.shown = hist.shown
              /\ hist'.pended = hist.pended \cup can /\ hist'.rejected = hist.rejected
              /\ hist'.unmarked = hist.unmarked
<1>t. /\ mem \in FeedState /\ mem.seen = disk.seen /\ mem.pending = disk.pending
      /\ disk # NoFile /\ disk.seen \cap disk.pending = {}
      /\ date \in [Ids -> Dates] /\ hist \in History
  BY DEF Classify, TypeInv, TypeOK, Loaded, Inductive, OnDisk
<1>1. PICK b \in Batches, t \in Dates :
        /\ batch' = b
        /\ todo' = Candidates(mem, IdsOf(b), Baseline(mem, IdsOf(b), t))
        /\ Save(Classified(mem, b, Baseline(mem, IdsOf(b), t)))
        /\ hist' = [hist EXCEPT !.pended = @ \cup todo']
  BY DEF Classify
<1> DEFINE base == Baseline(mem, IdsOf(b), t)
           can == Candidates(mem, IdsOf(b), base)
           new == Classified(mem, b, base)
<1>2. base \in Dates /\ (mem.newest # NoTime => base = mem.newest)
  BY <1>t, BatchType, BaselineType DEF Baseline
<1>3. mem' = new /\ disk' = new /\ todo' = can
  BY <1>1 DEF Save
<1>4. can \subseteq IdsOf(b) /\ Shown' = IdsOf(b)
  BY <1>1 DEF Candidates, Shown, IdsOf
<1>5. /\ hist'.primed = hist.primed /\ hist'.shown = hist.shown
      /\ hist'.pended = hist.pended \cup can /\ hist'.rejected = hist.rejected
      /\ hist'.unmarked = hist.unmarked
  BY <1>t, <1>1 DEF History
<1> HIDE DEF base
<1>6. /\ new \in FeedState
      /\ disk.seen \subseteq new.seen
      /\ new.seen \cap can = {}
      /\ new.seen \cap disk.pending = {}
      /\ new.pending = disk.pending \cup can
      /\ new.newest = base /\ new.source = mem.source
  <2>1. new \in FeedState
    BY <1>t, <1>2, ClassifiedType
  <2>7. new.newest = base
    BY <1>t, ClassifiedNewest
  <2>8. new.source = mem.source
    BY <1>t, <1>2, ClassifiedType
  <2>2. mem.seen \subseteq new.seen /\ new.seen \cap can = {}
    BY <1>t, <1>2, ClassifiedType
  <2>3. \A i \in mem.pending : i \in new.seen => i \in mem.seen
    BY <1>t, <1>2, ClassifiedType
  <2>4. \A i \in new.pending : i \in mem.pending \/ i \in can
    BY <1>t, <1>2, ClassifiedType
  <2>5. \A i \in mem.pending : i \in new.pending \/ i \in mem.seen
    BY <1>t, <1>2, ClassifiedType
  <2>6. can \subseteq new.pending
    BY <1>t, <1>2, ClassifiedType
  <2> HIDE DEF new, can
  <2> QED BY <1>t, <2>1, <2>2, <2>3, <2>4, <2>5, <2>6, <2>7, <2>8
<1>7. b \in Batches /\ base \in Dates
  BY <1>1, <1>2
<1> QED BY <1>t, <1>2, <1>3, <1>4, <1>5, <1>6, <1>7

LEMMA MarkEffect ==
  ASSUME TypeInv, Inductive, pc \in {"deliver", "mark"}, NEW i \in Ids, IsNextCandidate(i),
         Save(MarkedSeen(mem, i))
  PROVE  /\ mem \in FeedState /\ mem = disk /\ disk # NoFile
         /\ i \in todo /\ i \in disk.pending /\ i \notin disk.seen
         /\ disk' = MarkedSeen(mem, i) /\ mem' = disk' /\ disk' \in FeedState /\ disk' # NoFile
         /\ disk'.seen = disk.seen \cup {i} /\ disk'.pending = disk.pending \ {i}
         /\ disk'.newest = disk.newest /\ disk'.source = disk.source
<1>1. /\ mem \in FeedState /\ mem = disk /\ disk # NoFile
      /\ i \in todo /\ i \in disk.pending /\ i \notin disk.seen
  BY DEF IsNextCandidate, TypeInv, Loaded, Inductive, DurableBeforeToast, OnDisk
<1> QED BY <1>1, MarkedSeenType, NoFileAssumption DEF Save

LEMMA AdvanceEffect ==
  ASSUME TypeInv, Inductive, AdvanceWatermark
  PROVE  /\ mem \in FeedState /\ mem = disk /\ disk # NoFile
         /\ mem' = disk' /\ disk' \in FeedState /\ disk' # NoFile
         /\ disk'.seen = disk.seen /\ disk'.pending = disk.pending
         /\ disk'.older = disk.older /\ disk'.source = disk.source
         /\ disk.newest # NoTime => disk'.newest # NoTime /\ disk'.newest >= disk.newest
<1>1. mem \in FeedState /\ mem = disk /\ disk # NoFile /\ date \in [Ids -> Dates]
  BY NoFileAssumption DEF AdvanceWatermark, TypeInv, TypeOK, Loaded, Inductive
<1> DEFINE ts == ({mem.newest} \ {NoTime}) \cup DatesOf(Shown)
<1>2. ts \in SUBSET Times
  BY <1>1, ShownType, DatesOfType DEF FeedState, Dates
<1>3. /\ Latest(ts) \in Dates
      /\ mem.newest # NoTime => Latest(ts) \in Times /\ mem.newest <= Latest(ts)
  BY <1>2, LatestProperties
<1>4. mem' = [mem EXCEPT !.newest = Latest(ts)] /\ disk' = mem'
  BY <1>1 DEF AdvanceWatermark, Save, FeedState
<1> HIDE DEF ts
<1>5. /\ mem' \in FeedState /\ mem'.seen = mem.seen /\ mem'.pending = mem.pending
      /\ mem'.older = mem.older /\ mem'.source = mem.source /\ mem'.newest = Latest(ts)
  BY <1>1, <1>3, <1>4 DEF FeedState
<1>6. mem.newest # NoTime => Latest(ts) # NoTime /\ Latest(ts) >= mem.newest
  BY <1>1, <1>3, PollFeedAssumption DEF FeedState, Dates
<1> QED BY <1>1, <1>4, <1>5, <1>6, NoFileAssumption

LEMMA ForgetEffect ==
  ASSUME TypeInv, Inductive, ForgetOldest
  PROVE  LET drop == Forgettable(disk, Shown)
         IN /\ mem \in FeedState /\ mem = disk /\ disk # NoFile /\ disk' = Without(disk, drop)
            /\ drop \subseteq disk.seen \ Shown
            /\ disk' \in FeedState /\ disk' # NoFile
            /\ disk'.seen = disk.seen \ drop /\ disk'.pending = disk.pending
            /\ disk'.newest = disk.newest /\ disk'.source = disk.source
            /\ hist'.primed = hist.primed \ drop /\ hist'.pended = hist.pended \ drop
            /\ hist'.shown = hist.shown \ drop /\ hist'.rejected = hist.rejected \ drop
            /\ hist'.unmarked = hist.unmarked \ drop
<1> DEFINE drop == Forgettable(disk, Shown)
<1>1. pc = "forget" /\ mem \in FeedState /\ mem = disk /\ hist \in History
  BY DEF ForgetOldest, TypeInv, TypeOK, Loaded, Inductive
<1>2. disk' = Without(disk, drop) /\ drop \subseteq disk.seen \ Shown
  BY <1>1 DEF ForgetOldest, Forgettable
<1>3. /\ hist'.primed = hist.primed \ drop /\ hist'.pended = hist.pended \ drop
      /\ hist'.shown = hist.shown \ drop /\ hist'.rejected = hist.rejected \ drop
      /\ hist'.unmarked = hist.unmarked \ drop
  BY <1>1 DEF ForgetOldest, History
<1> HIDE DEF drop
<1>4. /\ disk' \in FeedState /\ disk'.seen = disk.seen \ drop
      /\ disk'.pending = disk.pending /\ disk'.newest = disk.newest
      /\ disk'.source = disk.source
  BY <1>1, <1>2, WithoutType
<1>5. disk # NoFile /\ disk' # NoFile
  BY <1>1, <1>4, NoFileAssumption
<1> QED BY <1>1, <1>2, <1>3, <1>4, <1>5 DEF drop

LEMMA InitInductive == Init => Inductive
<1> SUFFICES ASSUME Init PROVE Inductive
  OBVIOUS
<1>1. disk # NoFile => disk.pending = {}
  BY DEF Init, OldFile
<1>2. disk # NoFile => OnDisk /\ hist.primed = disk.seen
  BY DEF Init, OnDisk
<1> QED
  BY <1>1, <1>2 DEF Init, Inductive, OnDisk, Shown, Ringing, PendingIsNeverLost,
                    PrimedStaysSilent, DurableBeforeToast

LEMMA IdleInductive ==
  ASSUME Idle
  PROVE  pc' = "idle" /\ todo' = {} /\ Shown' = {} /\ Ringing' = {}
BY DEF Idle, Shown, Ringing

LEMMA NextInductive == TypeInv /\ Inductive /\ [Next]_vars => Inductive'
<1> SUFFICES ASSUME TypeInv, Inductive, [Next]_vars PROVE Inductive'
  OBVIOUS
<1> USE DEF Inductive, PendingIsNeverLost, PrimedStaysSilent, DurableBeforeToast, OnDisk
<1>t. TypeOK /\ Loaded /\ Shown = IdsOf(batch) /\ hist \in History /\ TypeOK'
  BY ShownType, NextType DEF TypeInv, TypeOK
<1>h. disk # NoFile => disk \in FeedState
  BY <1>t DEF TypeOK
<1>1. CASE Load
  <2>1. /\ pc' = "fetch" /\ todo' = {} /\ Shown' = Shown /\ Ringing' = {}
        /\ disk' = disk /\ hist' = hist
    BY <1>1 DEF Load, Shown, Ringing
  <2>2. fresh' => mem'.seen = {} /\ mem'.pending = {}
    BY <1>1, <1>t, LoadEffect DEF EmptyState, TypeInv
  <2>3. ~fresh' => disk # NoFile /\ mem'.seen = disk.seen /\ mem'.pending = disk.pending
    BY <1>1, LoadEffect
  <2> QED BY <1>1, <2>1, <2>2, <2>3 DEF Load, Ringing
<1>2. CASE Prime
  <2>1. PICK b \in Batches :
          /\ disk' = [Remember(mem, IdsOf(b), b) EXCEPT !.newest = Latest(DatesOf(IdsOf(b)))]
          /\ hist' = [primed |-> IdsOf(b), pended |-> {}, shown |-> {}, rejected |-> {},
                      unmarked |-> {}]
    BY <1>2 DEF Prime
  <2>3. disk' # NoFile /\ disk'.seen = IdsOf(b) /\ disk'.pending = {}
    BY <1>2, <2>1, PrimeEffect DEF Prime
  <2> QED BY <1>2, <2>1, <2>3, IdleInductive DEF Prime
<1>3. CASE Classify
  <2>1. PICK b \in Batches, base \in Dates :
          LET can == Candidates(mem, IdsOf(b), base)
          IN /\ disk # NoFile /\ mem' = disk' /\ disk' \in FeedState
             /\ disk.seen \subseteq disk'.seen
             /\ disk'.seen \cap can = {} /\ disk'.seen \cap disk.pending = {}
             /\ disk'.pending = disk.pending \cup can
             /\ todo' = can /\ can \subseteq IdsOf(b) /\ Shown' = IdsOf(b)
             /\ hist'.primed = hist.primed /\ hist'.shown = hist.shown
             /\ hist'.pended = hist.pended \cup can /\ hist'.rejected = hist.rejected
             /\ hist'.unmarked = hist.unmarked
    BY <1>3, ClassifyEffect
  <2>2. pc' = "deliver" /\ Ringing' = {} /\ Ringing = {} /\ disk' # NoFile
    BY <1>3, <2>1, NoFileAssumption DEF Classify, Ringing
  <2>3. mem.seen = disk.seen /\ mem.pending = disk.pending
    BY <1>3 DEF Classify
  <2> DEFINE can == Candidates(mem, IdsOf(b), base)
  <2>4. can \cap disk.seen = {}
    BY <2>3 DEF Candidates
  <2> HIDE DEF can
  <2> QED BY <2>1, <2>2, <2>4 DEF can
<1>4. ASSUME NEW i \in Ids, Reject(i) PROVE Inductive'
  <2>1. /\ mem = disk /\ disk # NoFile /\ i \in todo /\ i \in disk.pending
        /\ disk' = mem' /\ disk' # NoFile
        /\ disk'.seen = disk.seen \cup {i} /\ disk'.pending = disk.pending \ {i}
    BY <1>4, MarkEffect DEF Reject
  <2>3. /\ hist'.primed = hist.primed /\ hist'.shown = hist.shown
        /\ hist'.pended = hist.pended /\ hist'.rejected = hist.rejected \cup {i}
        /\ hist'.unmarked = hist.unmarked
    BY <1>4, <1>t DEF Reject, History
  <2>4. /\ pc = "deliver" /\ pc' = "deliver" /\ todo' = todo \ {i} /\ Shown' = Shown
        /\ Ringing = {} /\ Ringing' = {}
    BY <1>4 DEF Reject, Shown, Ringing
  <2> QED BY <2>1, <2>3, <2>4
<1>5. ASSUME NEW i \in Ids, Toast(i) PROVE Inductive'
  <2>1. /\ hist'.primed = hist.primed /\ hist'.shown = hist.shown \cup {i}
        /\ hist'.pended = hist.pended /\ hist'.rejected = hist.rejected
        /\ hist'.unmarked = hist.unmarked \ {i}
    BY <1>5, <1>t DEF Toast, History
  <2>2. /\ pc = "deliver" /\ pc' = "mark" /\ todo' = todo /\ Shown' = Shown
        /\ disk' = disk /\ mem' = mem /\ i \in todo /\ Ringing = {}
    BY <1>5 DEF Toast, Shown, Ringing, IsNextCandidate
  <2>3. i \in Ringing' /\ Ringing' \subseteq {i}
    BY <1>5, NextCandidateUnique DEF Toast, Ringing, IsNextCandidate
  <2> QED BY <2>1, <2>2, <2>3
<1>6. ASSUME NEW i \in Ids, ToastFails(i) PROVE Inductive'
  <2>1. /\ pc = "deliver" /\ pc' = "deliver" /\ todo' = todo \ {i} /\ Shown' = Shown
        /\ disk' = disk /\ mem' = mem /\ hist' = hist /\ Ringing = {} /\ Ringing' = {}
    BY <1>6 DEF ToastFails, Shown, Ringing
  <2> QED BY <2>1
<1>7. ASSUME NEW i \in Ids, MarkSeen(i) PROVE Inductive'
  <2>1. /\ mem = disk /\ disk # NoFile /\ i \in todo /\ i \in disk.pending
        /\ disk' = mem' /\ disk' # NoFile
        /\ disk'.seen = disk.seen \cup {i} /\ disk'.pending = disk.pending \ {i}
    BY <1>7, MarkEffect DEF MarkSeen
  <2>3. /\ pc = "mark" /\ pc' = "deliver" /\ todo' = todo \ {i} /\ Shown' = Shown
        /\ hist' = hist /\ Ringing' = {}
    BY <1>7 DEF MarkSeen, Shown, Ringing
  <2>4. Ringing \subseteq {i}
    BY <1>7, NextCandidateUnique DEF MarkSeen, Ringing
  <2>5. i \in hist.shown
    BY <1>7 DEF MarkSeen, Ringing, IsNextCandidate
  <2> QED BY <2>1, <2>3, <2>4, <2>5
<1>8. CASE AdvanceWatermark
  <2>1. /\ mem = disk /\ disk # NoFile /\ mem' = disk' /\ disk' # NoFile
        /\ disk'.seen = disk.seen /\ disk'.pending = disk.pending
    BY <1>8, AdvanceEffect
  <2>2. /\ pc' = "forget" /\ todo = {} /\ todo' = {} /\ hist' = hist
        /\ Ringing = {} /\ Ringing' = {}
    BY <1>8 DEF AdvanceWatermark, Ringing
  <2> QED BY <2>1, <2>2
<1>9. CASE ForgetOldest
  <2> DEFINE drop == Forgettable(disk, Shown)
  <2>1. /\ disk # NoFile /\ disk' # NoFile
        /\ disk'.seen = disk.seen \ drop /\ disk'.pending = disk.pending
        /\ hist'.primed = hist.primed \ drop /\ hist'.pended = hist.pended \ drop
        /\ hist'.shown = hist.shown \ drop /\ hist'.rejected = hist.rejected \ drop
        /\ hist'.unmarked = hist.unmarked \ drop
        /\ drop \subseteq disk.seen
    BY <1>9, ForgetEffect
  <2>2. todo = {} /\ Ringing = {}
    BY <1>9 DEF ForgetOldest, Ringing
  <2> HIDE DEF drop
  <2> QED BY <1>9, <2>1, <2>2, IdleInductive DEF ForgetOldest
<1>10. CASE CycleLost
  <2>1. hist' = [hist EXCEPT !.unmarked = hist.unmarked \cup Ringing] /\ disk' = disk
    BY <1>10, <1>t DEF CycleLost, Ringing, History
  <2>2. /\ hist'.primed = hist.primed /\ hist'.pended = hist.pended
        /\ hist'.shown = hist.shown /\ hist'.rejected = hist.rejected
        /\ hist'.unmarked = hist.unmarked \cup Ringing
    BY <1>t, <2>1 DEF History
  <2> QED BY <1>10, <2>1, <2>2, IdleInductive DEF CycleLost
<1>11. CASE EditConfig
  BY <1>11 DEF EditConfig, Shown, Ringing, IsNextCandidate
<1>12. CASE UNCHANGED vars
  BY <1>12 DEF vars, Shown, Ringing, IsNextCandidate
<1> QED
  BY <1>1, <1>2, <1>3, <1>4, <1>5, <1>6, <1>7, <1>8, <1>9, <1>10, <1>11, <1>12
  DEF Next, Poll, Fault

(* The inductive invariant holds in every reachable state. *)
THEOREM InductiveHolds == Spec => []Inductive
BY InitInductive, NextInductive, TypeCorrect, PTL DEF Spec

(* Types and Inductive together: what the runs check. *)
THEOREM PollFeedInvariantHolds == Spec => []PollFeedInvariant
<1>1. TypeOK /\ Inductive => PollFeedInvariant
  BY DEF PollFeedInvariant
<1> QED BY <1>1, TypesAreRight, InductiveHolds, PTL

(* An entry saved as pending leaves the file only toasted or refused. *)
THEOREM PendingKept == Spec => []PendingIsNeverLost
<1>1. Inductive => PendingIsNeverLost
  BY DEF Inductive
<1> QED BY <1>1, InductiveHolds, PTL

(* No entry is toasted again, unless the process died before its mark. *)
THEOREM NoRepeat == Spec => []NoRepeatWithoutLostMark
<1>1. Inductive => NoRepeatWithoutLostMark
  BY DEF Inductive, NoRepeatWithoutLostMark, DurableBeforeToast, Ringing
<1> QED BY <1>1, InductiveHolds, PTL

(* Priming a source silences everything it showed. *)
THEOREM PrimedSilent == Spec => []PrimedStaysSilent
<1>1. Inductive => PrimedStaysSilent
  BY DEF Inductive
<1> QED BY <1>1, InductiveHolds, PTL

(* Candidates reach the file before the backend. *)
THEOREM DurableFirst == Spec => []DurableBeforeToast
<1>1. Inductive => DurableBeforeToast
  BY DEF Inductive
<1> QED BY <1>1, InductiveHolds, PTL
-----------------------------------------------------------------------------
(* The watermark.  Between the load and the first save memory holds the stored one,
   unless the cycle starts the source anew: then the file has another fingerprint. *)
Watermarked ==
  pc = "fetch" /\ OnDisk =>
    IF fresh THEN disk.source \notin {NoSource, mem.source} ELSE mem.newest = disk.newest

LEMMA NextWatermarked ==
  TypeInv /\ Inductive /\ Watermarked /\ [Next]_vars => Watermarked'
<1> SUFFICES ASSUME TypeInv, Inductive, Watermarked, [Next]_vars PROVE Watermarked'
  OBVIOUS
<1>1. CASE Load
  <2>1. disk' = disk /\ (fresh' => mem'.source = config.source)
    BY <1>1, LoadEffect DEF Load
  <2> QED BY <1>1, <2>1, LoadEffect DEF Watermarked, OnDisk
<1>2. CASE pc' # "fetch"
  BY <1>2 DEF Watermarked
<1>3. CASE UNCHANGED <<pc, disk, fresh, mem>>
  BY <1>3 DEF Watermarked, OnDisk
<1> QED
  BY <1>1, <1>2, <1>3 DEF Next, Poll, Fault, Prime, Classify, Reject, Toast, MarkSeen, Idle,
     AdvanceWatermark, ForgetOldest, CycleLost, ToastFails, EditConfig, vars

LEMMA WatermarkStep ==
  ASSUME TypeInv, Inductive, Watermarked, [Next]_vars, OnDisk, disk.newest # NoTime,
         disk.source # NoSource => disk'.source = disk.source
  PROVE  disk'.newest # NoTime /\ disk'.newest >= disk.newest
<1>d. disk \in FeedState /\ disk.newest \in Nat
  BY PollFeedAssumption DEF TypeInv, TypeOK, OnDisk, FeedState, Dates
<1>1. CASE Prime
  <2>1. PICK b \in Batches :
          disk' = [Remember(mem, IdsOf(b), b) EXCEPT !.newest = Latest(DatesOf(IdsOf(b)))]
    BY <1>1 DEF Prime
  <2>2. disk'.source = mem.source
    BY <1>1, <2>1, PrimeEffect DEF Prime
  <2> QED BY <1>1, <2>2 DEF Prime, Watermarked
<1>2. CASE Classify
  <2>1. \E base \in Dates : disk'.newest = base /\ (mem.newest # NoTime => base = mem.newest)
    BY <1>2, ClassifyEffect
  <2> QED BY <1>2, <1>d, <2>1 DEF Classify, Watermarked
<1>3. CASE \E i \in Ids : Reject(i) \/ MarkSeen(i)
  <2>1. disk'.newest = disk.newest
    BY <1>3, MarkEffect DEF Reject, MarkSeen
  <2> QED BY <1>d, <2>1
<1>4. CASE AdvanceWatermark
  BY <1>4, AdvanceEffect
<1>5. CASE ForgetOldest
  BY <1>5, <1>d, ForgetEffect
<1>6. CASE UNCHANGED disk
  BY <1>6, <1>d
<1> QED
  BY <1>1, <1>2, <1>3, <1>4, <1>5, <1>6
  DEF Next, Poll, Fault, Load, Toast, CycleLost, ToastFails, EditConfig, vars

(* As long as the file is about the same source, its watermark never moves back, so that an
   entry absorbed as old in one cycle could not have been a candidate in a later one. *)
THEOREM WatermarkOnlyRises == Spec => WatermarkNeverMovesBack
<1>1. Init => Watermarked
  BY DEF Init, Watermarked
<1>2. Spec => []Watermarked
  BY <1>1, NextWatermarked, TypeCorrect, InductiveHolds, PTL DEF Spec
<1>3. TypeInv /\ Inductive /\ Watermarked /\ [Next]_vars =>
        [ OnDisk /\ disk.newest # NoTime /\ disk'.source \in {disk.source} \cup Sources
          /\ (disk.source # NoSource => disk'.source = disk.source)
          => disk'.newest # NoTime /\ disk'.newest >= disk.newest ]_vars
  BY WatermarkStep
<1> QED BY <1>2, <1>3, TypeCorrect, InductiveHolds, PTL DEF Spec, WatermarkNeverMovesBack

-----------------------------------------------------------------------------
(* The order of seen_ids.  "older" is at every moment a strict total order of the known
   entries, which is what makes "the oldest in excess" a number of entries. *)
StrictOrder(R, S) ==
  /\ \A i \in S : <<i, i>> \notin R
  /\ \A i, j \in S : i = j \/ <<i, j>> \in R \/ <<j, i>> \in R
  /\ \A i, j, k \in S : <<i, j>> \in R /\ <<j, k>> \in R => <<i, k>> \in R

Ordered(st) == st.older \subseteq st.seen \X st.seen /\ StrictOrder(st.older, st.seen)

Orders == /\ OnDisk => Ordered(disk)
          /\ pc # "idle" => Ordered(mem)

(* Of a finite set in strict order, exactly k elements have fewer than k before them. *)
LEMMA OldestCount ==
  ASSUME NEW H, IsFiniteSet(H), NEW R, StrictOrder(R, H), NEW k \in Nat, k <= Cardinality(H)
  PROVE  Cardinality({i \in H : Cardinality({j \in H : <<j, i>> \in R}) < k}) = k
<1> DEFINE n == Cardinality(H)
           below(i) == {j \in H : <<j, i>> \in R}
           f == [i \in H |-> Cardinality(below(i))]
<1>1. n \in Nat
  BY FS_CardinalityType
<1>2. \A i \in H : below(i) \in SUBSET H /\ IsFiniteSet(below(i)) /\ f[i] \in Nat /\ f[i] < n
  <2> TAKE i \in H
  <2>1. below(i) \in SUBSET H /\ i \notin below(i)
    BY DEF StrictOrder
  <2>2. IsFiniteSet(below(i)) /\ Cardinality(below(i)) <= n /\ Cardinality(below(i)) # n
    BY <2>1, FS_Subset
  <2>3. Cardinality(below(i)) \in Nat
    BY <2>2, FS_CardinalityType
  <2>4. f[i] = Cardinality(below(i))
    OBVIOUS
  <2> HIDE DEF below, f, n
  <2> QED BY <1>1, <2>1, <2>2, <2>3, <2>4
<1>r. \A i \in H : f[i] \in Nat /\ f[i] < n
  <2> HIDE DEF f, n, below
  <2> QED BY <1>2
<1>3. ASSUME NEW i \in H, NEW j \in H, <<i, j>> \in R PROVE f[i] < f[j]
  <2>1. below(i) \subseteq below(j) /\ i \in below(j) /\ i \notin below(i)
    BY <1>3 DEF StrictOrder
  <2>2. Cardinality(below(i)) <= Cardinality(below(j)) /\ Cardinality(below(i)) # Cardinality(below(j))
    BY <1>2, <2>1, FS_Subset
  <2>3. f[i] = Cardinality(below(i)) /\ f[j] = Cardinality(below(j)) /\ f[i] \in Nat /\ f[j] \in Nat
    BY <1>2
  <2> HIDE DEF below, f
  <2> QED BY <2>2, <2>3
<1>4. \A i, j \in H : f[i] = f[j] => i = j
  <2> SUFFICES ASSUME NEW i \in H, NEW j \in H, f[i] = f[j] PROVE i = j
    OBVIOUS
  <2>1. f[i] \in Nat /\ f[j] \in Nat
    BY <1>2
  <2>2. i = j \/ <<i, j>> \in R \/ <<j, i>> \in R
    BY DEF StrictOrder
  <2> HIDE DEF f, n, below
  <2>3. ~(f[i] < f[j]) /\ ~(f[j] < f[i])
    BY <2>1
  <2> QED BY <1>3, <2>2, <2>3
<1>5. f \in [H -> 0..(n - 1)]
  <2>1. \A i \in H : f[i] \in 0..(n - 1)
    <3> HIDE DEF f, n, below
    <3> QED BY <1>1, <1>r
  <2> HIDE DEF below
  <2> QED BY <2>1
<1> DEFINE low == {i \in H : f[i] < k}
           g == [i \in low |-> f[i]]
<1>6. {i \in H : Cardinality(below(i)) < k} = low
  OBVIOUS
<1> HIDE DEF f, n, below
<1>7. f \in Surjection(H, 0..(n - 1))
  <2>1. IsFiniteSet(0..(n - 1)) /\ Cardinality(0..(n - 1)) = n
    BY <1>1, FS_Interval
  <2>2. f \in Injection(H, 0..(n - 1))
    BY <1>4, <1>5 DEF Injection, IsInjective
  <2> QED BY <2>1, <2>2, FS_Injection DEF n
<1>8. IsFiniteSet(0..(k - 1)) /\ Cardinality(0..(k - 1)) = k
  BY FS_Interval
<1>9. g \in Injection(low, 0..(k - 1))
  <2>1. \A i \in low : i \in H /\ f[i] \in 0..(k - 1)
    BY <1>r
  <2> QED BY <1>4, <2>1 DEF Injection, IsInjective
<1>10. g \in Surjection(low, 0..(k - 1))
  <2>1. ASSUME NEW t \in 0..(k - 1) PROVE \E i \in low : g[i] = t
    <3>1. t \in 0..(n - 1)
      BY <1>1 DEF n
    <3>2. PICK i \in H : f[i] = t
      BY <1>7, <3>1 DEF Surjection
    <3>3. i \in low
      BY <3>2
    <3> QED BY <3>2, <3>3
  <2>2. g \in [low -> 0..(k - 1)]
    BY <1>9 DEF Injection
  <2> HIDE DEF g, low
  <2> QED BY <2>1, <2>2 DEF Surjection
<1>11. Cardinality(low) = k
  <2> HIDE DEF g, low
  <2> QED BY <1>8, <1>9, <1>10, FS_Injection
<1> QED BY <1>6, <1>11 DEF below

LEMMA RememberOrdered ==
  ASSUME NEW st \in FeedState, Ordered(st), NEW b \in Batches, NEW ids \in SUBSET IdsOf(b)
  PROVE  Ordered(Remember(st, ids, b))
<1> DEFINE new == ids \ st.seen
           older == st.older \cup (st.seen \X new) \cup {p \in new \X new : Precedes(b, p[1], p[2])}
           seen == st.seen \cup new
<1>1. Remember(st, ids, b).seen = seen /\ Remember(st, ids, b).older = older
  BY DEF Remember, FeedState
<1>2. \A i \in new : \E m \in DOMAIN b : m \in Int /\ b[m] = i
  BY BatchType DEF IdsOf
<1>3. \A i \in new : ~Precedes(b, i, i)
  BY BatchType DEF Precedes
<1>4. \A i, j \in new : i = j \/ Precedes(b, i, j) \/ Precedes(b, j, i)
  BY <1>2 DEF Precedes
<1>5. \A i, j, k \in new : Precedes(b, i, j) /\ Precedes(b, j, k) => Precedes(b, i, k)
  <2> SUFFICES ASSUME NEW i \in new, NEW j \in new, NEW k \in new,
                      Precedes(b, i, j), Precedes(b, j, k)
               PROVE  Precedes(b, i, k)
    OBVIOUS
  <2>1. PICK m \in DOMAIN b, n \in DOMAIN b : m < n /\ b[m] = i /\ b[n] = j
    BY DEF Precedes
  <2>2. PICK p \in DOMAIN b, q \in DOMAIN b : p < q /\ b[p] = j /\ b[q] = k
    BY DEF Precedes
  <2>3. n = p /\ m \in Int /\ n \in Int /\ q \in Int
    BY <2>1, <2>2, BatchType
  <2> QED BY <2>1, <2>2, <2>3 DEF Precedes
<1>6. \A i, j : <<i, j>> \in older <=> \/ <<i, j>> \in st.older
                                       \/ i \in st.seen /\ j \in new
                                       \/ i \in new /\ j \in new /\ Precedes(b, i, j)
  OBVIOUS
<1>7. new \cap st.seen = {} /\ older \subseteq seen \X seen
  BY DEF Ordered
<1>8. /\ \A i, j : <<i, j>> \in st.older => i \in st.seen /\ j \in st.seen
      /\ StrictOrder(st.older, st.seen)
  BY DEF Ordered
<1> HIDE DEF new, older
<1>9. \A i \in seen : <<i, i>> \notin older
  BY <1>3, <1>6, <1>7, <1>8 DEF StrictOrder
<1>10. \A i, j \in seen : i = j \/ <<i, j>> \in older \/ <<j, i>> \in older
  BY <1>4, <1>6, <1>8 DEF StrictOrder
<1>11. \A i, j, k \in seen : <<i, j>> \in older /\ <<j, k>> \in older => <<i, k>> \in older
  BY <1>5, <1>6, <1>7, <1>8 DEF StrictOrder
<1> QED BY <1>1, <1>7, <1>9, <1>10, <1>11 DEF Ordered, StrictOrder

LEMMA SameOrder ==
  ASSUME NEW st, NEW st2, Ordered(st), st2.seen = st.seen, st2.older = st.older
  PROVE  Ordered(st2)
BY DEF Ordered

LEMMA ClassifiedOrdered ==
  ASSUME NEW st \in FeedState, Ordered(st), NEW b \in Batches, NEW t
  PROVE  Ordered(Classified(st, b, t))
<1> DEFINE old == {i \in IdsOf(b) : IsOldBackfill(st, i, t)}
           mid == Remember(st, old, b)
<1>1. old \in SUBSET IdsOf(b)
  OBVIOUS
<1>2. Ordered(mid)
  BY <1>1, RememberOrdered
<1>3. Classified(st, b, t).seen = mid.seen /\ Classified(st, b, t).older = mid.older
  BY DEF Classified, Remember, FeedState
<1> QED BY <1>2, <1>3, SameOrder

LEMMA MarkedSeenOrdered ==
  ASSUME NEW st \in FeedState, Ordered(st), batch \in Batches, NEW i \in IdsOf(batch)
  PROVE  Ordered(MarkedSeen(st, i))
<1> DEFINE mid == Remember(st, {i}, batch)
<1>1. Ordered(mid)
  BY RememberOrdered
<1>2. MarkedSeen(st, i).seen = mid.seen /\ MarkedSeen(st, i).older = mid.older
  BY DEF MarkedSeen, Remember, FeedState
<1> QED BY <1>1, <1>2, SameOrder

LEMMA WithoutOrdered ==
  ASSUME NEW st \in FeedState, Ordered(st), NEW drop
  PROVE  Ordered(Without(st, drop))
<1> DEFINE keep == st.seen \ drop
           order == st.older \cap (keep \X keep)
<1>1. Without(st, drop).seen = keep /\ Without(st, drop).older = order
  BY DEF Without, FeedState
<1>2. \A i, j \in keep : <<i, j>> \in order <=> <<i, j>> \in st.older
  OBVIOUS
<1>3. keep \subseteq st.seen /\ order \subseteq keep \X keep
  OBVIOUS
<1> HIDE DEF keep, order
<1>4. StrictOrder(order, keep)
  BY <1>2, <1>3 DEF Ordered, StrictOrder
<1> QED BY <1>1, <1>3, <1>4 DEF Ordered

LEMMA InitOrders == Init => Orders
<1> SUFFICES ASSUME Init, OnDisk PROVE Ordered(disk)
  BY DEF Init, Orders
<1>1. \E i \in Ids : disk.seen = {i} /\ disk.older = {}
  BY DEF Init, OnDisk, OldFile
<1> QED BY <1>1 DEF Ordered, StrictOrder

LEMMA NextOrders == TypeInv /\ Inductive /\ Orders /\ [Next]_vars => Orders'
<1> SUFFICES ASSUME TypeInv, Inductive, Orders, [Next]_vars PROVE Orders'
  OBVIOUS
<1>b. batch \in Batches
  BY DEF TypeInv, TypeOK
<1>1. CASE Load
  <2>1. CASE fresh'
    <3>1. Ordered(EmptyState(config.source))
      BY DEF Ordered, StrictOrder, EmptyState
    <3> QED BY <1>1, <2>1, <3>1, LoadEffect DEF Load, Orders, OnDisk
  <2>2. CASE ~fresh'
    <3>1. Ordered(mem')
      BY <1>1, <2>2, LoadEffect, SameOrder DEF Orders
    <3> QED BY <1>1, <3>1 DEF Load, Orders, OnDisk
  <2> QED BY <2>1, <2>2
<1>2. CASE Prime
  <2>1. PICK b \in Batches :
          disk' = [Remember(mem, IdsOf(b), b) EXCEPT !.newest = Latest(DatesOf(IdsOf(b)))]
    BY <1>2 DEF Prime
  <2>2. mem \in FeedState /\ Ordered(mem) /\ mem.seen = {}
    BY <1>2 DEF Prime, TypeInv, Loaded, Orders, Inductive
  <2>3. Ordered(Remember(mem, IdsOf(b), b)) /\ IdsOf(b) \in SUBSET Ids
    BY <2>2, RememberOrdered, BatchType
  <2>4. Remember(mem, IdsOf(b), b).seen = IdsOf(b)
    <3>1. Remember(mem, IdsOf(b), b).seen = mem.seen \cup IdsOf(b)
      BY <2>2, <2>3, RememberType
    <3> QED BY <2>2, <3>1
  <2>5. /\ disk'.seen = Remember(mem, IdsOf(b), b).seen
        /\ disk'.older = Remember(mem, IdsOf(b), b).older
    BY <1>2, <2>1, <2>4, PrimeEffect DEF Prime
  <2>6. Ordered(disk')
    BY <2>3, <2>5, SameOrder
  <2> QED BY <1>2, <2>6 DEF Prime, Idle, Orders
<1>3. CASE Classify
  <2>1. \E b \in Batches, base \in Dates : disk' = Classified(mem, b, base) /\ mem' = disk'
    BY <1>3, ClassifyEffect
  <2>2. mem \in FeedState /\ Ordered(mem)
    BY <1>3 DEF Classify, TypeInv, Loaded, Orders
  <2> QED BY <2>1, <2>2, ClassifiedOrdered DEF Orders
<1>4. ASSUME NEW i \in Ids, Reject(i) \/ MarkSeen(i) PROVE Orders'
  <2>1. mem \in FeedState /\ disk' = MarkedSeen(mem, i) /\ mem' = disk' /\ i \in todo
    BY <1>4, MarkEffect DEF Reject, MarkSeen
  <2>2. Ordered(mem) /\ i \in IdsOf(batch)
    BY <1>4, <2>1, ShownType DEF Reject, MarkSeen, Orders, Inductive
  <2> QED BY <1>b, <2>1, <2>2, MarkedSeenOrdered DEF Orders
<1>5. CASE AdvanceWatermark
  <2>1. /\ Ordered(disk) /\ mem' = disk' /\ disk'.seen = disk.seen /\ disk'.older = disk.older
    BY <1>5, AdvanceEffect DEF Orders, OnDisk
  <2> QED BY <2>1, SameOrder DEF Orders
<1>6. CASE ForgetOldest
  <2>1. disk \in FeedState /\ Ordered(disk) /\ disk' = Without(disk, Forgettable(disk, Shown))
    BY <1>6, ForgetEffect DEF Orders, OnDisk
  <2> QED BY <1>6, <2>1, WithoutOrdered DEF ForgetOldest, Idle, Orders
<1>7. CASE CycleLost
  BY <1>7 DEF CycleLost, Idle, Orders, OnDisk
<1>8. CASE UNCHANGED <<disk, mem>> /\ pc # "idle"
  BY <1>8 DEF Orders, OnDisk
<1>9. CASE EditConfig \/ UNCHANGED vars
  BY <1>9 DEF EditConfig, vars, Orders, OnDisk
<1> QED
  BY <1>1, <1>2, <1>3, <1>4, <1>5, <1>6, <1>7, <1>8, <1>9
  DEF Next, Poll, Fault, Toast, ToastFails

LEMMA PruningStep ==
  ASSUME TypeInv, Inductive, Orders, ForgetOldest
  PROVE  /\ Cardinality(disk'.seen) <= MaxSeen \/ disk'.seen \subseteq Shown
         /\ disk'.seen # disk.seen => Cardinality(disk'.seen) >= MaxSeen
<1> DEFINE seen == disk.seen
           hidden == seen \ Shown
           excess == Cardinality(seen) - MaxSeen
           drop == Forgettable(disk, Shown)
           rank(i) == Cardinality({j \in hidden : <<j, i>> \in disk.older})
<1>1. disk \in FeedState /\ Ordered(disk) /\ disk'.seen = seen \ drop
  BY ForgetEffect DEF Orders, OnDisk
<1>2. IsFiniteSet(seen) /\ Cardinality(seen) \in Nat /\ MaxSeen \in Nat /\ excess \in Int
  <2>1. seen \subseteq Ids
    BY <1>1 DEF FeedState
  <2> QED BY <2>1, PollFeedAssumption, FS_Subset, FS_CardinalityType
<1>3. /\ IsFiniteSet(hidden) /\ hidden \subseteq seen /\ Cardinality(hidden) \in Nat
      /\ Cardinality(hidden) <= Cardinality(seen)
  BY <1>2, FS_Subset, FS_CardinalityType
<1>4. StrictOrder(disk.older, hidden)
  BY <1>1, <1>3 DEF Ordered, StrictOrder
<1>5. drop = {i \in hidden : rank(i) < excess}
  BY DEF Forgettable
<1>6. \A i \in hidden : rank(i) \in Nat /\ rank(i) <= Cardinality(hidden)
  <2> TAKE i \in hidden
  <2>1. {j \in hidden : <<j, i>> \in disk.older} \in SUBSET hidden
    OBVIOUS
  <2> QED BY <1>3, <2>1, FS_Subset, FS_CardinalityType
<1>7. CASE excess <= 0
  <2>1. drop = {}
    <3> HIDE DEF rank, excess, hidden, drop
    <3> QED BY <1>2, <1>5, <1>6, <1>7
  <2>2. Cardinality(seen) <= MaxSeen
    BY <1>2, <1>7
  <2> QED BY <1>1, <2>1, <2>2
<1>8. CASE 0 < excess /\ excess <= Cardinality(hidden)
  <2>1. Cardinality(drop) = excess
    <3>1. excess \in Nat /\ excess <= Cardinality(hidden)
      BY <1>2, <1>8
    <3> HIDE DEF excess, hidden, drop
    <3>2. Cardinality({i \in hidden : Cardinality({j \in hidden : <<j, i>> \in disk.older}) < excess}) = excess
      BY <1>3, <1>4, <3>1, OldestCount
    <3> QED BY <1>5, <3>2
  <2>2. seen \cap drop = drop
    BY <1>3, <1>5
  <2>3. Cardinality(seen \ drop) = Cardinality(seen) - Cardinality(drop)
    BY <1>2, <2>2, FS_Difference
  <2>4. Cardinality(disk'.seen) = MaxSeen
    BY <1>1, <1>2, <2>1, <2>3
  <2> QED BY <1>2, <2>4
<1>9. CASE excess > Cardinality(hidden)
  <2>1. drop = hidden
    <3> HIDE DEF rank, excess, hidden, drop
    <3>1. \A i \in hidden : rank(i) < excess
      BY <1>2, <1>3, <1>6, <1>9
    <3> QED BY <1>5, <3>1
  <2>2. disk'.seen \subseteq Shown
    BY <1>1, <2>1
  <2>3. seen \cap hidden = hidden
    BY <1>3
  <2>4. Cardinality(seen \ hidden) = Cardinality(seen) - Cardinality(hidden)
    BY <1>2, <2>3, FS_Difference
  <2>5. disk'.seen = seen \ hidden
    BY <1>1, <2>1
  <2> HIDE DEF seen, hidden
  <2>6. Cardinality(disk'.seen) >= MaxSeen
    BY <1>2, <1>3, <1>9, <2>4, <2>5
  <2> QED BY <2>2, <2>6
<1>10. excess <= 0 \/ (0 < excess /\ excess <= Cardinality(hidden)) \/ excess > Cardinality(hidden)
  <2> HIDE DEF excess, hidden
  <2> QED BY <1>2, <1>3
<1> HIDE DEF seen, hidden, excess, drop
<1> QED BY <1>7, <1>8, <1>9, <1>10

LEMMA VisibleStay ==
  ASSUME TypeInv, Inductive, [Next]_vars, OnDisk, ~fresh
  PROVE  disk.seen \cap Shown \subseteq disk'.seen
<1>1. CASE Classify
  BY <1>1, ClassifyEffect
<1>2. CASE \E i \in Ids : Reject(i) \/ MarkSeen(i)
  <2>1. PICK i \in Ids : Reject(i) \/ MarkSeen(i)
    BY <1>2
  <2>2. disk'.seen = disk.seen \cup {i}
    BY <2>1, MarkEffect DEF Reject, MarkSeen
  <2> QED BY <2>2
<1>3. CASE AdvanceWatermark
  BY <1>3, AdvanceEffect
<1>4. CASE ForgetOldest
  BY <1>4, ForgetEffect
<1>5. CASE UNCHANGED disk
  BY <1>5
<1> QED
  BY <1>1, <1>2, <1>3, <1>4, <1>5
  DEF Next, Poll, Fault, Load, Prime, Toast, CycleLost, ToastFails, EditConfig, vars

(* Pruning keeps what the source still shows, and a whole cycle leaves exactly MAX_SEEN_IDS
   identifiers when it forgets any, unless the source shows more. *)
THEOREM PruningExact == Spec => PruningIsExact
<1>1. Spec => []Orders
  BY InitOrders, NextOrders, TypeCorrect, InductiveHolds, PTL DEF Spec
<1>2. ASSUME TypeInv, Inductive, Orders, [Next]_vars, pc = "forget", pc' = "idle", faults' = faults
      PROVE  ForgetOldest
  <2>1. faults \in Int
    BY <1>2, PollFeedAssumption DEF TypeInv, TypeOK
  <2> QED BY <1>2, <2>1 DEF Next, Poll, Fault, Load, Prime, Classify, Reject, Toast, MarkSeen,
                            AdvanceWatermark, CycleLost, ToastFails, EditConfig, vars
<1>3. TypeInv /\ Inductive /\ Orders /\ [Next]_vars =>
        [ /\ OnDisk /\ ~fresh => disk.seen \cap Shown \subseteq disk'.seen
          /\ pc = "forget" /\ pc' = "idle" /\ faults' = faults =>
               /\ Cardinality(disk'.seen) <= MaxSeen \/ disk'.seen \subseteq Shown
               /\ disk'.seen # disk.seen => Cardinality(disk'.seen) >= MaxSeen ]_vars
  BY <1>2, VisibleStay, PruningStep
<1> QED BY <1>1, <1>3, TypeCorrect, InductiveHolds, PTL DEF Spec, PruningIsExact

-----------------------------------------------------------------------------
(* The refinement.  The state of the ledger, as the poller's variables give it. *)
Status == [i \in Ids |-> IF ~OnDisk THEN "new"
                         ELSE IF i \in disk.seen THEN "known"
                         ELSE IF i \in disk.pending THEN "pending" ELSE "new"]

Bell == IF pc = "mark" THEN CHOOSE i \in todo : IsNextCandidate(i) ELSE NoFile

(* Each of the ledger's operations, in terms of that state. *)
LEMMA LedgerPrimes ==
  ASSUME NEW S \in SUBSET Ids, Bell = NoFile, Bell' = NoFile,
         Status' = [i \in Ids |-> IF i \in S THEN "known" ELSE "new"]
  PROVE  Ledger!Next
<1>1. Ledger!Prime(S)
  BY DEF Ledger!Prime, Status, Bell
<1> QED BY <1>1 DEF Ledger!Next

LEMMA LedgerNotices ==
  ASSUME NEW P \in SUBSET Ids, NEW K \in SUBSET Ids, Bell = NoFile, Bell' = NoFile, P \cap K = {},
         \A i \in P \cup K : Status[i] = "new",
         Status' = [i \in Ids |-> IF i \in P THEN "pending"
                                  ELSE IF i \in K THEN "known" ELSE Status[i]]
  PROVE  Ledger!Next
<1>1. Ledger!Notice(P, K, {})
  BY DEF Ledger!Notice, Status, Bell
<1>2. /\ P \in SUBSET Ledger!Are("new") /\ K \in SUBSET Ledger!Are("new")
      /\ {} \in SUBSET Ledger!Are("known")
  BY DEF Ledger!Are, Status
<1> QED BY <1>1, <1>2 DEF Ledger!Next

LEMMA LedgerRings ==
  ASSUME NEW i \in Ids, Bell = NoFile, Bell' = i, Status[i] = "pending", Status' = Status
  PROVE  Ledger!Next
<1>1. Ledger!Ring(i)
  BY DEF Ledger!Ring, Status, Bell
<1> QED BY <1>1 DEF Ledger!Next

LEMMA LedgerSettles ==
  ASSUME NEW i \in Ids, Bell \in {NoFile, i}, Bell' = NoFile, Status[i] = "pending",
         Status' = [Status EXCEPT ![i] = "known"]
  PROVE  Ledger!Next
<1>1. Ledger!Settle(i, {})
  BY DEF Ledger!Settle, Status, Bell
<1>2. {} \in SUBSET Ledger!Are("known")
  OBVIOUS
<1> QED BY <1>1, <1>2 DEF Ledger!Next

LEMMA LedgerForgets ==
  ASSUME NEW S \in SUBSET Ids, Bell = NoFile, Bell' = NoFile, \A i \in S : Status[i] = "known",
         Status' = [i \in Ids |-> IF i \in S THEN "new" ELSE Status[i]]
  PROVE  Ledger!Next
<1>1. Ledger!Forget(S)
  BY DEF Ledger!Forget, Status, Bell
<1>2. S \in SUBSET Ledger!Are("known")
  BY DEF Ledger!Are, Status
<1> QED BY <1>1, <1>2 DEF Ledger!Next

LEMMA LedgerInterrupted ==
  ASSUME Status' = Status, Bell' = NoFile
  PROVE  Ledger!Next \/ UNCHANGED Ledger!ledger
<1>1. CASE Bell = NoFile
  BY <1>1 DEF Ledger!ledger, Status, Bell
<1>2. CASE Bell # NoFile
  <2>1. Ledger!Interrupt
    BY <1>2 DEF Ledger!Interrupt, Status, Bell
  <2> QED BY <2>1 DEF Ledger!Next
<1> QED BY <1>1, <1>2

LEMMA LedgerStutters ==
  ASSUME Status' = Status, Bell' = Bell
  PROVE  UNCHANGED Ledger!ledger
BY DEF Ledger!ledger, Status, Bell

LEMMA InitLedger == Init => Ledger!Init
<1> SUFFICES ASSUME Init PROVE Ledger!Init
  OBVIOUS
<1>1. OnDisk => disk.pending = {}
  BY DEF Init, OnDisk, OldFile
<1> QED BY <1>1 DEF Ledger!Init, Init, OnDisk

(* The bell is the entry whose mark is awaited: the one candidate that is next. *)
NextOf(b, t) == CHOOSE i \in t : i \in t /\ \A j \in t : ~Precedes(b, i, j)

LEMMA BellIsNext ==
  /\ Bell = IF pc = "mark" THEN NextOf(batch, todo) ELSE NoFile
  /\ Bell' = IF pc' = "mark" THEN NextOf(batch', todo') ELSE NoFile
BY DEF Bell, NextOf, IsNextCandidate

LEMMA BellRings ==
  ASSUME TypeInv, todo \subseteq Shown, NEW i, IsNextCandidate(i)
  PROVE  NextOf(batch, todo) = i
<1>1. i \in todo
  BY DEF IsNextCandidate
<1>2. IsNextCandidate(NextOf(batch, todo))
  BY <1>1 DEF NextOf, IsNextCandidate
<1> QED BY <1>2, NextCandidateUnique

LEMMA LedgerStep ==
  ASSUME TypeInv, Inductive, Inductive', [Next]_vars
  PROVE  Ledger!Next \/ UNCHANGED Ledger!ledger
<1>s. todo \subseteq Shown /\ (OnDisk => disk.seen \cap disk.pending = {})
  BY DEF Inductive
<1>1. CASE Load
  <2>1. Status' = Status /\ Bell' = Bell
    BY <1>1 DEF Load, Status, Bell, OnDisk
  <2> QED BY <2>1, LedgerStutters
<1>2. CASE Prime
  <2>1. PICK b \in Batches :
          disk' = [Remember(mem, IdsOf(b), b) EXCEPT !.newest = Latest(DatesOf(IdsOf(b)))]
    BY <1>2 DEF Prime
  <2>2. OnDisk' /\ disk'.seen = IdsOf(b) /\ disk'.pending = {} /\ IdsOf(b) \in SUBSET Ids
    BY <1>2, <2>1, PrimeEffect, BatchType DEF Prime, OnDisk
  <2>3. Status' = [i \in Ids |-> IF i \in IdsOf(b) THEN "known" ELSE "new"]
    BY <2>2 DEF Status
  <2>4. Bell = NoFile /\ Bell' = NoFile
    BY <1>2 DEF Prime, Idle, Bell
  <2> QED BY <2>2, <2>3, <2>4, LedgerPrimes
<1>3. CASE Classify
  <2>1. PICK b \in Batches, base \in Dates :
          LET can == Candidates(mem, IdsOf(b), base)
          IN /\ OnDisk /\ OnDisk' /\ can \subseteq Ids /\ disk'.seen \subseteq Ids
             /\ disk.seen \subseteq disk'.seen
             /\ disk'.seen \cap can = {} /\ disk'.seen \cap disk.pending = {}
             /\ disk'.pending = disk.pending \cup can
    BY <1>3, ClassifyEffect, BatchType, NoFileAssumption DEF OnDisk, FeedState
  <2> DEFINE can == Candidates(mem, IdsOf(b), base)
  <2>2. can \cap disk.seen = {}
    BY <1>3 DEF Candidates, Classify, Inductive
  <2>3. Bell = NoFile /\ Bell' = NoFile
    BY <1>3 DEF Classify, Bell
  <2> DEFINE P == can \ disk.pending
             K == disk'.seen \ disk.seen
  <2> HIDE DEF can
  <2>4. /\ P \in SUBSET Ids /\ K \in SUBSET Ids /\ P \cap K = {}
        /\ \A i \in P \cup K : Status[i] = "new"
    BY <2>1, <2>2 DEF Status, can
  <2>5. Status' = [i \in Ids |-> IF i \in P THEN "pending"
                                 ELSE IF i \in K THEN "known" ELSE Status[i]]
    BY <2>1, <2>2, <1>s DEF Status, can
  <2> HIDE DEF P, K
  <2> QED BY <2>3, <2>4, <2>5, LedgerNotices
<1>4. ASSUME NEW i \in Ids, Reject(i) \/ MarkSeen(i) PROVE Ledger!Next
  <2>1. /\ OnDisk /\ OnDisk' /\ i \in disk.pending /\ i \notin disk.seen
        /\ disk'.seen = disk.seen \cup {i} /\ disk'.pending = disk.pending \ {i}
    BY <1>4, MarkEffect DEF Reject, MarkSeen, OnDisk
  <2>2. Status[i] = "pending" /\ Status' = [Status EXCEPT ![i] = "known"]
    BY <2>1 DEF Status
  <2>3. Bell \in {NoFile, i} /\ Bell' = NoFile
    BY <1>4, <1>s, BellRings, BellIsNext DEF Reject, MarkSeen
  <2> QED BY <2>2, <2>3, LedgerSettles
<1>5. ASSUME NEW i \in Ids, Toast(i) PROVE Ledger!Next
  <2>1. /\ todo' = todo /\ batch' = batch /\ disk' = disk /\ pc' = "mark"
        /\ pc = "deliver" /\ i \in todo
    BY <1>5 DEF Toast, IsNextCandidate
  <2>2. Status[i] = "pending" /\ Status' = Status
    BY <2>1 DEF Status, Inductive, DurableBeforeToast, OnDisk
  <2>3. Bell = NoFile
    BY <2>1 DEF Bell
  <2>4. Bell' = i
    BY <1>5, <2>1, <1>s, BellRings, BellIsNext DEF Toast
  <2> QED BY <2>2, <2>3, <2>4, LedgerRings
<1>6. CASE AdvanceWatermark
  <2>1. OnDisk /\ OnDisk' /\ disk'.seen = disk.seen /\ disk'.pending = disk.pending
    BY <1>6, AdvanceEffect DEF OnDisk
  <2>2. Status' = Status
    BY <2>1 DEF Status
  <2>3. Bell' = Bell
    BY <1>6 DEF AdvanceWatermark, Bell
  <2> QED BY <2>2, <2>3, LedgerStutters
<1>7. CASE ForgetOldest
  <2> DEFINE drop == Forgettable(disk, Shown)
  <2>1. /\ OnDisk /\ OnDisk' /\ drop \subseteq disk.seen
        /\ disk'.seen = disk.seen \ drop /\ disk'.pending = disk.pending
    BY <1>7, ForgetEffect DEF OnDisk
  <2>2. disk.seen \subseteq Ids
    BY <2>1 DEF TypeInv, TypeOK, FeedState, OnDisk
  <2> HIDE DEF drop
  <2>3. /\ drop \in SUBSET Ids /\ \A i \in drop : Status[i] = "known"
        /\ Status' = [i \in Ids |-> IF i \in drop THEN "new" ELSE Status[i]]
    BY <2>1, <2>2, <1>s DEF Status
  <2>4. Bell = NoFile /\ Bell' = NoFile
    BY <1>7 DEF ForgetOldest, Idle, Bell
  <2> QED BY <2>3, <2>4, LedgerForgets
<1>8. CASE CycleLost
  <2>1. Status' = Status /\ Bell' = NoFile
    BY <1>8 DEF CycleLost, Idle, Status, Bell, OnDisk
  <2> QED BY <2>1, LedgerInterrupted
<1>9. ASSUME NEW i \in Ids, ToastFails(i) PROVE UNCHANGED Ledger!ledger
  <2>1. Status' = Status /\ Bell' = Bell
    BY <1>9 DEF ToastFails, Status, Bell, OnDisk
  <2> QED BY <2>1, LedgerStutters
<1>10. CASE EditConfig \/ UNCHANGED vars
  <2>1. Status' = Status
    BY <1>10 DEF EditConfig, vars, Status, OnDisk
  <2>2. Bell' = Bell
    BY <1>10, BellIsNext DEF EditConfig, vars
  <2> QED BY <2>1, <2>2, LedgerStutters
<1> QED
  BY <1>1, <1>2, <1>3, <1>4, <1>5, <1>6, <1>7, <1>8, <1>9, <1>10 DEF Next, Poll, Fault

(* The poller implements NotificationLedger: seen through the refinement mapping, every step
   of a cycle, crashes and lost marks included, is an operation of the ledger or none. *)
THEOREM PollerKeepsLedger == Spec => KeepsLedger
<1>1. TypeInv /\ Inductive /\ Inductive' /\ [Next]_vars => [Ledger!Next]_(Ledger!ledger)
  BY LedgerStep
<1> QED BY <1>1, InitLedger, TypeCorrect, InductiveHolds, PTL DEF Spec, KeepsLedger, Ledger!Spec
=============================================================================
