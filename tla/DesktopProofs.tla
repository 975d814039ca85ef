---------------------------- MODULE DesktopProofs ----------------------------
(***************************************************************************)
(* Proofs about Desktop, for every number of processes, of sources and of  *)
(* history lines: type correctness, the bound of the history, that two     *)
(* processes poll together only in a restart, and that every write of the *)
(* history starts from what the last one left.                             *)
(***************************************************************************)
EXTENDS Desktop, FiniteSetTheorems, FunctionTheorems, TLAPS

LEMMA LinesAreFinite ==
  /\ IsFiniteSet(Lines) /\ \A h \in SUBSET Lines : IsFiniteSet(h)
  /\ 1..MaxEntries \subseteq Lines /\ Cardinality(1..MaxEntries) = MaxEntries
<1>1. MaxLines \in Int /\ MaxEntries \in Nat /\ 1 \in Int /\ MaxEntries <= MaxLines
  BY DesktopAssumption
<1>2. IsFiniteSet(Lines)
  BY <1>1, FS_Interval DEF Lines
<1>3. Cardinality(1..MaxEntries) = IF 1 > MaxEntries THEN 0 ELSE MaxEntries - 1 + 1
  BY <1>1, FS_Interval
<1>4. Cardinality(1..MaxEntries) = MaxEntries
  BY <1>1, <1>3
<1>5. \A h \in SUBSET Lines : IsFiniteSet(h)
  BY <1>2, FS_Subset
<1>6. 1..MaxEntries \subseteq Lines
  BY <1>1 DEF Lines
<1> QED BY <1>2, <1>4, <1>5, <1>6

(* The history never holds more than MAX_ENTRIES lines. *)
LEMMA NewestIsBounded ==
  ASSUME NEW h \in SUBSET Lines
  PROVE  Newest(h) \in SUBSET Lines /\ Cardinality(Newest(h)) <= MaxEntries
<1> DEFINE Above(k) == {j \in h : j > k}
           f == [k \in Newest(h) |-> Cardinality(Above(k))]
<1>1. MaxEntries \in Nat /\ h \subseteq Int
  BY DesktopAssumption DEF Lines
<1>2. IsFiniteSet(h)
  BY LinesAreFinite
<1>3. \A k : IsFiniteSet(Above(k)) /\ Cardinality(Above(k)) \in Nat
  BY <1>2, FS_Subset, FS_CardinalityType
<1>4. f \in [Newest(h) -> 0..MaxEntries - 1]
  BY <1>1, <1>3 DEF Newest
<1>5. ASSUME NEW j \in Newest(h), NEW k \in Newest(h), j < k PROVE f[j] # f[k]
  <2>1. j \in h /\ k \in h /\ j \in Int /\ k \in Int
    BY <1>1 DEF Newest
  <2>2. Above(k) \subseteq Above(j) /\ k \in Above(j) /\ k \notin Above(k)
    <3> HIDE DEF f
    <3>1. \A i \in h : i > k => i > j
      BY <1>1, <1>5, <2>1
    <3>2. k > j /\ ~(k > k)
      BY <1>5, <2>1
    <3> QED BY <2>1, <3>1, <3>2
  <2>3. Cardinality(Above(k)) # Cardinality(Above(j))
    BY <1>3, <2>2, FS_Subset
  <2> QED BY <2>3
<1>6. f \in Injection(Newest(h), 0..MaxEntries - 1)
  <2>1. \A j, k \in Newest(h) : j # k => j < k \/ k < j
    BY <1>1 DEF Newest
  <2>2. \A j, k \in Newest(h) : f[j] = f[k] => j = k
    BY <1>5, <2>1
  <2> HIDE DEF f
  <2> QED BY <1>4, <2>2, Fun_IsInj
<1>7. IsFiniteSet(0..MaxEntries - 1) /\ Cardinality(0..MaxEntries - 1) = MaxEntries
  BY <1>1, FS_Interval
<1>8. Cardinality(Newest(h)) <= MaxEntries
  <2> HIDE DEF f
  <2> QED BY <1>6, <1>7, FS_Injection
<1> QED BY <1>8 DEF Newest

-----------------------------------------------------------------------------
(* A line that is to be written is dated, and one thread at a time has the lock. *)
Dated ==
  /\ lines <= MaxLines
  /\ \A p \in Processes : loop[p] = "write" => line[p] \in Lines /\ target[p] = 0

(* Until a process has given the lock back it holds it, and it polls only between the
   binding of its port and its end. *)
Holders ==
  \A p \in Processes :
    /\ proc[p] \in {"starting", "on", "restarting"} => lock = p
    /\ loop[p] # "off" => proc[p] \notin {"off", "starting"}
    /\ port = p => proc[p] = "on"

Inv == TypeOK /\ Dated /\ Holders

(* What append() and remove() have read is a history. *)
CopiesAreBounded == \A p \in Processes : Cardinality(copy[p]) <= MaxEntries

LEMMA FreeProcessIsOff ==
  ASSUME Inv, NEW p \in Processes, p = FreeProcess
  PROVE  proc[p] = "off" /\ loop[p] = "off"
BY DesktopAssumption DEF Inv, Holders, FreeProcess, Alive

LEMMA InitInv == Init => Inv
<1> SUFFICES ASSUME Init PROVE Inv
  OBVIOUS
<1>1. MaxEntries \in Nat /\ 1..MaxEntries \subseteq Lines /\ Cardinality(1..MaxEntries) = MaxEntries
  BY DesktopAssumption, LinesAreFinite
<1>3. TypeOK
  BY <1>1, DesktopAssumption DEF Init, TypeOK
<1>4. Dated /\ Holders
  BY DesktopAssumption DEF Init, Dated, Holders
<1> QED BY <1>3, <1>4 DEF Inv

-----------------------------------------------------------------------------
(* A process that ends gives everything back. *)
LEMMA ExitsInv ==
  ASSUME Inv, NEW p \in Processes, Exits(p), proc[p] # "off",
         UNCHANGED <<launches, config, version, history, lines, clicks>>, faults' \in Nat
  PROVE  Inv'
<1>1. TypeOK'
  BY DesktopAssumption DEF Exits, Goes, At, Inv, TypeOK
<1>3. Dated'
  BY DEF Exits, At, Inv, TypeOK, Dated
<1>4. Holders'
  BY DesktopAssumption DEF Exits, Goes, At, Inv, TypeOK, Holders
<1> QED BY <1>1, <1>3, <1>4 DEF Inv

LEMMA MainInv ==
  ASSUME Inv, NEW p \in Processes, Main(p) \/ BindFails(p) \/ CloseServer(p) \/ Killed(p)
  PROVE  Inv'
<1> USE DesktopAssumption DEF Inv
<1>1. CASE Starts(p)
  <2>1. proc[p] = "off" /\ loop[p] = "off"
    BY <1>1, FreeProcessIsOff DEF Starts
  <2>2. TypeOK'
    BY <1>1 DEF Starts, Goes, poller, archive, TypeOK
  <2>3. Dated'
    BY <1>1 DEF Starts, poller, archive, Dated
  <2>4. Holders'
    BY <1>1, <2>1 DEF Starts, Goes, poller, TypeOK, Holders
  <2> QED BY <2>2, <2>3, <2>4
<1>2. CASE Binds(p)
  <2>1. TypeOK'
    BY <1>2 DEF Binds, Goes, At, archive, TypeOK
  <2>3. Dated'
    BY <1>2 DEF Binds, At, archive, TypeOK, Dated
  <2>4. Holders'
    BY <1>2 DEF Binds, Goes, At, TypeOK, Holders
  <2> QED BY <2>1, <2>3, <2>4
<1>3. CASE ReleaseLock(p) \/ Relaunch(p) \/ CloseServer(p)
  <2>1. TypeOK'
    BY <1>3 DEF ReleaseLock, Relaunch, CloseServer, Click, Goes, poller, archive, TypeOK
  <2>2. Dated'
    BY <1>3 DEF ReleaseLock, Relaunch, CloseServer, poller, archive, Dated
  <2>3. ASSUME ReleaseLock(p) PROVE Holders'
    BY <2>3 DEF ReleaseLock, Goes, poller, TypeOK, Holders
  <2>4. ASSUME Relaunch(p) PROVE Holders'
    BY <2>4 DEF Relaunch, Goes, poller, TypeOK, Holders
  <2>5. ASSUME CloseServer(p) PROVE Holders'
    BY <2>5 DEF CloseServer, Goes, poller, TypeOK, Holders
  <2> QED BY <1>3, <2>1, <2>2, <2>3, <2>4, <2>5
<1>4. CASE Leaves(p)
  BY <1>4, ExitsInv DEF Leaves, TypeOK
<1>5. CASE BindFails(p)
  BY <1>5, ExitsInv DEF BindFails, Fault, TypeOK
<1>6. CASE Killed(p)
  BY <1>6, ExitsInv DEF Killed, Alive, Fault, TypeOK
<1> QED BY <1>1, <1>2, <1>3, <1>4, <1>5, <1>6 DEF Main

-----------------------------------------------------------------------------
(* A step of the polling thread moves the loop of a process that polls already. *)
LEMMA LoopHolders ==
  ASSUME Inv, NEW p \in Processes, NEW s, loop[p] # "off", At(p, s), UNCHANGED main
  PROVE  Holders'
BY DEF At, main, Inv, TypeOK, Holders

LEMMA LoopInv ==
  ASSUME Inv, NEW p \in Processes, Loop(p) \/ TurnFails(p) \/ AppendFails(p)
  PROVE  Inv'
<1> USE DesktopAssumption DEF Inv
<1>1. ASSUME Turn(p) \/ PollEnds(p) \/ CheckVersion(p) \/ \E s \in Sources : PollStarts(p, s)
      PROVE  Inv'
  <2>1. TypeOK'
    BY <1>1 DEF Turn, PollEnds, CheckVersion, PollStarts, At, main, archive, TypeOK
  <2>3. Dated'
    BY <1>1 DEF Turn, PollEnds, CheckVersion, PollStarts, At, archive, TypeOK, Dated
  <2>4. Holders'
    BY <1>1, LoopHolders DEF Turn, PollEnds, CheckVersion, PollStarts
  <2> QED BY <2>1, <2>3, <2>4
<1>2. CASE AppendReads(p)
  <2>1. lines + 1 \in Lines /\ lines' <= MaxLines /\ line'[p] = lines + 1 /\ target'[p] = 0
    BY <1>2 DEF AppendReads, TypeOK, Lines, Locked
  <2>2. TypeOK'
    BY <1>2, <2>1 DEF AppendReads, At, main, TypeOK
  <2>3. Dated'
    BY <1>2, <2>1 DEF AppendReads, At, TypeOK, Dated
  <2>4. Holders'
    BY <1>2, LoopHolders DEF AppendReads
  <2> QED BY <2>2, <2>3, <2>4
<1>3. CASE AppendWrites(p)
  <2>1. copy[p] \cup {line[p]} \in SUBSET Lines
    BY <1>3 DEF AppendWrites, TypeOK, Dated
  <2>2. history' \subseteq Lines /\ Cardinality(history') <= MaxEntries
    BY <1>3, <2>1, NewestIsBounded DEF AppendWrites, Written
  <2>3. TypeOK'
    BY <1>3, <2>2 DEF AppendWrites, Written, At, main, TypeOK
  <2>4. Dated'
    BY <1>3 DEF AppendWrites, At, TypeOK, Dated
  <2>5. Holders'
    BY <1>3, LoopHolders DEF AppendWrites
  <2> QED BY <2>3, <2>4, <2>5
<1>4. CASE AppendFails(p)
  <2>1. TypeOK'
    BY <1>4 DEF AppendFails, Fault, At, main, TypeOK
  <2>2. Dated'
    BY <1>4 DEF AppendFails, At, TypeOK, Dated
  <2>3. Holders'
    BY <1>4, LoopHolders DEF AppendFails
  <2> QED BY <2>1, <2>2, <2>3
<1>5. CASE TurnFails(p)
  BY <1>5 DEF TurnFails, Fault, main, poller, archive, TypeOK, Dated, Holders
<1> QED BY <1>1, <1>2, <1>3, <1>4, <1>5 DEF Loop

-----------------------------------------------------------------------------
(* The routes, the user and the clock leave the processes alone. *)
LEMMA OthersInv ==
  ASSUME Inv, CopiesAreBounded, [Next]_vars,
         ~ \E p \in Processes : \/ Main(p) \/ BindFails(p) \/ CloseServer(p) \/ Killed(p)
                                 \/ Loop(p) \/ TurnFails(p) \/ AppendFails(p)
  PROVE  Inv'
<1> USE DesktopAssumption DEF Inv
<1>1. ASSUME NEW p \in Processes, Clear(p) PROVE Inv'
  <2>1. Cardinality({}) <= MaxEntries
    BY FS_EmptySet
  <2> QED BY <1>1, <2>1 DEF Clear, Written, main, poller, TypeOK, Dated, Holders
<1>2. ASSUME NEW p \in Processes, NEW k \in Lines, RemoveReads(p, k) PROVE Inv'
  <2>1. TypeOK' /\ Holders'
    BY <1>2 DEF RemoveReads, main, poller, TypeOK, Holders
  <2>2. Dated'
    BY <1>2 DEF RemoveReads, Locked, poller, TypeOK, Dated
  <2> QED BY <2>1, <2>2
<1>9. ASSUME NEW p \in Processes, RemoveWrites(p) PROVE Inv'
  <2>1. copy[p] \subseteq Lines /\ IsFiniteSet(copy[p]) /\ copy[p] \ {target[p]} \subseteq Lines
    BY LinesAreFinite DEF TypeOK
  <2>2. Cardinality(copy[p] \ {target[p]}) <= MaxEntries
    <3>1. Cardinality(copy[p] \ {target[p]}) <= Cardinality(copy[p]) /\ Cardinality(copy[p]) \in Nat
          /\ Cardinality(copy[p] \ {target[p]}) \in Nat
      BY <2>1, FS_Subset, FS_CardinalityType
    <3> QED BY <3>1 DEF CopiesAreBounded
  <2>3. TypeOK'
    BY <1>9, <2>1, <2>2 DEF RemoveWrites, Written, main, poller, TypeOK
  <2>4. Dated' /\ Holders'
    BY <1>9 DEF RemoveWrites, main, poller, TypeOK, Dated, Holders
  <2> QED BY <2>3, <2>4
<1>10. ASSUME NEW p \in Processes, RemoveFails(p) PROVE Inv'
  BY <1>10 DEF RemoveFails, Fault, main, poller, TypeOK, Dated, Holders
<1>3. ASSUME NEW p \in Processes, SetPause(p) PROVE Inv'
  BY <1>3 DEF SetPause, Click, main, poller, archive, TypeOK, Dated, Holders
<1>4. ASSUME NEW p \in Processes, NEW s \in Sources, DueComes(p, s) PROVE Inv'
  BY <1>4 DEF DueComes, main, archive, TypeOK, Dated, Holders
<1>5. CASE EditConfig
  BY <1>5 DEF EditConfig, Click, main, poller, archive, TypeOK, Dated, Holders
<1>6. CASE Launch
  BY <1>6 DEF Launch, Click, poller, archive, TypeOK, Dated, Holders
<1>7. CASE Publish
  BY <1>7 DEF Publish, main, poller, archive, TypeOK, Dated, Holders
<1>8. CASE UNCHANGED vars
  BY <1>8 DEF vars, main, poller, archive, TypeOK, Dated, Holders
<1> QED BY <1>1, <1>2, <1>3, <1>4, <1>5, <1>6, <1>7, <1>8, <1>9, <1>10 DEF Next

LEMMA InitBounded == Init => CopiesAreBounded
BY DesktopAssumption, FS_EmptySet DEF Init, CopiesAreBounded

LEMMA NextBounded == Inv /\ CopiesAreBounded /\ [Next]_vars => CopiesAreBounded'
<1> SUFFICES ASSUME Inv, CopiesAreBounded, [Next]_vars PROVE CopiesAreBounded'
  OBVIOUS
<1>1. copy \in [Processes -> SUBSET Lines] /\ Cardinality(history) <= MaxEntries /\ Cardinality({}) <= MaxEntries
  BY DesktopAssumption, FS_EmptySet DEF Inv, TypeOK
<1>2. ASSUME copy' = copy \/ \E p \in Processes, h \in {history, {}} : copy' = [copy EXCEPT ![p] = h]
      PROVE  CopiesAreBounded'
  BY <1>1, <1>2 DEF CopiesAreBounded
<1>3. ASSUME NEW p \in Processes, Main(p) \/ BindFails(p) \/ CloseServer(p) \/ Killed(p)
      PROVE  CopiesAreBounded'
  BY <1>2, <1>3 DEF Main, Starts, Binds, ReleaseLock, Relaunch, Leaves, BindFails, CloseServer, Killed, Exits,
       archive
<1>4. ASSUME NEW p \in Processes, Loop(p) \/ TurnFails(p) \/ AppendFails(p)
      PROVE  CopiesAreBounded'
  BY <1>2, <1>4 DEF Loop, Turn, PollEnds, AppendReads, AppendWrites, CheckVersion, PollStarts, TurnFails,
       AppendFails, archive
<1>5. ASSUME NEW p \in Processes,
             \/ Clear(p) \/ RemoveWrites(p) \/ RemoveFails(p) \/ SetPause(p)
             \/ \E k \in Lines : RemoveReads(p, k)
             \/ \E s \in Sources : DueComes(p, s)
      PROVE  CopiesAreBounded'
  BY <1>2, <1>5 DEF Clear, RemoveWrites, RemoveFails, SetPause, RemoveReads, DueComes, archive
<1>6. CASE EditConfig \/ Launch \/ Publish \/ UNCHANGED vars
  BY <1>2, <1>6 DEF EditConfig, Launch, Publish, vars, archive
<1> QED BY <1>3, <1>4, <1>5, <1>6 DEF Next

(* Every variable keeps its type, the history its bound, and two processes poll together
   only while the one that was restarted, its port closed, is on its way out. *)
THEOREM DesktopInvariantHolds == Spec => []DesktopInvariant
<1>1. Inv /\ CopiesAreBounded /\ [Next]_vars => Inv' /\ CopiesAreBounded'
  BY MainInv, LoopInv, OthersInv, NextBounded
<1>2. Inv => DesktopInvariant
  BY DEF Inv, TypeOK, Holders, DesktopInvariant, PollersOverlapOnlyInARestart
<1> QED BY InitInv, InitBounded, <1>1, <1>2, PTL DEF Spec

-----------------------------------------------------------------------------
(* Whoever holds the lock of the history has read the history of now, unless another
   process has written it since. *)
CopiesAreCurrent == \A p \in Processes : Locked(p) /\ p \notin stale => copy[p] = history

LEMMA InitCopies == Init => CopiesAreCurrent
BY DEF Init, CopiesAreCurrent, Locked

(* A write makes the copies of the others stale. *)
LEMMA WrittenCopies ==
  ASSUME NEW p \in Processes, NEW h, Written(p, h), ~Locked(p)',
         \A q \in Processes \ {p} : Locked(q)' => Locked(q) /\ copy'[q] = copy[q]
  PROVE  CopiesAreCurrent'
BY DEF CopiesAreCurrent, Written

(* A step that writes nothing leaves the others' copies alone; its own process gives the lock
   back, keeps it, or takes it and reads the file. *)
LEMMA OwnCopies ==
  ASSUME CopiesAreCurrent, NEW p \in Processes, UNCHANGED history,
         \A q \in Processes \ {p} : Locked(q)' = Locked(q) /\ copy'[q] = copy[q],
         \/ ~Locked(p)' /\ stale' \in {stale, stale \ {p}}
         \/ copy'[p] = history /\ stale' = stale
         \/ Locked(p) /\ copy'[p] = copy[p] /\ stale' = stale
  PROVE  CopiesAreCurrent'
<1>1. ASSUME NEW q \in Processes, Locked(q)', q \notin stale'
      PROVE  copy'[q] = history
  <2>1. CASE q = p
    BY <1>1, <2>1 DEF CopiesAreCurrent
  <2>2. CASE q # p
    BY <1>1, <2>2 DEF CopiesAreCurrent
  <2> QED BY <2>1, <2>2
<1> QED BY <1>1 DEF CopiesAreCurrent

LEMMA NextCopies == Inv /\ CopiesAreCurrent /\ [Next]_vars => CopiesAreCurrent'
<1> SUFFICES ASSUME Inv, CopiesAreCurrent, [Next]_vars PROVE CopiesAreCurrent'
  OBVIOUS
<1>0. /\ loop \in [Processes -> {"off", "turn", "sources", "poll", "write"}]
      /\ copy \in [Processes -> SUBSET Lines] /\ target \in [Processes -> {0} \cup Lines]
      /\ \A p \in Processes : loop[p] = "write" => target[p] = 0
  BY DEF Inv, TypeOK, Dated
<1>1. CASE UNCHANGED <<loop, history, copy, target, stale>>
  BY <1>1 DEF CopiesAreCurrent, Locked
<1>2. ASSUME NEW p \in Processes, Exits(p), UNCHANGED history PROVE CopiesAreCurrent'
  <2>1. \A q \in Processes \ {p} : Locked(q)' = Locked(q) /\ copy'[q] = copy[q]
    BY <1>0, <1>2 DEF Exits, At, Locked
  <2>2. ~Locked(p)' /\ stale' = stale \ {p}
    BY <1>0, <1>2 DEF Exits, At, Locked
  <2> QED BY <1>2, <2>1, <2>2, OwnCopies
<1>3. ASSUME NEW p \in Processes, NEW s \in {"turn", "sources", "poll"}, At(p, s), loop[p] # "write",
             UNCHANGED <<history, copy, target, stale>>
      PROVE  CopiesAreCurrent'
  <2>1. \A q \in Processes : Locked(q)' = Locked(q)
    BY <1>0, <1>3 DEF At, Locked
  <2> QED BY <1>3, <2>1 DEF CopiesAreCurrent
<1>4. ASSUME NEW p \in Processes, Main(p) \/ BindFails(p) \/ CloseServer(p) \/ Killed(p)
      PROVE  CopiesAreCurrent'
  <2>1. CASE Leaves(p) \/ BindFails(p) \/ Killed(p)
    BY <1>2, <2>1 DEF Leaves, BindFails, Killed
  <2>2. CASE Binds(p)
    <3>1. loop[p] # "write"
      BY <2>2 DEF Binds, Inv, Holders
    <3> QED BY <1>3, <2>2, <3>1 DEF Binds, archive
  <2> QED BY <1>1, <1>4, <2>1, <2>2 DEF Main, Starts, ReleaseLock, Relaunch, CloseServer, poller, archive
<1>5. ASSUME NEW p \in Processes,
             Turn(p) \/ PollEnds(p) \/ CheckVersion(p) \/ \E s \in Sources : PollStarts(p, s)
      PROVE  CopiesAreCurrent'
  <2>1. /\ \E s \in {"turn", "sources", "poll"} : At(p, s)
        /\ loop[p] # "write" /\ UNCHANGED <<history, copy, target, stale>>
    BY <1>5 DEF Turn, PollEnds, CheckVersion, PollStarts, archive
  <2> QED BY <1>3, <2>1
<1>6. ASSUME NEW p \in Processes, AppendReads(p) PROVE CopiesAreCurrent'
  <2>1. \A q \in Processes \ {p} : Locked(q)' = Locked(q) /\ copy'[q] = copy[q]
    BY <1>0, <1>6 DEF AppendReads, At, Locked
  <2>2. copy'[p] = history /\ stale' = stale /\ UNCHANGED history
    BY <1>0, <1>6 DEF AppendReads
  <2> QED BY <2>1, <2>2, OwnCopies
<1>7. ASSUME NEW p \in Processes, AppendFails(p) \/ RemoveFails(p) PROVE CopiesAreCurrent'
  <2>1. \A q \in Processes \ {p} : Locked(q)' = Locked(q) /\ copy'[q] = copy[q]
    BY <1>0, <1>7 DEF AppendFails, RemoveFails, poller, At, Locked
  <2>2. ~Locked(p)' /\ stale' = stale \ {p} /\ UNCHANGED history
    BY <1>0, <1>7 DEF AppendFails, RemoveFails, poller, At, Locked
  <2> QED BY <2>1, <2>2, OwnCopies
<1>8. ASSUME NEW p \in Processes, NEW k \in Lines, RemoveReads(p, k) PROVE CopiesAreCurrent'
  <2>1. \A q \in Processes \ {p} : Locked(q)' = Locked(q) /\ copy'[q] = copy[q]
    BY <1>0, <1>8 DEF RemoveReads, poller, Locked
  <2>2. copy'[p] = history /\ stale' = stale /\ UNCHANGED history
    BY <1>0, <1>8 DEF RemoveReads
  <2> QED BY <2>1, <2>2, OwnCopies
<1>9. ASSUME NEW p \in Processes, AppendWrites(p) \/ RemoveWrites(p) PROVE CopiesAreCurrent'
  <2>1. \A q \in Processes \ {p} : Locked(q)' => Locked(q) /\ copy'[q] = copy[q]
    BY <1>0, <1>9 DEF AppendWrites, RemoveWrites, poller, At, Locked
  <2>2. ~Locked(p)' /\ \E h : Written(p, h)
    BY <1>0, <1>9 DEF AppendWrites, RemoveWrites, poller, At, Locked
  <2> QED BY <2>1, <2>2, WrittenCopies
<1>10. ASSUME NEW p \in Processes, Clear(p) PROVE CopiesAreCurrent'
  <2>1. ~Locked(p) /\ UNCHANGED <<loop, copy, target>> /\ \E h : Written(p, h)
    BY <1>10 DEF Clear, poller
  <2> QED BY <2>1, WrittenCopies DEF Locked
<1>11. ASSUME NEW p \in Processes, TurnFails(p) \/ SetPause(p) \/ \E s \in Sources : DueComes(p, s)
       PROVE  CopiesAreCurrent'
  BY <1>1, <1>11 DEF TurnFails, SetPause, DueComes, poller, archive
<1>12. CASE EditConfig \/ Launch \/ Publish \/ UNCHANGED vars
  BY <1>1, <1>12 DEF EditConfig, Launch, Publish, vars, poller, archive
<1> QED BY <1>4, <1>5, <1>6, <1>7, <1>8, <1>9, <1>10, <1>11, <1>12 DEF Next, Loop

(* What one step does to the history. *)
SerialStep ==
  history' # history =>
    \/ history' = {} /\ UNCHANGED <<loop, target>>
    \/ \E p \in Processes : target[p] # 0 /\ history' = history \ {target[p]}
    \/ \E p \in Processes : loop[p] = "write" /\ history' = Newest(history \cup {line[p]})
    \/ \E p \in stale : p \notin stale'

LEMMA StepIsSerial == Inv /\ CopiesAreCurrent /\ [Next]_vars => SerialStep
<1> SUFFICES ASSUME Inv, CopiesAreCurrent, [Next]_vars, history' # history PROVE SerialStep
  BY DEF SerialStep
<1>1. ASSUME NEW p \in Processes, AppendWrites(p) PROVE SerialStep
  <2>1. loop[p] = "write" /\ history' = Newest(copy[p] \cup {line[p]}) /\ p \notin stale'
    BY <1>1 DEF AppendWrites, Written
  <2>2. CASE p \in stale
    BY <2>1, <2>2 DEF SerialStep
  <2>3. CASE p \notin stale
    BY <2>1, <2>3 DEF SerialStep, CopiesAreCurrent, Locked
  <2> QED BY <2>2, <2>3
<1>2. ASSUME NEW p \in Processes, RemoveWrites(p) PROVE SerialStep
  <2>1. target[p] # 0 /\ history' = copy[p] \ {target[p]} /\ p \notin stale'
    BY <1>2 DEF RemoveWrites, Written
  <2>2. CASE p \in stale
    BY <2>1, <2>2 DEF SerialStep
  <2>3. CASE p \notin stale
    BY <2>1, <2>3 DEF SerialStep, CopiesAreCurrent, Locked
  <2> QED BY <2>2, <2>3
<1>3. ASSUME NEW p \in Processes, Clear(p) PROVE SerialStep
  BY <1>3 DEF Clear, Written, SerialStep, poller
<1>4. ~ \E p \in Processes : Main(p) \/ BindFails(p) \/ CloseServer(p) \/ Killed(p)
  BY DEF Main, Starts, Binds, ReleaseLock, Relaunch, Leaves, BindFails, CloseServer, Killed, archive
<1>5. ~ \E p \in Processes : \/ Turn(p) \/ PollEnds(p) \/ AppendReads(p) \/ CheckVersion(p)
                             \/ TurnFails(p) \/ AppendFails(p) \/ RemoveFails(p) \/ SetPause(p)
                             \/ \E k \in Lines : RemoveReads(p, k)
                             \/ \E s \in Sources : PollStarts(p, s) \/ DueComes(p, s)
  BY DEF Turn, PollEnds, AppendReads, CheckVersion, TurnFails, AppendFails, RemoveFails, SetPause, RemoveReads,
         PollStarts, DueComes, archive
<1>6. ~EditConfig /\ ~Launch /\ ~Publish /\ ~UNCHANGED vars
  BY DEF EditConfig, Launch, Publish, vars, archive
<1> QED BY <1>1, <1>2, <1>3, <1>4, <1>5, <1>6 DEF Next, Loop

(* Each write of the history adds the line of a toast to what the file holds at that moment,
   takes the clicked line out of it or clears it, for any number of threads: only a write of a
   process beside which another one has written, in a restart, may overwrite something
   (notification_history._lock). *)
THEOREM HistorySerial == Spec => HistoryIsSerial
<1>1. Inv /\ CopiesAreBounded /\ [Next]_vars => Inv' /\ CopiesAreBounded'
  BY MainInv, LoopInv, OthersInv, NextBounded
<1> QED BY InitInv, InitBounded, InitCopies, <1>1, NextCopies, StepIsSerial, PTL
        DEF Spec, HistoryIsSerial, SerialStep
=============================================================================
