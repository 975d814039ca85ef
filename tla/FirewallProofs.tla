--------------------------- MODULE FirewallProofs ---------------------------
(***************************************************************************)
(* Proofs about Firewall, for every set of block rules, of networks and of *)
(* overlapping requests: type correctness, that a block rule the user      *)
(* wants is never left off without a script that answers for it, that the  *)
(* narrow rule stands before a broad one falls, and that a script which    *)
(* fails alone leaves the rules as it found them.                          *)
(***************************************************************************)
EXTENDS Firewall, FiniteSetTheorems, TLAPS

LEMMA InitType == Init => TypeOK
BY FirewallAssumption DEF Init, TypeOK, InScript

(* What throw sets is well typed. *)
LEMMA FailsType ==
  ASSUME TypeOK, NEW t \in Requests, NEW c \in 10..16, NEW names \in SUBSET Blocks, Fails(t, c, names)
  PROVE  /\ step' \in [Requests -> InScript \cup {"idle", "consent", "exit", "dead", "over"}]
         /\ code' \in [Requests -> {0} \cup 10..16]
         /\ disabled' \in [Requests -> SUBSET Blocks] /\ todo' \in [Requests -> SUBSET Blocks]
BY DEF Fails, Go, TypeOK, InScript

LEMMA FaultType == TypeOK /\ Fault => faults' \in 0..MaxFaults
BY FirewallAssumption DEF TypeOK, Fault

LEMMA ChangeType == TypeOK /\ Change => changes' \in 0..MaxChanges /\ disturbed' \subseteq Requests
BY FirewallAssumption DEF TypeOK, Change

LEMMA NextType == TypeOK /\ [Next]_vars => TypeOK'
<1> SUFFICES ASSUME TypeOK, [Next]_vars PROVE TypeOK'
  OBVIOUS
<1>1. ASSUME NEW t \in Requests, Probe(t) PROVE TypeOK'
  BY <1>1, FaultType DEF Probe, Go, Answered, Refusal, Reason, TypeOK, world, InScript
<1>2. ASSUME NEW t \in Requests, Refuse(t) PROVE TypeOK'
  BY <1>2 DEF Refuse, Go, Answered, TypeOK, world, InScript
<1>3. ASSUME NEW t \in Requests, Elevate(t) PROVE TypeOK'
  BY <1>3 DEF Elevate, Go, TypeOK, world, InScript
<1>4. ASSUME NEW t \in Requests, Timeout(t) PROVE TypeOK'
  BY <1>4 DEF Timeout, Answered, TypeOK, world
<1>5. ASSUME NEW t \in Requests, Verdict(t) PROVE TypeOK'
  BY <1>5, FaultType DEF Verdict, Go, Answered, TypeOK, world, InScript
<1>6. ASSUME NEW t \in Requests, Recheck(t) PROVE TypeOK'
  <2>1. CASE /\ RecheckPasses /\ Go(t, "read") /\ counted' = [counted EXCEPT ![t] = Cardinality(Active)]
             /\ UNCHANGED <<code, disabled, todo, faults>>
    <3>1. Active \subseteq Blocks
      BY DEF Active, TypeOK
    <3>2. Cardinality(Active) \in Nat
      BY <3>1, FirewallAssumption, FS_Subset, FS_CardinalityType
    <3> QED BY <1>6, <2>1, <3>2 DEF Recheck, Go, TypeOK, world, InScript
  <2>2. CASE Fails(t, 10, {}) /\ UNCHANGED counted
    BY <1>6, <2>2, FailsType, FaultType DEF Recheck, TypeOK, world
  <2> QED BY <1>6, <2>1, <2>2 DEF Recheck
<1>7. ASSUME NEW t \in Requests, ReadRules(t) PROVE TypeOK'
  <2>1. CASE todo' = [todo EXCEPT ![t] = Candidates] /\ Go(t, "own") /\ UNCHANGED <<code, disabled, faults>>
    BY <1>7, <2>1 DEF ReadRules, Candidates, Go, TypeOK, world, InScript
  <2>2. CASE Fails(t, 11, {})
    BY <1>7, <2>2, FailsType, FaultType DEF ReadRules, TypeOK, world
  <2> QED BY <1>7, <2>1, <2>2 DEF ReadRules
<1>8. ASSUME NEW t \in Requests, EnsureAllow(t) PROVE TypeOK'
  <2>1. CASE Fails(t, 12, {}) /\ UNCHANGED <<own, created, faults>>
    BY <1>8, <2>1, FailsType DEF EnsureAllow, TypeOK, world
  <2>2. CASE Go(t, "disable") /\ UNCHANGED <<own, created, code, disabled, todo, faults>>
    BY <1>8, <2>2 DEF EnsureAllow, Go, TypeOK, world, InScript
  <2>3. CASE /\ own' = "intact" /\ created' = [created EXCEPT ![t] = TRUE]
             /\ Go(t, "disable") /\ UNCHANGED <<code, disabled, todo, faults>>
    BY <1>8, <2>3 DEF EnsureAllow, Go, TypeOK, world, InScript
  <2>4. CASE /\ Fault /\ (Fails(t, 12, {}) \/ Fails(t, 13, {}))
             /\ own' \in {own, "absent", "intact"} /\ UNCHANGED created
    BY <1>8, <2>4, FailsType, FaultType DEF EnsureAllow, TypeOK, world
  <2> QED BY <1>8, <2>1, <2>2, <2>3, <2>4 DEF EnsureAllow
<1>9. ASSUME NEW t \in Requests, AllDisabled(t) PROVE TypeOK'
  BY <1>9 DEF AllDisabled, Go, TypeOK, world, InScript
<1>10. ASSUME NEW t \in Requests, Verify(t) PROVE TypeOK'
  <2>1. CASE code' = [code EXCEPT ![t] = 0] /\ Go(t, "exit") /\ UNCHANGED <<disabled, todo, faults>>
    BY <1>10, <2>1 DEF Verify, Go, TypeOK, world, InScript
  <2>2. CASE Fails(t, 15, disabled[t]) /\ (Fault \/ UNCHANGED faults)
    BY <1>10, <2>2, FailsType, FaultType DEF Verify, TypeOK, world
  <2> QED BY <1>10, <2>1, <2>2 DEF Verify
<1>11. ASSUME NEW t \in Requests, RemoveAllow(t) PROVE TypeOK'
  BY <1>11, FaultType DEF RemoveAllow, Go, TypeOK, world, InScript
<1>12. ASSUME NEW t \in Requests, Dies(t) PROVE TypeOK'
  BY <1>12, FaultType DEF Dies, Go, Answered, TypeOK, world, InScript
<1>13. ASSUME NEW t \in Requests, NEW b \in Blocks, Disable(t, b) PROVE TypeOK'
  <2>1. CASE /\ enabled' = enabled \ {b} /\ disabled' = [disabled EXCEPT ![t] = @ \cup {b}]
             /\ todo' = [todo EXCEPT ![t] = @ \ {b}] /\ UNCHANGED <<step, code, faults>>
    BY <1>13, <2>1 DEF Disable, TypeOK, world
  <2>2. CASE enabled' \in {enabled, enabled \ {b}} /\ Fault /\ Fails(t, 14, disabled[t] \cup {b})
    <3>1. disabled[t] \cup {b} \in SUBSET Blocks
      BY DEF TypeOK
    <3> QED BY <1>13, <2>2, <3>1, FailsType, FaultType DEF Disable, TypeOK, world
  <2> QED BY <1>13, <2>1, <2>2 DEF Disable
<1>14. ASSUME NEW t \in Requests, NEW b \in Blocks, Restore(t, b) PROVE TypeOK'
  BY <1>14, FaultType DEF Restore, TypeOK, world
<1>15. ASSUME NEW b \in Blocks, EditBlock(b) PROVE TypeOK'
  BY <1>15, ChangeType DEF EditBlock, Change, TypeOK
<1>16. CASE EditAllow
  BY <1>16, ChangeType DEF EditAllow, Change, TypeOK
<1>17. CASE EditPolicy
  BY <1>17, ChangeType DEF EditPolicy, Change, TypeOK
<1>18. CASE UNCHANGED vars
  BY <1>18 DEF vars, world, script, TypeOK
<1> QED
  BY <1>1, <1>2, <1>3, <1>4, <1>5, <1>6, <1>7, <1>8, <1>9, <1>10, <1>11, <1>12, <1>13, <1>14,
     <1>15, <1>16, <1>17, <1>18 DEF Next, Script

(* Every variable keeps its type. *)
THEOREM TypesAreRight == Spec => []TypeOK
BY InitType, NextType, PTL DEF Spec

-----------------------------------------------------------------------------
(* One script cannot undo what another answers for. *)
LEMMA OthersAnswer ==
  ASSUME TypeOK, NEW t \in Requests, NEW u \in Requests \ {t}, NEW b, AnswersFor(u, b),
         step'[u] = step[u], code'[u] = code[u], disabled'[u] = disabled[u], todo'[u] = todo[u]
  PROVE  AnswersFor(u, b)'
BY DEF AnswersFor

(* The first disjunct of a script's answer: after throw, the rules it names are to come back. *)
LEMMA FailsAnswers ==
  ASSUME TypeOK, NEW t \in Requests, NEW c, NEW names, Fails(t, c, names), NEW b \in names
  PROVE  AnswersFor(t, b)'
BY DEF Fails, Go, AnswersFor, TypeOK

LEMMA NextBlocks == TypeOK /\ BlocksComeBack /\ [Next]_vars => BlocksComeBack'
<1> SUFFICES ASSUME TypeOK, BlocksComeBack, [Next]_vars,
                    NEW b \in (wanted \ enabled)'
             PROVE  \E t \in Requests : AnswersFor(t, b)'
  BY DEF BlocksComeBack
<1> USE DEF TypeOK
<1>1. CASE UNCHANGED <<step, code, disabled, todo>> /\ b \in wanted \ enabled
  BY <1>1 DEF BlocksComeBack, AnswersFor
<1>2. ASSUME NEW t \in Requests, Script(t), \A a \in Blocks : ~Disable(t, a), b \in wanted \ enabled
      PROVE  \E u \in Requests : AnswersFor(u, b)'
  <2>1. PICK u \in Requests : AnswersFor(u, b)
    BY <1>2 DEF BlocksComeBack
  <2>2. CASE u # t
    <3>1. step'[u] = step[u] /\ code'[u] = code[u] /\ disabled'[u] = disabled[u] /\ todo'[u] = todo[u]
      BY <1>2, <2>2 DEF Script, Recheck, ReadRules, EnsureAllow, AllDisabled, Verify, Restore, RemoveAllow,
           Dies, Fails, Go
    <3> QED BY <2>1, <2>2, <3>1, OthersAnswer
  <2>3. CASE u = t
    <3>1. step[t] \notin {"recheck", "read", "own"} /\ b \in disabled[t]
      BY <2>1, <2>3 DEF AnswersFor
    <3>2. ~Recheck(t) /\ ~ReadRules(t) /\ ~EnsureAllow(t)
      BY <3>1 DEF Recheck, ReadRules, EnsureAllow
    <3>3. CASE AllDisabled(t)
      BY <2>1, <2>3, <3>3 DEF AllDisabled, Go, AnswersFor
    <3>4. CASE Verify(t)
      <4>1. CASE code' = [code EXCEPT ![t] = 0] /\ Go(t, "exit") /\ UNCHANGED disabled
        BY <3>1, <4>1 DEF Go, AnswersFor
      <4>2. CASE Fails(t, 15, disabled[t])
        BY <3>1, <4>2, FailsAnswers
      <4> QED BY <3>4, <4>1, <4>2 DEF Verify
    <3>5. CASE RemoveAllow(t)
      <4>1. step[t] = "restore" /\ todo[t] = {} /\ Go(t, "exit") /\ UNCHANGED disabled
        BY <3>5 DEF RemoveAllow
      <4>2. code[t] \in {0, 16}
        BY <2>1, <2>3, <4>1 DEF AnswersFor
      <4>3. code'[t] \in {0, 16}
        BY <3>5, <4>2 DEF RemoveAllow
      <4> QED BY <3>1, <4>1, <4>3 DEF Go, AnswersFor
    <3>6. CASE Dies(t)
      BY <3>1, <3>6 DEF Dies, Go, AnswersFor
    <3>7. ASSUME NEW a \in Blocks, Restore(t, a) PROVE AnswersFor(t, b)'
      <4>1. step[t] = "restore" /\ UNCHANGED <<step, disabled>> /\ todo' = [todo EXCEPT ![t] = @ \ {a}]
        BY <3>7 DEF Restore
      <4>2. (b \in todo[t] /\ a # b) \/ code[t] \in {0, 16} \/ a = b
        BY <2>1, <2>3, <4>1 DEF AnswersFor
      <4>3. code' = code \/ code'[t] = 16
        BY <3>7 DEF Restore
      <4>4. a = b => code'[t] = 16
        BY <3>7 DEF Restore
      <4> QED BY <3>1, <4>1, <4>2, <4>3, <4>4 DEF AnswersFor
    <3> QED BY <1>2, <2>3, <3>2, <3>3, <3>4, <3>5, <3>6, <3>7 DEF Script
  <2> QED BY <2>2, <2>3
<1>3. ASSUME NEW t \in Requests, NEW a \in Blocks, Disable(t, a) PROVE \E u \in Requests : AnswersFor(u, b)'
  <2>1. CASE b # a
    <3>1. b \in wanted \ enabled
      BY <1>3, <2>1 DEF Disable, world
    <3>2. PICK u \in Requests : AnswersFor(u, b)
      BY <3>1 DEF BlocksComeBack
    <3>3. CASE u # t
      <4>1. step'[u] = step[u] /\ code'[u] = code[u] /\ disabled'[u] = disabled[u] /\ todo'[u] = todo[u]
        BY <1>3, <3>3 DEF Disable, Fails, Go
      <4> QED BY <3>2, <3>3, <4>1, OthersAnswer
    <3>4. CASE u = t
      <4>1. step[t] = "disable" /\ b \in disabled[t]
        BY <1>3, <3>2, <3>4 DEF Disable, AnswersFor
      <4>2. CASE disabled' = [disabled EXCEPT ![t] = @ \cup {a}] /\ UNCHANGED step
        BY <4>1, <4>2 DEF AnswersFor
      <4>3. CASE Fails(t, 14, disabled[t] \cup {a})
        BY <4>1, <4>3, FailsAnswers
      <4> QED BY <1>3, <4>2, <4>3 DEF Disable
    <3> QED BY <3>3, <3>4
  <2>2. CASE b = a
    <3>1. CASE disabled' = [disabled EXCEPT ![t] = @ \cup {a}] /\ UNCHANGED step
      BY <1>3, <2>2, <3>1 DEF Disable, AnswersFor
    <3>2. CASE Fails(t, 14, disabled[t] \cup {a})
      BY <2>2, <3>2, FailsAnswers
    <3> QED BY <1>3, <3>1, <3>2 DEF Disable
  <2> QED BY <2>1, <2>2
<1>4. ASSUME NEW t \in Requests, Probe(t) \/ Refuse(t) \/ Elevate(t) \/ Verdict(t)
      PROVE  \E u \in Requests : AnswersFor(u, b)'
  <2>1. /\ b \in wanted \ enabled
        /\ UNCHANGED <<code, disabled, todo>>
        /\ \E s \in {"consent", "over", "recheck"} : Go(t, s) /\ (s = "over" \/ step[t] \in {"idle", "consent"})
        /\ step[t] \in {"idle", "consent", "exit"}
    BY <1>4 DEF Probe, Refuse, Elevate, Verdict, world
  <2>2. PICK u \in Requests : AnswersFor(u, b)
    BY <2>1 DEF BlocksComeBack
  <2> QED BY <2>1, <2>2 DEF Go, AnswersFor
<1>5. ASSUME NEW t \in Requests, Timeout(t) PROVE \E u \in Requests : AnswersFor(u, b)'
  BY <1>1, <1>5 DEF Timeout, world
<1>6. CASE EditAllow \/ EditPolicy \/ \E a \in Blocks : EditBlock(a)
  BY <1>1, <1>6 DEF EditAllow, EditPolicy, EditBlock, Change
<1>7. CASE UNCHANGED vars
  BY <1>1, <1>7 DEF vars, world, script
<1>8. ASSUME NEW t \in Requests, Script(t), \A a \in Blocks : ~Disable(t, a), b \notin wanted \ enabled
      PROVE  FALSE
  BY <1>8 DEF Script, Recheck, ReadRules, EnsureAllow, AllDisabled, Verify, Restore, RemoveAllow, Dies, world
<1> QED
  BY <1>2, <1>3, <1>4, <1>5, <1>6, <1>7, <1>8 DEF Next

LEMMA InitBlocks == Init => BlocksComeBack
BY DEF Init, BlocksComeBack

(* However scripts overlap and whatever fails, a block rule the user wants and that is off
   is the business of a script that runs, that succeeded, that reported a partial rollback
   or that was killed. *)
THEOREM FirewallInvariantHolds == Spec => []FirewallInvariant
<1>1. Init => TypeOK /\ BlocksComeBack
  BY InitType, InitBlocks
<1>2. TypeOK /\ BlocksComeBack /\ [Next]_vars => (TypeOK /\ BlocksComeBack)'
  BY NextType, NextBlocks
<1>3. TypeOK /\ BlocksComeBack => FirewallInvariant
  BY DEF FirewallInvariant
<1> QED BY <1>1, <1>2, <1>3, PTL DEF Spec

-----------------------------------------------------------------------------
(* What a script has done to the rules, as long as nothing else changes them beside it. *)
Late == {"restore", "exit", "over", "dead"}

(* A script fails once, creates its rule once, and notes nothing before it disables. *)
Phases ==
  \A t \in Requests :
    /\ code[t] # 10 => step[t] \in Late
    /\ created[t] => step[t] \in {"disable", "verify"} \cup Late
    /\ step[t] \in {"idle", "consent", "recheck", "read", "own"} => disabled[t] = {}

Alone == \A t, u \in Requests : Running(t) /\ Running(u) /\ t # u => t \in disturbed

TracedAt(t) ==
  /\ enabled \subseteq was[t].enabled
  /\ step[t] \in {"recheck", "read", "own"} => enabled = was[t].enabled
  /\ step[t] \in {"own", "disable", "restore"} => todo[t] \subseteq was[t].enabled
  /\ step[t] \in {"disable", "verify"} =>
       was[t].enabled \ disabled[t] \subseteq enabled /\ disabled[t] \subseteq was[t].enabled
  /\ step[t] = "restore" => was[t].enabled \ todo[t] \subseteq enabled
  /\ IF created[t] THEN was[t].own = "absent"
     ELSE \/ own = was[t].own
          \/ code[t] = 13 /\ was[t].own = "absent" /\ own = "intact"

Traced == \A t \in Requests : Running(t) /\ t \notin disturbed /\ code[t] # 16 => TracedAt(t)

(* Nothing but the scripts, one at a time and without a partial rollback, has changed rules. *)
Undisturbed == changes = 0 /\ disturbed = {} /\ \A t \in Requests : code[t] # 16

(* The rules a script has still to put back. *)
Owed(t) == IF step[t] = "restore" THEN todo[t] ELSE disabled[t]

Replaced ==
  Undisturbed =>
    /\ wanted \ enabled # {} => own = "intact"
    /\ \A t \in Requests :
         /\ Running(t) /\ created[t] => wanted \ enabled \subseteq Owed(t)
         /\ step[t] \in {"disable", "verify"} => own = "intact"

Inductive == TypeOK /\ Phases /\ Alone /\ Traced /\ Replaced

LEMMA InitInductive == Init => Inductive
<1> SUFFICES ASSUME Init PROVE Inductive
  OBVIOUS
<1>1. TypeOK
  BY InitType
<1>2. Phases /\ Alone /\ Traced /\ Replaced
  BY DEF Init, Phases, Alone, Traced, Replaced, Running, InScript, Late
<1> QED BY <1>1, <1>2 DEF Inductive

(* A request that is not running its script changes no rule and no note of a script. *)
LEMMA OutsideKeeps ==
  ASSUME Inductive, TypeOK',
         UNCHANGED <<enabled, own, wanted, code, disabled, created, todo, was, disturbed, changes>>,
         \A u \in Requests : \/ step'[u] = step[u]
                             \/ step[u] \in {"idle", "consent"} /\ step'[u] \in {"consent", "over"}
                             \/ step[u] = "exit" /\ step'[u] = "over"
  PROVE  Inductive'
<1>1. \A u \in Requests : \/ step'[u] = step[u]
                          \/ ~Running(u) /\ ~Running(u)' /\ step'[u] \notin {"disable", "verify"}
  BY DEF Running, InScript
<1>2. \A u \in Requests : Running(u)' => step'[u] = step[u]
  BY <1>1
<1>3. Phases'
  BY DEF Inductive, Phases, Late
<1>4. Alone'
  BY <1>1 DEF Inductive, Alone, Running
<1>5. Traced'
  BY <1>1, <1>2 DEF Inductive, Traced, TracedAt, Running
<1>6. Replaced'
  BY <1>1, <1>2 DEF Inductive, Replaced, Undisturbed, Owed, Running
<1> QED BY <1>3, <1>4, <1>5, <1>6 DEF Inductive

(* A script that runs leaves the notes of the others alone; whatever it does, it is alone
   with the rules or known to be disturbed. *)
LEMMA ScriptKeeps ==
  ASSUME Inductive, NEW t \in Requests, Running(t), TypeOK',
         UNCHANGED <<wanted, was, disturbed, changes>>,
         \A u \in Requests \ {t} : /\ step'[u] = step[u] /\ code'[u] = code[u] /\ todo'[u] = todo[u]
                                   /\ disabled'[u] = disabled[u] /\ created'[u] = created[u],
         code[t] = 16 => code'[t] = 16,
         code'[t] # 10 => step'[t] \in Late,
         created'[t] => step'[t] \in {"disable", "verify"} \cup Late,
         step'[t] \in {"idle", "consent", "recheck", "read", "own"} => disabled'[t] = {},
         t \notin disturbed /\ code'[t] # 16 /\ Running(t)' => TracedAt(t)',
         Undisturbed /\ code'[t] # 16 =>
           /\ wanted \ enabled' # {} => own' = "intact"
           /\ Running(t)' /\ created'[t] => wanted \ enabled' \subseteq Owed(t)'
           /\ step'[t] \in {"disable", "verify"} => own' = "intact"
  PROVE  Inductive'
<1>1. Phases'
  <2>1. ASSUME NEW u \in Requests
        PROVE  /\ code'[u] # 10 => step'[u] \in Late
               /\ created'[u] => step'[u] \in {"disable", "verify"} \cup Late
               /\ step'[u] \in {"idle", "consent", "recheck", "read", "own"} => disabled'[u] = {}
    <3>1. CASE u = t
      BY <3>1
    <3>2. CASE u # t
      BY <3>2 DEF Inductive, Phases
    <3> QED BY <3>1, <3>2
  <2> QED BY <2>1 DEF Phases
<1>2. \A u \in Requests : Running(u)' => Running(u)
  BY DEF Running
<1>3. Alone'
  BY <1>2 DEF Inductive, Alone
<1>4. \A u \in Requests \ {t} : Running(u) => u \in disturbed /\ t \in disturbed
  BY DEF Inductive, Alone
<1>5. Traced'
  <2>1. ASSUME NEW u \in Requests, Running(u)', u \notin disturbed, code'[u] # 16
        PROVE  TracedAt(u)'
    <3>1. u = t
      BY <1>2, <1>4, <2>1
    <3> QED BY <2>1, <3>1
  <2> QED BY <2>1 DEF Traced
<1>6. Replaced'
  <2> SUFFICES ASSUME Undisturbed'
               PROVE  /\ wanted \ enabled' # {} => own' = "intact"
                      /\ \A u \in Requests :
                           /\ Running(u)' /\ created'[u] => wanted \ enabled' \subseteq Owed(u)'
                           /\ step'[u] \in {"disable", "verify"} => own' = "intact"
    BY DEF Replaced
  <2>1. Undisturbed /\ code'[t] # 16
    BY DEF Undisturbed
  <2>2. \A u \in Requests \ {t} : ~Running(u) /\ ~Running(u)' /\ step'[u] \notin {"disable", "verify"}
    BY <1>4, <2>1 DEF Undisturbed, Running, InScript
  <2>3. ASSUME NEW u \in Requests
        PROVE  /\ Running(u)' /\ created'[u] => wanted \ enabled' \subseteq Owed(u)'
               /\ step'[u] \in {"disable", "verify"} => own' = "intact"
    <3>1. CASE u = t
      BY <2>1, <3>1
    <3>2. CASE u # t
      BY <2>2, <3>2
    <3> QED BY <3>1, <3>2
  <2> QED BY <2>1, <2>3
<1> QED BY <1>1, <1>3, <1>5, <1>6 DEF Inductive

(* What is known of a script that runs. *)
LEMMA KnownOf ==
  ASSUME Inductive, NEW t \in Requests, Running(t)
  PROVE  /\ TypeOK
         /\ code[t] # 10 => step[t] \in Late
         /\ created[t] => step[t] \in {"disable", "verify"} \cup Late
         /\ step[t] \in {"idle", "consent", "recheck", "read", "own"} => disabled[t] = {}
         /\ t \notin disturbed /\ code[t] # 16 => TracedAt(t)
         /\ Undisturbed => /\ wanted \ enabled # {} => own = "intact"
                           /\ created[t] => wanted \ enabled \subseteq Owed(t)
                           /\ step[t] \in {"disable", "verify"} => own = "intact"
BY DEF Inductive, Phases, Traced, Replaced

(* What throw sets. *)
LEMMA FailsSets ==
  ASSUME TypeOK, NEW t \in Requests, NEW c, NEW names, Fails(t, c, names)
  PROVE  /\ step'[t] = "restore" /\ code'[t] = c /\ disabled'[t] = names /\ todo'[t] = names
         /\ \A u \in Requests \ {t} : /\ step'[u] = step[u] /\ code'[u] = code[u] /\ todo'[u] = todo[u]
                                      /\ disabled'[u] = disabled[u]
BY DEF Fails, Go, TypeOK

(* throw: everything that was noted as disabled is to be put back. *)
LEMMA FailsKeeps ==
  ASSUME Inductive, NEW t \in Requests, Running(t), TypeOK', code[t] = 10,
         NEW c \in {10, 11, 12, 13, 14, 15}, NEW names, Fails(t, c, names),
         UNCHANGED <<wanted, was, disturbed, changes, own, created>>,
         enabled' \subseteq enabled, enabled \ names \subseteq enabled',
         names = {} \/ step[t] \in {"disable", "verify"},
         disabled[t] \subseteq names,
         names \subseteq disabled[t] \/ (step[t] = "disable" /\ names \subseteq disabled[t] \cup todo[t]),
         step[t] \in {"recheck", "read", "own", "disable", "verify"},
         enabled' = enabled \/ step[t] = "disable"
  PROVE  Inductive'
<1>1. /\ step'[t] = "restore" /\ code'[t] = c /\ disabled'[t] = names /\ todo'[t] = names
      /\ \A u \in Requests \ {t} : /\ step'[u] = step[u] /\ code'[u] = code[u] /\ todo'[u] = todo[u]
                                   /\ disabled'[u] = disabled[u]
  BY FailsSets DEF Inductive
<1>2. t \notin disturbed => TracedAt(t)'
  <2> SUFFICES ASSUME t \notin disturbed PROVE TracedAt(t)'
    OBVIOUS
  <2>1. TracedAt(t)
    BY KnownOf
  <2>2. enabled' \subseteq was[t].enabled /\ names \subseteq was[t].enabled
    BY <2>1 DEF TracedAt
  <2>3. was[t].enabled \ names \subseteq enabled'
    BY <2>1 DEF TracedAt
  <2> QED BY <1>1, <2>1, <2>2, <2>3 DEF TracedAt
<1>3. ASSUME Undisturbed
      PROVE  /\ wanted \ enabled' # {} => own' = "intact"
             /\ created'[t] => wanted \ enabled' \subseteq Owed(t)'
  <2>1. /\ wanted \ enabled # {} => own = "intact"
        /\ created[t] => wanted \ enabled \subseteq Owed(t)
        /\ step[t] = "disable" => own = "intact"
    BY <1>3, KnownOf
  <2>2. Owed(t)' = names /\ Owed(t) = disabled[t]
    BY <1>1 DEF Owed
  <2> QED BY <2>1, <2>2
<1>4. created'[t] = created[t] /\ step'[t] \in Late /\ c # 16
  BY <1>1 DEF Late
<1> QED BY <1>1, <1>2, <1>3, <1>4, ScriptKeeps

LEMMA ScriptInductive ==
  ASSUME Inductive, TypeOK', NEW t \in Requests, Script(t)
  PROVE  Inductive'
<1> USE DEF Late
<1>1. Running(t)
  BY DEF Script, Recheck, ReadRules, EnsureAllow, AllDisabled, Verify, RemoveAllow, Dies, Disable, Restore,
         Running, InScript
<1>2. /\ TypeOK
      /\ code[t] # 10 => step[t] \in Late
      /\ created[t] => step[t] \in {"disable", "verify"} \cup Late
      /\ step[t] \in {"idle", "consent", "recheck", "read", "own"} => disabled[t] = {}
      /\ t \notin disturbed /\ code[t] # 16 => TracedAt(t)
      /\ Undisturbed => /\ wanted \ enabled # {} => own = "intact"
                        /\ created[t] => wanted \ enabled \subseteq Owed(t)
                        /\ step[t] \in {"disable", "verify"} => own = "intact"
  BY <1>1, KnownOf
<1>3. CASE Recheck(t)
  <2>1. /\ step[t] = "recheck"
        /\ UNCHANGED <<wanted, changes, enabled, own, created, was, disturbed>>
    BY <1>3 DEF Recheck, world
  <2>2. CASE Go(t, "read") /\ UNCHANGED <<code, disabled, todo>>
    <3>1. step'[t] = "read" /\ \A u \in Requests \ {t} : step'[u] = step[u]
      BY <1>2, <2>2 DEF Go, TypeOK
    <3>2. t \notin disturbed /\ code[t] # 16 => TracedAt(t)'
      BY <1>2, <2>1, <2>2, <3>1 DEF TracedAt
    <3> QED BY <1>1, <1>2, <2>1, <2>2, <3>1, <3>2, ScriptKeeps
  <2>3. CASE Fails(t, 10, {})
    BY <1>1, <1>2, <2>1, <2>3, FailsKeeps
  <2> QED BY <1>3, <2>2, <2>3 DEF Recheck
<1>4. CASE ReadRules(t)
  <2>1. /\ step[t] = "read"
        /\ UNCHANGED <<wanted, changes, enabled, own, created, was, disturbed>>
    BY <1>4 DEF ReadRules, world
  <2>2. CASE Go(t, "own") /\ todo' = [todo EXCEPT ![t] = Candidates] /\ UNCHANGED <<code, disabled>>
    <3>1. /\ step'[t] = "own" /\ \A u \in Requests \ {t} : step'[u] = step[u] /\ todo'[u] = todo[u]
          /\ todo'[t] \subseteq enabled
      BY <1>2, <2>2 DEF Go, TypeOK, Candidates
    <3>2. t \notin disturbed /\ code[t] # 16 => TracedAt(t)'
      BY <1>2, <2>1, <2>2, <3>1 DEF TracedAt
    <3> QED BY <1>1, <1>2, <2>1, <2>2, <3>1, <3>2, ScriptKeeps
  <2>3. CASE Fails(t, 11, {})
    BY <1>1, <1>2, <2>1, <2>3, FailsKeeps
  <2> QED BY <1>4, <2>2, <2>3 DEF ReadRules
<1>5. CASE EnsureAllow(t)
  <2>1. /\ step[t] = "own" /\ ~created[t] /\ code[t] = 10 /\ disabled[t] = {}
        /\ UNCHANGED <<wanted, changes, enabled, was, disturbed>>
    BY <1>2, <1>5 DEF EnsureAllow, world
  <2>2. CASE own = "intact" /\ Go(t, "disable") /\ UNCHANGED <<own, created, code, disabled, todo>>
    <3>1. step'[t] = "disable" /\ \A u \in Requests \ {t} : step'[u] = step[u]
      BY <1>2, <2>2 DEF Go, TypeOK
    <3>2. t \notin disturbed => TracedAt(t)'
      BY <1>2, <2>1, <2>2, <3>1 DEF TracedAt
    <3> QED BY <1>1, <1>2, <2>1, <2>2, <3>1, <3>2, ScriptKeeps
  <2>3. CASE /\ own = "absent" /\ own' = "intact" /\ created' = [created EXCEPT ![t] = TRUE]
             /\ Go(t, "disable") /\ UNCHANGED <<code, disabled, todo>>
    <3>1. /\ step'[t] = "disable" /\ created'[t]
          /\ \A u \in Requests \ {t} : step'[u] = step[u] /\ created'[u] = created[u]
      BY <1>2, <2>3 DEF Go, TypeOK
    <3>2. t \notin disturbed => TracedAt(t)'
      BY <1>2, <2>1, <2>3, <3>1 DEF TracedAt
    <3>3. Undisturbed => wanted \ enabled = {}
      BY <1>2, <2>3
    <3>4. Undisturbed => wanted \ enabled' \subseteq Owed(t)'
      BY <2>1, <3>3
    <3> QED BY <1>1, <1>2, <2>1, <2>3, <3>1, <3>2, <3>4, ScriptKeeps
  <2>4. CASE (Fails(t, 12, {}) \/ Fails(t, 13, {})) /\ UNCHANGED <<own, created>>
    BY <1>1, <1>2, <2>1, <2>4, FailsKeeps
  <2>5. CASE own = "absent" /\ own' = "intact" /\ Fails(t, 13, {}) /\ UNCHANGED created
    <3>1. /\ step'[t] = "restore" /\ code'[t] = 13 /\ disabled'[t] = {} /\ todo'[t] = {}
          /\ \A u \in Requests \ {t} : /\ step'[u] = step[u] /\ code'[u] = code[u]
                                       /\ todo'[u] = todo[u] /\ disabled'[u] = disabled[u]
      BY <1>2, <2>5, FailsSets
    <3>2. t \notin disturbed => TracedAt(t)'
      BY <1>2, <2>1, <2>5, <3>1 DEF TracedAt
    <3>3. Undisturbed => wanted \ enabled' = {}
      BY <1>2, <2>1, <2>5
    <3> QED BY <1>1, <1>2, <2>1, <2>5, <3>1, <3>2, <3>3, ScriptKeeps
  <2> QED BY <1>5, <2>2, <2>3, <2>4, <2>5 DEF EnsureAllow
<1>6. CASE AllDisabled(t)
  <2>1. /\ step[t] = "disable" /\ Go(t, "verify")
        /\ UNCHANGED <<wanted, changes, enabled, own, code, disabled, created, todo, was, disturbed>>
    BY <1>6 DEF AllDisabled, world
  <2>2. step'[t] = "verify" /\ \A u \in Requests \ {t} : step'[u] = step[u]
    BY <1>2, <2>1 DEF Go, TypeOK
  <2>3. t \notin disturbed /\ code[t] # 16 => TracedAt(t)'
    BY <1>2, <2>1, <2>2 DEF TracedAt
  <2>4. Owed(t)' = Owed(t)
    BY <2>1, <2>2 DEF Owed
  <2> QED BY <1>1, <1>2, <2>1, <2>2, <2>3, <2>4, ScriptKeeps
<1>7. CASE Verify(t)
  <2>1. /\ step[t] = "verify" /\ code[t] = 10
        /\ UNCHANGED <<wanted, changes, enabled, own, created, was, disturbed>>
    BY <1>2, <1>7 DEF Verify, world
  <2>2. CASE code' = [code EXCEPT ![t] = 0] /\ Go(t, "exit") /\ UNCHANGED <<disabled, todo>>
    <3>1. /\ step'[t] = "exit" /\ code'[t] = 0 /\ ~Running(t)'
          /\ \A u \in Requests \ {t} : step'[u] = step[u] /\ code'[u] = code[u]
      BY <1>2, <2>2 DEF Go, TypeOK, Running, InScript
    <3> QED BY <1>1, <1>2, <2>1, <2>2, <3>1, ScriptKeeps
  <2>3. CASE Fails(t, 15, disabled[t])
    BY <1>1, <1>2, <2>1, <2>3, FailsKeeps
  <2> QED BY <1>7, <2>2, <2>3 DEF Verify
<1>8. CASE RemoveAllow(t)
  <2>1. /\ step[t] = "restore" /\ todo[t] = {} /\ Go(t, "exit")
        /\ UNCHANGED <<wanted, changes, enabled, disabled, created, todo, was, disturbed>>
        /\ own' = own \/ created[t]
        /\ UNCHANGED code \/ code' = [code EXCEPT ![t] = 16]
    BY <1>8 DEF RemoveAllow, world
  <2>2. /\ step'[t] = "exit" /\ ~Running(t)' /\ code'[t] \in {code[t], 16}
        /\ \A u \in Requests \ {t} : step'[u] = step[u] /\ code'[u] = code[u]
    BY <1>2, <2>1 DEF Go, TypeOK, Running, InScript
  <2>3. Undisturbed /\ wanted \ enabled # {} => own' = "intact"
    BY <1>2, <2>1 DEF Owed
  <2> QED BY <1>1, <1>2, <2>1, <2>2, <2>3, ScriptKeeps
<1>9. CASE Dies(t)
  <2>1. /\ Go(t, "dead")
        /\ UNCHANGED <<wanted, changes, enabled, own, code, disabled, created, todo, was, disturbed>>
    BY <1>9 DEF Dies, world
  <2>2. /\ step'[t] = "dead" /\ ~Running(t)'
        /\ \A u \in Requests \ {t} : step'[u] = step[u]
    BY <1>2, <2>1 DEF Go, TypeOK, Running, InScript
  <2> QED BY <1>1, <1>2, <2>1, <2>2, ScriptKeeps
<1>10. ASSUME NEW b \in Blocks, Disable(t, b)
       PROVE  Inductive'
  <2>1. /\ step[t] = "disable" /\ code[t] = 10 /\ b \in todo[t]
        /\ UNCHANGED <<wanted, changes, own, created, was, disturbed>>
    BY <1>2, <1>10 DEF Disable, world
  <2>2. CASE /\ enabled' = enabled \ {b} /\ disabled' = [disabled EXCEPT ![t] = @ \cup {b}]
             /\ todo' = [todo EXCEPT ![t] = @ \ {b}] /\ UNCHANGED <<step, code>>
    <3>1. /\ disabled'[t] = disabled[t] \cup {b} /\ todo'[t] = todo[t] \ {b}
          /\ \A u \in Requests \ {t} : disabled'[u] = disabled[u] /\ todo'[u] = todo[u]
      BY <1>2, <2>2 DEF TypeOK
    <3>2. t \notin disturbed => TracedAt(t)'
      <4> SUFFICES ASSUME t \notin disturbed PROVE TracedAt(t)'
        OBVIOUS
      <4>1. TracedAt(t)
        BY <1>2, <2>1
      <4> QED BY <2>1, <2>2, <3>1, <4>1 DEF TracedAt
    <3>3. Undisturbed /\ created[t] => wanted \ enabled' \subseteq Owed(t)'
      BY <1>2, <2>1, <2>2, <3>1 DEF Owed
    <3>4. Undisturbed => own = "intact"
      BY <1>2, <2>1
    <3> QED BY <1>1, <1>2, <2>1, <2>2, <3>1, <3>2, <3>3, <3>4, ScriptKeeps
  <2>3. CASE enabled' \in {enabled, enabled \ {b}} /\ Fails(t, 14, disabled[t] \cup {b})
    BY <1>1, <1>2, <2>1, <2>3, FailsKeeps
  <2> QED BY <1>10, <2>2, <2>3 DEF Disable
<1>11. ASSUME NEW b \in Blocks, Restore(t, b)
       PROVE  Inductive'
  <2>1. /\ step[t] = "restore" /\ b \in todo[t] /\ todo' = [todo EXCEPT ![t] = @ \ {b}]
        /\ UNCHANGED <<wanted, changes, own, step, disabled, created, was, disturbed>>
    BY <1>11 DEF Restore, world
  <2>2. todo'[t] = todo[t] \ {b} /\ \A u \in Requests \ {t} : todo'[u] = todo[u]
    BY <1>2, <2>1 DEF TypeOK
  <2>3. CASE enabled' = enabled \cup {b} /\ UNCHANGED code
    <3>1. t \notin disturbed /\ code[t] # 16 => TracedAt(t)'
      <4> SUFFICES ASSUME t \notin disturbed, code[t] # 16 PROVE TracedAt(t)'
        OBVIOUS
      <4>1. TracedAt(t)
        BY <1>2
      <4> QED BY <2>1, <2>2, <2>3, <4>1 DEF TracedAt
    <3>2. Undisturbed => /\ wanted \ enabled' # {} => own' = "intact"
                         /\ created[t] => wanted \ enabled' \subseteq Owed(t)'
      BY <1>2, <2>1, <2>2, <2>3 DEF Owed
    <3> QED BY <1>1, <1>2, <2>1, <2>2, <2>3, <3>1, <3>2, ScriptKeeps
  <2>4. CASE code' = [code EXCEPT ![t] = 16]
    <3>1. code'[t] = 16 /\ \A u \in Requests \ {t} : code'[u] = code[u]
      BY <1>2, <2>4 DEF TypeOK
    <3> QED BY <1>1, <1>2, <2>1, <2>2, <3>1, ScriptKeeps
  <2> QED BY <1>11, <2>3, <2>4 DEF Restore
<1> QED BY <1>3, <1>4, <1>5, <1>6, <1>7, <1>8, <1>9, <1>10, <1>11 DEF Script

(* A script that starts while another runs makes both of them disturbed. *)
LEMMA ElevateInductive ==
  ASSUME Inductive, TypeOK', NEW t \in Requests, Elevate(t)
  PROVE  Inductive'
<1>1. /\ step[t] = "consent" /\ TypeOK
      /\ UNCHANGED <<wanted, changes, enabled, own, code, disabled, created, todo>>
      /\ disturbed' = IF \E u \in Requests : Running(u)
                      THEN disturbed \cup {t} \cup {u \in Requests : Running(u)} ELSE disturbed
  BY DEF Elevate, world, Inductive
<1>2. /\ step'[t] = "recheck" /\ was'[t] = [enabled |-> enabled, own |-> own]
      /\ \A u \in Requests \ {t} : step'[u] = step[u] /\ was'[u] = was[u]
  BY <1>1 DEF Elevate, Go, TypeOK
<1>3. disabled[t] = {} /\ ~created[t] /\ code[t] = 10
  BY <1>1 DEF Inductive, Phases, Late
<1>4. \A u \in Requests \ {t} : Running(u)' => Running(u) /\ u \in disturbed' /\ t \in disturbed'
  BY <1>1, <1>2 DEF Running
<1>5. Phases'
  BY <1>1, <1>2, <1>3 DEF Inductive, Phases
<1>6. Alone'
  BY <1>4 DEF Alone
<1>7. TracedAt(t)'
  <2>1. /\ enabled' = was'[t].enabled /\ own' = was'[t].own
        /\ step'[t] = "recheck" /\ ~created'[t]
    BY <1>1, <1>2, <1>3
  <2> QED BY <2>1 DEF TracedAt
<1>8. Traced'
  <2>1. ASSUME NEW u \in Requests, Running(u)', u \notin disturbed'
        PROVE  TracedAt(u)'
    <3>1. u = t
      BY <1>4, <2>1
    <3> QED BY <1>7, <3>1
  <2> QED BY <2>1 DEF Traced
<1>9. Replaced'
  <2>1. Undisturbed' => Undisturbed /\ \A u \in Requests \ {t} : ~Running(u)'
    BY <1>1, <1>4 DEF Undisturbed
  <2>2. ASSUME NEW u \in Requests, Undisturbed'
        PROVE  /\ Running(u)' /\ created'[u] => wanted' \ enabled' \subseteq Owed(u)'
               /\ step'[u] \in {"disable", "verify"} => own' = "intact"
    <3>1. CASE u = t
      BY <1>1, <1>2, <1>3, <3>1
    <3>2. CASE u # t
      BY <2>1, <2>2, <3>2 DEF Running, InScript
    <3> QED BY <3>1, <3>2
  <2> QED BY <1>1, <2>1, <2>2 DEF Inductive, Replaced
<1> QED BY <1>5, <1>6, <1>8, <1>9 DEF Inductive

LEMMA NextInductive == Inductive /\ [Next]_vars => Inductive'
<1> SUFFICES ASSUME Inductive, [Next]_vars PROVE Inductive'
  OBVIOUS
<1>0. TypeOK /\ TypeOK'
  BY NextType DEF Inductive
<1>1. ASSUME NEW t \in Requests, Probe(t) \/ Refuse(t) \/ Timeout(t) \/ Verdict(t)
      PROVE  Inductive'
  <2>1. UNCHANGED <<enabled, own, wanted, code, disabled, created, todo, was, disturbed, changes>>
    BY <1>1 DEF Probe, Refuse, Timeout, Verdict, world
  <2>2. \A u \in Requests : \/ step'[u] = step[u]
                            \/ step[u] \in {"idle", "consent"} /\ step'[u] \in {"consent", "over"}
                            \/ step[u] = "exit" /\ step'[u] = "over"
    BY <1>0, <1>1 DEF Probe, Refuse, Timeout, Verdict, Go, TypeOK
  <2> QED BY <1>0, <2>1, <2>2, OutsideKeeps
<1>2. ASSUME NEW t \in Requests, Elevate(t) PROVE Inductive'
  BY <1>0, <1>2, ElevateInductive
<1>3. ASSUME NEW t \in Requests, Script(t) PROVE Inductive'
  BY <1>0, <1>3, ScriptInductive
<1>4. CASE EditAllow \/ EditPolicy \/ \E b \in Blocks : EditBlock(b)
  <2>1. /\ changes' = changes + 1 /\ UNCHANGED <<step, code, disabled, created, todo, was>>
        /\ disturbed' = disturbed \cup {t \in Requests : Running(t)}
    BY <1>4 DEF EditAllow, EditPolicy, EditBlock, Change
  <2>2. changes' # 0
    BY <1>0, <2>1 DEF TypeOK
  <2>3. \A t \in Requests : Running(t)' => t \in disturbed'
    BY <2>1 DEF Running
  <2>4. Phases' /\ Alone' /\ Traced' /\ Replaced'
    BY <2>1, <2>2, <2>3 DEF Inductive, Phases, Alone, Traced, Replaced, Undisturbed
  <2> QED BY <1>0, <2>4 DEF Inductive
<1>5. CASE UNCHANGED vars
  <2>1. /\ UNCHANGED <<enabled, own, wanted, code, disabled, created, todo, was, disturbed, changes>>
        /\ step' = step
    BY <1>5 DEF vars, world, script
  <2> QED BY <1>0, <2>1, OutsideKeeps
<1> QED BY <1>1, <1>2, <1>3, <1>4, <1>5 DEF Next

(* The narrow rule exists as long as a broad block is off, unless the user or another program
   changed rules, two scripts overlapped or a rollback was reported as partial
   (the order of _allow_script, rollback included). *)
THEOREM NarrowRuleFirst == Spec => []ReplacedWhileDisabled
<1>1. Inductive => ReplacedWhileDisabled
  BY DEF Inductive, Replaced, Undisturbed, ReplacedWhileDisabled
<1> QED BY InitInductive, NextInductive, <1>1, PTL DEF Spec

(* What a script that fails leaves. *)
LEMMA FailedScript ==
  ASSUME Inductive, [Next]_vars, NEW t \in Requests,
         step[t] = "restore", step'[t] = "exit", code'[t] # 16, t \notin disturbed
  PROVE  /\ enabled' = was[t].enabled
         /\ \/ own' = was[t].own
            \/ code'[t] = 13 /\ was[t].own = "absent" /\ own' = "intact"
<1>0. TypeOK
  BY DEF Inductive
<1>1. RemoveAllow(t)
  <2>1. ASSUME NEW u \in Requests, Probe(u) \/ Refuse(u) \/ Elevate(u) \/ Timeout(u) \/ Verdict(u)
        PROVE  FALSE
    BY <1>0, <2>1 DEF Probe, Refuse, Elevate, Timeout, Verdict, Go, TypeOK
  <2>2. ASSUME NEW u \in Requests, Script(u), u # t \/ ~RemoveAllow(t)
        PROVE  FALSE
    BY <1>0, <2>2 DEF Script, Recheck, ReadRules, EnsureAllow, AllDisabled, Verify, RemoveAllow, Dies,
         Disable, Restore, Fails, Go, TypeOK
  <2>3. ~EditAllow /\ ~EditPolicy /\ (\A b \in Blocks : ~EditBlock(b)) /\ ~UNCHANGED vars
    BY DEF EditAllow, EditPolicy, EditBlock, Change, vars, script
  <2> QED BY <2>1, <2>2, <2>3 DEF Next
<1>2. /\ todo[t] = {} /\ UNCHANGED enabled
      /\ ~created[t] => own' = own
      /\ created[t] => own' = "absent" \/ code'[t] = 16
      /\ code'[t] = code[t] \/ code'[t] = 16
  BY <1>0, <1>1 DEF RemoveAllow, TypeOK
<1>3. code[t] # 16
  BY <1>0, <1>1 DEF RemoveAllow, TypeOK
<1>4. TracedAt(t)
  BY <1>3 DEF Inductive, Traced, Running, InScript
<1> QED BY <1>2, <1>4 DEF TracedAt

(* A script that ends after a failure with a complete rollback leaves every block as it found
   it, and the allow rule too, but for a creation that had its effect before it failed with 13,
   as far as nothing else changed rules beside it (the catch of _allow_script). *)
THEOREM FailureIsHarmless == Spec => FailureChangesNothing
<1>1. Inductive /\ [Next]_vars =>
        [\A t \in Requests :
           step[t] = "restore" /\ step'[t] = "exit" /\ code'[t] # 16 /\ t \notin disturbed
             => /\ enabled' = was[t].enabled
                /\ \/ own' = was[t].own
                   \/ code'[t] = 13 /\ was[t].own = "absent" /\ own' = "intact"]_vars
  BY FailedScript
<1> QED BY InitInductive, NextInductive, <1>1, PTL DEF Spec, FailureChangesNothing
=============================================================================
