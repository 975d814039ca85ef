------------------------------ MODULE Firewall ------------------------------
(***************************************************************************)
(* src/windows_firewall.py: the diagnosis of the rules of Windows for this *)
(* executable, and the elevated script that replaces broad Public block    *)
(* rules by one narrow allow rule, verifies, and rolls back.               *)
(*                                                                         *)
(* The API waits for the script 120 s and no longer: a script may outlive  *)
(* its request and meet the script of the next one.  Rules are changed one *)
(* call at a time; the user, a policy and the network change beside them.  *)
(***************************************************************************)
EXTENDS Integers, FiniteSets

CONSTANTS Blocks,     \* the block rules of this executable
          Requests,   \* calls of allow()
          Networks,   \* the sets of profiles the networks of the machine may have
          MaxChanges, \* bound: changes made by the user, a policy or the network
          MaxFaults   \* bound: failing calls and deaths of the script

ASSUME FirewallAssumption ==
  /\ IsFiniteSet(Blocks)
  /\ Networks \subseteq SUBSET {"domain", "private", "public"} \ {{}}
  /\ MaxChanges \in Nat /\ MaxFaults \in Nat

(* "broad": exactly Public, TCP, any address, a local rule.  "managed": the same, set by a
   policy.  "scoped": covers the pairing port on every profile.  "elsewhere": filters on
   addresses that do not concern the pairing. *)
Kinds == {"broad", "managed", "scoped", "elsewhere"}

VARIABLES
  kind,       \* Blocks -> Kinds
  enabled,    \* the block rules that are enabled
  own,        \* watch2notif's allow rule
  blockAll,   \* BlockAllInboundTraffic
  profiles,   \* CurrentProfileTypes
  publicDeny, \* the Public profile is on and denies by default
  step,       \* where each request and its script stand
  code,       \* $failureCode
  counted,    \* $activeBlocks.Count, of the recheck
  disabled,   \* $disabled
  created,    \* $created
  todo,       \* the rules the running loop has still to change
  answer,     \* what allow() returned
  wanted,     \* (for the properties) the blocks the user and the policies want on
  was,        \* (for the properties) the rules when each script started
  disturbed,  \* (for the properties) scripts beside which something else changed rules
  changes,
  faults

world  == <<kind, blockAll, profiles, publicDeny, wanted, changes>>
script == <<step, code, counted, disabled, created, todo, answer, was, disturbed>>
vars   == <<world, enabled, own, script, faults>>

InScript == {"recheck", "read", "own", "disable", "verify", "restore", "remove"}

Running(t) == step[t] \in InScript

-----------------------------------------------------------------------------
(* What the probe sees *)

(* Get-ActiveTcpBlocks. *)
Active == {b \in enabled : kind[b] \in {"broad", "managed"} => "public" \in profiles}

Blocking == {b \in Active : kind[b] # "elsewhere"}

Repairable == publicDeny /\ \A b \in Blocking : kind[b] # "scoped"

Configured == own = "intact" /\ profiles # {"domain"}

(* _diagnosis *)
Reason == IF blockAll THEN "block_all"
          ELSE IF Blocking # {} THEN "explicit_block"
          ELSE IF Configured THEN "configured" ELSE "rule_missing"

(* The answers of allow() that need no elevation; status may fail and say nothing. *)
Refusal == IF Reason = "block_all" \/ (Reason = "explicit_block" /\ ~Repairable) THEN Reason
           ELSE IF profiles = {"domain"} THEN "managed_network" ELSE "none"

(* The local rules that may be disabled, on whatever network the machine is. *)
Candidates == {b \in enabled : kind[b] = "broad"}

Fault == faults < MaxFaults /\ faults' = faults + 1

Go(t, s) == step' = [step EXCEPT ![t] = s]

Init ==
  /\ kind \in [Blocks -> Kinds] /\ enabled \in SUBSET Blocks
  /\ own \in {"absent", "intact", "edited"}
  /\ blockAll \in BOOLEAN /\ profiles \in Networks /\ publicDeny \in BOOLEAN
  /\ step = [t \in Requests |-> "idle"] /\ code = [t \in Requests |-> 10]
  /\ counted = [t \in Requests |-> 0]
  /\ disabled = [t \in Requests |-> {}] /\ todo = [t \in Requests |-> {}]
  /\ created = [t \in Requests |-> FALSE] /\ answer = [t \in Requests |-> "none"]
  /\ wanted = enabled /\ was = [t \in Requests |-> [enabled |-> {}, own |-> "absent"]]
  /\ disturbed = {} /\ changes = 0 /\ faults = 0

-----------------------------------------------------------------------------
(* allow() *)

Answered(t, a) == answer' = [answer EXCEPT ![t] = a]

(* The first diagnosis refuses, or Windows asks for the consent. *)
Probe(t) ==
  /\ step[t] = "idle"
  /\ \/ Refusal = "none" /\ Go(t, "consent") /\ UNCHANGED <<answer, faults>>
     \/ Refusal # "none" /\ Go(t, "over") /\ Answered(t, Refusal) /\ UNCHANGED faults
     \/ Fault /\ Go(t, "consent") /\ UNCHANGED answer
  /\ UNCHANGED <<world, counted, enabled, own, code, disabled, created, todo, was, disturbed>>

(* The consent is refused, or the elevation fails. *)
Refuse(t) ==
  /\ step[t] = "consent"
  /\ Go(t, "over") /\ Answered(t, "cancelled")
  /\ UNCHANGED <<world, counted, enabled, own, code, disabled, created, todo, was, disturbed, faults>>

(* The elevated script starts; one that is still running will change rules under it. *)
Elevate(t) ==
  /\ step[t] = "consent"
  /\ Go(t, "recheck")
  /\ was' = [was EXCEPT ![t] = [enabled |-> enabled, own |-> own]]
  /\ disturbed' = IF \E u \in Requests : Running(u)
                  THEN disturbed \cup {t} \cup {u \in Requests : Running(u)} ELSE disturbed
  /\ UNCHANGED <<world, counted, enabled, own, code, disabled, created, todo, answer, faults>>

(* 120 s: the request is answered and the transaction left alone. *)
Timeout(t) ==
  /\ Running(t) /\ answer[t] = "none"
  /\ Answered(t, "timeout")
  /\ UNCHANGED <<world, counted, enabled, own, step, code, disabled, created, todo, was, disturbed, faults>>

(* After exit 0 the rules are diagnosed again. *)
Verdict(t) ==
  /\ step[t] = "exit"
  /\ Go(t, "over")
  /\ IF answer[t] # "none" THEN UNCHANGED <<answer, faults>>
     ELSE \/ /\ Answered(t, IF code[t] # 0 THEN "failed"
                            ELSE IF Reason = "configured" THEN "ok" ELSE "verification_failed")
             /\ UNCHANGED faults
          \/ code[t] = 0 /\ Fault /\ Answered(t, "verification_failed")
  /\ UNCHANGED <<world, counted, enabled, own, code, disabled, created, todo, was, disturbed>>

-----------------------------------------------------------------------------
(* The script *)

(* throw: what the operation disabled is to be enabled again, then what it created removed. *)
Fails(t, c, names) ==
  /\ code' = [code EXCEPT ![t] = c]
  /\ disabled' = [disabled EXCEPT ![t] = names]
  /\ todo' = [todo EXCEPT ![t] = names]
  /\ Go(t, "restore")

RecheckPasses ==
  /\ ~blockAll /\ profiles # {"domain"}
  /\ Active # {} => publicDeny
  /\ \A b \in Active : kind[b] \in {"broad", "managed"}

Recheck(t) ==
  /\ step[t] = "recheck"
  /\ \/ /\ RecheckPasses /\ Go(t, "read")
        /\ counted' = [counted EXCEPT ![t] = Cardinality(Active)]
        /\ UNCHANGED <<code, disabled, todo, faults>>
     \/ ~RecheckPasses /\ Fails(t, 10, {}) /\ UNCHANGED <<counted, faults>>
     \/ Fault /\ Fails(t, 10, {}) /\ UNCHANGED counted
  /\ UNCHANGED <<world, enabled, own, created, answer, was, disturbed>>

(* The local rules are read now, and compared in number only with the active blocks of the
   recheck, whatever has changed since.  Nothing looks at the count again. *)
ReadRules(t) ==
  /\ step[t] = "read" /\ counted' = [counted EXCEPT ![t] = 0]
  /\ \/ /\ Cardinality(Candidates) = counted[t]
        /\ todo' = [todo EXCEPT ![t] = Candidates] /\ Go(t, "own")
        /\ UNCHANGED <<code, disabled, faults>>
     \/ Cardinality(Candidates) # counted[t] /\ Fails(t, 11, {}) /\ UNCHANGED faults
     \/ Fault /\ Fails(t, 11, {})
  /\ UNCHANGED <<world, enabled, own, created, answer, was, disturbed>>

(* Slip: a missing allow rule is not created. *)
AllowTakenForGranted(t) ==
  /\ step[t] = "own"
  /\ IF own = "edited" THEN Fails(t, 12, {}) ELSE Go(t, "disable") /\ UNCHANGED <<code, disabled, todo>>
  /\ UNCHANGED <<world, counted, enabled, own, created, answer, was, disturbed, faults>>

(* The narrow rule is found intact or created, before any block is disabled.  A creation
   that fails may have had its effect, which $created does not know of; a rule that is there
   and cannot be read ends in 12, or in 13 when the failing read was silent. *)
EnsureAllow(t) ==
  /\ step[t] = "own"
  /\ \/ own = "edited" /\ Fails(t, 12, {}) /\ UNCHANGED <<own, created, faults>>
     \/ own = "intact" /\ Go(t, "disable") /\ UNCHANGED <<own, created, code, disabled, todo, faults>>
     \/ /\ own = "absent" /\ own' = "intact" /\ created' = [created EXCEPT ![t] = TRUE]
        /\ Go(t, "disable") /\ UNCHANGED <<code, disabled, todo, faults>>
     \/ own = "absent" /\ own' \in {"absent", "intact"} /\ Fault /\ Fails(t, 13, {}) /\ UNCHANGED created
     \/ own # "absent" /\ Fault /\ (Fails(t, 12, {}) \/ Fails(t, 13, {})) /\ UNCHANGED <<own, created>>
  /\ UNCHANGED <<world, counted, enabled, answer, was, disturbed>>

(* Slip: the name is noted when the call has returned. *)
DisableThenNote(t, b) ==
  /\ step[t] = "disable" /\ b \in todo[t]
  /\ enabled' = enabled \ {b}
  /\ \/ /\ disabled' = [disabled EXCEPT ![t] = @ \cup {b}]
        /\ todo' = [todo EXCEPT ![t] = @ \ {b}]
        /\ UNCHANGED <<step, code, faults>>
     \/ Fault /\ Fails(t, 14, disabled[t])
  /\ UNCHANGED <<world, counted, own, created, answer, was, disturbed>>

(* One block: its name is noted before the call, which may fail with or without effect. *)
Disable(t, b) ==
  /\ step[t] = "disable" /\ b \in todo[t]
  /\ \/ /\ enabled' = enabled \ {b}
        /\ disabled' = [disabled EXCEPT ![t] = @ \cup {b}]
        /\ todo' = [todo EXCEPT ![t] = @ \ {b}]
        /\ UNCHANGED <<step, code, faults>>
     \/ enabled' \in {enabled, enabled \ {b}} /\ Fault /\ Fails(t, 14, disabled[t] \cup {b})
  /\ UNCHANGED <<world, counted, own, created, answer, was, disturbed>>

AllDisabled(t) ==
  /\ step[t] = "disable" /\ todo[t] = {} /\ Go(t, "verify")
  /\ UNCHANGED <<world, counted, enabled, own, code, disabled, created, todo, answer, was, disturbed, faults>>

Verified == ~blockAll /\ own = "intact" /\ Active = {}

Verify(t) ==
  /\ step[t] = "verify"
  /\ \/ /\ Verified /\ code' = [code EXCEPT ![t] = 0] /\ Go(t, "exit")
        /\ UNCHANGED <<disabled, todo, faults>>
     \/ ~Verified /\ Fails(t, 15, disabled[t]) /\ UNCHANGED faults
     \/ Fault /\ Fails(t, 15, disabled[t])
  /\ UNCHANGED <<world, counted, enabled, own, created, answer, was, disturbed>>

(* The rollback goes on whatever call fails, with or without effect, and says so. *)
Restore(t, b) ==
  /\ step[t] = "restore" /\ b \in todo[t]
  /\ todo' = [todo EXCEPT ![t] = @ \ {b}]
  /\ \/ enabled' = enabled \cup {b} /\ UNCHANGED <<code, faults>>
     \/ enabled' \in {enabled, enabled \cup {b}} /\ Fault /\ code' = [code EXCEPT ![t] = 16]
  /\ UNCHANGED <<world, counted, own, step, disabled, created, answer, was, disturbed>>

(* Slip: the allow rule stays. *)
ExitRestored(t) ==
  /\ step[t] = "restore" /\ todo[t] = {} /\ Go(t, "exit")
  /\ UNCHANGED <<world, counted, enabled, own, code, disabled, created, todo, answer, was, disturbed, faults>>

RemoveAllow(t) ==
  /\ step[t] = "restore" /\ todo[t] = {} /\ Go(t, "exit")
  /\ \/ ~created[t] /\ UNCHANGED <<own, code, faults>>
     \/ created[t] /\ own # "absent" /\ own' = "absent" /\ UNCHANGED <<code, faults>>
     \/ /\ created[t] /\ own' \in {own, "absent"} /\ IF own = "absent" THEN UNCHANGED faults ELSE Fault
        /\ code' = [code EXCEPT ![t] = 16]
  /\ UNCHANGED <<world, counted, enabled, disabled, created, todo, answer, was, disturbed>>

(* The machine goes down or the script is ended: no rollback. *)
Dies(t) ==
  /\ Running(t) /\ Fault /\ Go(t, "dead")
  /\ Answered(t, IF answer[t] = "none" THEN "failed" ELSE answer[t])
  /\ UNCHANGED <<world, counted, enabled, own, code, disabled, created, todo, was, disturbed>>

-----------------------------------------------------------------------------
(* The user, a policy, another network *)

Change ==
  /\ changes < MaxChanges /\ changes' = changes + 1
  /\ disturbed' = disturbed \cup {t \in Requests : Running(t)}
  /\ UNCHANGED <<kind, step, code, counted, disabled, created, todo, answer, was, faults>>

EditBlock(b) ==
  /\ Change
  /\ \/ enabled' = enabled \cup {b} /\ wanted' = wanted \cup {b}
     \/ enabled' = enabled \ {b} /\ wanted' = wanted \ {b}
  /\ UNCHANGED <<own, blockAll, profiles, publicDeny>>

EditAllow ==
  /\ Change /\ own # "absent" /\ own' \in {"absent", "edited"}
  /\ UNCHANGED <<enabled, blockAll, profiles, publicDeny, wanted>>

EditPolicy ==
  /\ Change
  /\ \/ blockAll' = ~blockAll /\ UNCHANGED <<profiles, publicDeny>>
     \/ profiles' \in Networks /\ UNCHANGED <<blockAll, publicDeny>>
     \/ publicDeny' = ~publicDeny /\ UNCHANGED <<blockAll, profiles>>
  /\ UNCHANGED <<enabled, own, wanted>>

Script(t) == \/ Recheck(t) \/ ReadRules(t) \/ EnsureAllow(t) \/ AllDisabled(t) \/ Verify(t)
             \/ RemoveAllow(t) \/ Dies(t) \/ \E b \in Blocks : Disable(t, b) \/ Restore(t, b)

Next == \/ \E t \in Requests : Probe(t) \/ Refuse(t) \/ Elevate(t) \/ Timeout(t) \/ Verdict(t) \/ Script(t)
        \/ EditAllow \/ EditPolicy \/ \E b \in Blocks : EditBlock(b)

Spec == Init /\ [][Next]_vars

-----------------------------------------------------------------------------
(* Every variable keeps its type. *)
TypeOK ==
  /\ kind \in [Blocks -> Kinds] /\ enabled \subseteq Blocks /\ wanted \subseteq Blocks
  /\ own \in {"absent", "intact", "edited"}
  /\ blockAll \in BOOLEAN /\ profiles \in Networks /\ publicDeny \in BOOLEAN
  /\ step \in [Requests -> InScript \cup {"idle", "consent", "exit", "dead", "over"}]
  /\ code \in [Requests -> {0} \cup 10..16]
  /\ counted \in [Requests -> Nat]
  /\ disabled \in [Requests -> SUBSET Blocks] /\ todo \in [Requests -> SUBSET Blocks]
  /\ created \in [Requests -> BOOLEAN]
  /\ answer \in [Requests -> {"none", "block_all", "explicit_block", "managed_network", "cancelled",
                              "timeout", "failed", "ok", "verification_failed"}]
  /\ was \in [Requests -> [enabled : SUBSET Blocks, own : {"absent", "intact", "edited"}]]
  /\ disturbed \subseteq Requests /\ changes \in 0..MaxChanges /\ faults \in 0..MaxFaults

(* The script of t answers for b being off: it is still at work and will put b back, or it
   succeeded, or it said that its rollback was partial, or it was killed. *)
AnswersFor(t, b) ==
  /\ b \in disabled[t]
  /\ \/ step[t] \in {"disable", "verify", "dead"}
     \/ step[t] = "restore" /\ b \in todo[t]
     \/ step[t] \in {"restore", "exit", "over"} /\ code[t] \in {0, 16}

(* A block rule the user wants is never left off behind his back: whatever call fails and
   however scripts overlap, each one that is off is the business of a script that runs, that
   succeeded, or that reported rollback_failed. *)
BlocksComeBack == \A b \in wanted \ enabled : \E t \in Requests : AnswersFor(t, b)

FirewallInvariant == TypeOK /\ BlocksComeBack

(* "The narrow replacement exists before the broad Public block is disabled" (the comment
   in _allow_script), and until the block is back: unless the user removed it, a rollback was
   reported as partial, or two scripts overlapped. *)
ReplacedWhileDisabled ==
  wanted \ enabled # {} /\ disturbed = {} /\ changes = 0 /\ (\A t \in Requests : code[t] # 16)
    => own = "intact"

(* What a script that fails alone leaves: without the code 16 the blocks are as it found them,
   and so is the allow rule, unless creating it (13) had its effect and then failed: $created
   was not yet set, and the narrow rule stays. *)
FailureChangesNothing ==
  [][\A t \in Requests :
       step[t] = "restore" /\ step'[t] = "exit" /\ code'[t] # 16 /\ t \notin disturbed
         => /\ enabled' = was[t].enabled
            /\ \/ own' = was[t].own
               \/ code'[t] = 13 /\ was[t].own = "absent" /\ own' = "intact"]_vars
=============================================================================
