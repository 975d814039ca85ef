------------------------- MODULE NotificationLedger -------------------------
(***************************************************************************)
(* What following a source promises, without files, dates or cycles: each  *)
(* entry is new, pending or known.  Only a pending entry rings, and it     *)
(* stays pending until it is settled; a known entry is silent until it is  *)
(* forgotten, and a source may be primed, which starts a new ledger.  The  *)
(* desktop (PollFeed) and Android (AndroidPoll) keep the same ledger; the  *)
(* first forgets in a step of its own, the second with each save.          *)
(***************************************************************************)
CONSTANTS Ids,    \* identifiers of the entries
          Silent  \* no toast on screen

VARIABLES status, \* the ledger
          bell    \* the entry whose toast is shown and not settled yet

ledger == <<status, bell>>

Init == /\ status \in [Ids -> {"new", "known"}]
        /\ bell = Silent

Are(s) == {i \in Ids : status[i] = s}

(* A first look at a source, or at another one: nothing rings. *)
Prime(S) == /\ bell = Silent
            /\ status' = [i \in Ids |-> IF i \in S THEN "known" ELSE "new"]
            /\ bell' = Silent

(* New entries are noticed: some will ring, the older ones never will.  Of those that
   were known some are forgotten. *)
Notice(P, K, F) == /\ bell = Silent /\ P \cap K = {}
                   /\ status' = [i \in Ids |-> IF i \in P THEN "pending"
                                               ELSE IF i \in K THEN "known"
                                               ELSE IF i \in F THEN "new" ELSE status[i]]
                   /\ bell' = Silent

Ring(i) == /\ bell = Silent /\ status[i] = "pending"
           /\ bell' = i
           /\ status' = status

(* A toast was shown, or the filter refused the entry.  It is remembered, whatever is
   forgotten. *)
Settle(i, F) == /\ bell \in {Silent, i} /\ status[i] = "pending"
                /\ status' = [j \in Ids |-> IF j = i THEN "known"
                                            ELSE IF j \in F THEN "new" ELSE status[j]]
                /\ bell' = Silent

(* The follower dies under a toast: the entry stays pending. *)
Interrupt == /\ bell # Silent
             /\ bell' = Silent
             /\ status' = status

Forget(S) == /\ bell = Silent
             /\ status' = [i \in Ids |-> IF i \in S THEN "new" ELSE status[i]]
             /\ bell' = Silent

Next == \/ \E S \in SUBSET Ids : Prime(S)
        \/ \E P, K \in SUBSET Are("new"), F \in SUBSET Are("known") : Notice(P, K, F)
        \/ \E i \in Ids : Ring(i)
        \/ \E i \in Ids, F \in SUBSET Are("known") : Settle(i, F)
        \/ Interrupt
        \/ \E S \in SUBSET Are("known") : Forget(S)

Spec == Init /\ [][Next]_ledger
=============================================================================
