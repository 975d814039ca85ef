------------------------- MODULE PairingServerProofs -------------------------
(***************************************************************************)
(* Proofs about PairingServer, for every number of tickets, connections    *)
(* and API threads: a ticket serves once, its secret goes with its state,  *)
(* its port is closed when close() returns, and what the page is told of   *)
(* it is final.                                                            *)
(***************************************************************************)
EXTENDS PairingServer, Integers, FiniteSetTheorems, TLAPS

Created == {t \in Tickets : state[t] # "none"}

(* The manager's lock is held from Acquire to Release. *)
Holding == {"closing", "create", "render", "release"}

LockInv == \A c \in Callers : call[c].step \in Holding <=> lock = c

(* Tickets are created in order, and a ticket that is not created is blank and nobody's. *)
CreatedInv ==
  /\ \A t, u \in Tickets : u < t /\ state[t] # "none" => state[u] # "none"
  /\ \A t \in Tickets : state[t] = "none" =>
       ~listening[t] /\ ~secret[t] /\ ~timer[t] /\ ~closed[t] /\ ~complete[t]
  /\ current # None => current \in Created
  /\ \A k \in Closers : closing[k].step # "idle" => closing[k].ticket \in Created
  /\ \A p \in Phones : request[p].step # "none" => request[p].ticket \in Created

(* What closers leave to one another. *)
CloseInv ==
  /\ \A t \in Tickets : /\ complete[t] => closed[t] /\ ~listening[t]
                        /\ closed[t] => state[t] # "ready"
                        /\ secret[t] <=> state[t] = "ready"
                        /\ listening[t] => t = current
  /\ \A k \in Closers : /\ closing[k].step = "out" => complete[closing[k].ticket]
                        /\ closing[k].step = "owner" => closed[closing[k].ticket]

(* The lock's holder closes the current ticket before it creates the next one. *)
ManagerInv ==
  \A c \in Callers :
    /\ call[c].step = "create" => current = None \/ complete[current]
    /\ call[c].step = "render" => current # None
    /\ call[c].step = "closing" =>
         /\ closing[Caller(c)].step # "idle" /\ closing[Caller(c)].ticket = current
         /\ call[c].op = "allow" => call[c].ticket = current

Winning == {"writing", "sent", "lost", "done"}

(* Who has consumed a ticket is alone, and the ticket says so. *)
ServeInv ==
  /\ \A p \in Phones : request[p].step \in Winning => state[request[p].ticket] = "used"
  /\ \A p, q \in Phones : request[p].step \in Winning /\ request[q].step \in Winning =>
                            (request[p].ticket = request[q].ticket => p = q)
  /\ \A p \in Phones : request[p].step = "done" => result[request[p].ticket] \in {"sent", "write_failed"}

Inv == TypeOK /\ LockInv /\ CreatedInv /\ CloseInv /\ ManagerInv /\ ServeInv

-----------------------------------------------------------------------------
(* Changing the step of a record leaves the other records, and its other fields, alone. *)
LEMMA StepOfPair ==
  ASSUME NEW D, NEW S, NEW T, NEW f \in [D -> [step : S, ticket : T]], NEW k \in D, NEW s \in S,
         NEW g, g = [f EXCEPT ![k].step = s]
  PROVE  /\ g \in [D -> [step : S, ticket : T]]
         /\ g[k].step = s /\ g[k].ticket = f[k].ticket
         /\ \A j \in D : j # k => g[j] = f[j]
<1>1. [f[k] EXCEPT !.step = s] \in [step : S, ticket : T]
  OBVIOUS
<1> QED BY <1>1

LEMMA StepOfRequest ==
  ASSUME NEW D, NEW S, NEW T, NEW f \in [D -> [step : S, ticket : T, code : BOOLEAN]],
         NEW k \in D, NEW s \in S, NEW g, g = [f EXCEPT ![k].step = s]
  PROVE  /\ g \in [D -> [step : S, ticket : T, code : BOOLEAN]]
         /\ g[k].step = s /\ g[k].ticket = f[k].ticket
         /\ \A j \in D : j # k => g[j] = f[j]
<1>1. [f[k] EXCEPT !.step = s] \in [step : S, ticket : T, code : BOOLEAN]
  OBVIOUS
<1> QED BY <1>1

LEMMA StepOfCall ==
  ASSUME NEW D, NEW S, NEW O, NEW T, NEW f \in [D -> [step : S, op : O, ticket : T]],
         NEW k \in D, NEW s \in S, NEW g, g = [f EXCEPT ![k].step = s]
  PROVE  /\ g \in [D -> [step : S, op : O, ticket : T]]
         /\ g[k].step = s /\ g[k].op = f[k].op /\ g[k].ticket = f[k].ticket
         /\ \A j \in D : j # k => g[j] = f[j]
<1>1. [f[k] EXCEPT !.step = s] \in [step : S, op : O, ticket : T]
  OBVIOUS
<1> QED BY <1>1

LEMMA InitInv == Init => Inv
<1> SUFFICES ASSUME Init PROVE Inv
  OBVIOUS
<1> USE PairingAssumption DEF Init, NoRequest, NotClosing, NoCall
<1>1. TypeOK
  BY DEF TypeOK, Results
<1>2. LockInv /\ CreatedInv
  BY DEF LockInv, Holding, CreatedInv
<1>3. CloseInv
  BY DEF CloseInv
<1>4. \A c \in Callers : call[c].step = "idle"
  OBVIOUS
<1>5. ManagerInv
  BY <1>4 DEF ManagerInv
<1>6. ServeInv
  <2>1. \A p \in Phones : request[p].step = "none"
    OBVIOUS
  <2>2. \A p \in Phones : request[p].step \notin Winning /\ request[p].step # "done"
    BY <2>1 DEF Winning
  <2> HIDE DEF Init
  <2> QED BY <2>2 DEF ServeInv
<1> QED BY <1>1, <1>2, <1>3, <1>5, <1>6 DEF Inv

-----------------------------------------------------------------------------
(* The next ticket is the first one that is not created. *)
LEMMA NextIsFresh ==
  ASSUME CreatedInv, NextTicket \in Tickets
  PROVE  state[NextTicket] = "none" /\ \A u \in Tickets : u < NextTicket => state[u] # "none"
<1> DEFINE n == NextTicket
<1>1. MaxTickets \in Nat /\ n \in Nat /\ n >= 1 /\ n <= MaxTickets
  BY PairingAssumption DEF Tickets
<1>2. IsFiniteSet(Created) /\ Cardinality(Created) = n - 1
  <2>1. IsFiniteSet(Tickets)
    BY <1>1, FS_Interval DEF Tickets
  <2>2. IsFiniteSet(Created) /\ Cardinality(Created) \in Nat
    BY <2>1, FS_Subset, FS_CardinalityType DEF Created
  <2> QED BY <2>2 DEF NextTicket, Created
<1>3. ASSUME state[n] # "none" PROVE FALSE
  <2>1. 1..n \subseteq Created
    BY <1>1, <1>3 DEF CreatedInv, Created, Tickets
  <2>2. Cardinality(1..n) = n
    BY <1>1, FS_Interval
  <2>3. Cardinality(1..n) <= Cardinality(Created)
    BY <1>2, <2>1, FS_Subset
  <2> QED BY <1>1, <1>2, <2>2, <2>3
<1>4. ASSUME NEW u \in Tickets, u < n, state[u] = "none" PROVE FALSE
  <2>1. u \in Nat /\ u >= 1
    BY DEF Tickets
  <2>2. Created \subseteq 1..u - 1
    BY <1>1, <1>4, <2>1 DEF CreatedInv, Created, Tickets
  <2>3. IsFiniteSet(1..u - 1) /\ Cardinality(1..u - 1) = u - 1
    BY <2>1, FS_Interval
  <2>4. Cardinality(Created) <= u - 1
    BY <2>2, <2>3, FS_Subset
  <2> QED BY <1>1, <1>2, <1>4, <2>1, <2>4
<1> QED BY <1>3, <1>4

-----------------------------------------------------------------------------
(* Closers *)

LEMMA CloseKeeps == ASSUME Inv, NEW k \in Closers, Close(k) PROVE Inv'
<1> USE PairingAssumption DEF Inv
<1> DEFINE t == closing[k].ticket
<1>1. t \in Created /\ t \in Tickets
  BY DEF Close, EnterClose, ShutDown, AwaitClosed, CreatedInv, Created
<1>2. PICK s \in {"owner", "await", "out"} :
        /\ closing' = [closing EXCEPT ![k].step = s]
        /\ s = "owner" => closed'[t]
        /\ s = "out" => complete'[t]
  <2>1. CASE EnterClose(k)
    BY <1>1, <2>1 DEF EnterClose, TypeOK
  <2>2. CASE ShutDown(k)
    BY <1>1, <2>2 DEF ShutDown, TypeOK
  <2>3. CASE AwaitClosed(k)
    BY <1>1, <2>3 DEF AwaitClosed, ticketVars
  <2> QED BY <2>1, <2>2, <2>3 DEF Close
<1>3. /\ closing' \in [Closers -> [step : {"idle", "enter", "owner", "await", "out"},
                                   ticket : Tickets \cup {None}]]
      /\ closing'[k].step = s /\ closing'[k].ticket = t
      /\ \A j \in Closers : j # k => closing'[j] = closing[j]
  <2>1. closing \in [Closers -> [step : {"idle", "enter", "owner", "await", "out"},
                                ticket : Tickets \cup {None}]]
    BY DEF TypeOK
  <2> QED BY <1>2, <2>1, StepOfPair
<1>4. UNCHANGED <<late, result, request, call, lock, current>>
  BY DEF Close, EnterClose, ShutDown, AwaitClosed, ticketVars
<1>5. /\ state' \in [Tickets -> {"none", "ready", "used", "expired", "cancelled"}]
      /\ closed' \in [Tickets -> BOOLEAN] /\ complete' \in [Tickets -> BOOLEAN]
      /\ listening' \in [Tickets -> BOOLEAN] /\ secret' \in [Tickets -> BOOLEAN]
      /\ timer' \in [Tickets -> BOOLEAN]
      /\ \A u \in Tickets : u # t => /\ state'[u] = state[u] /\ closed'[u] = closed[u]
                                     /\ complete'[u] = complete[u] /\ listening'[u] = listening[u]
                                     /\ secret'[u] = secret[u] /\ timer'[u] = timer[u]
      /\ state'[t] # "none" /\ (state[t] = "used" => state'[t] = "used")
      /\ complete[t] => complete'[t]
      /\ complete'[t] => closed'[t] /\ ~listening'[t]
      /\ closed'[t] => state'[t] # "ready"
      /\ secret'[t] <=> state'[t] = "ready"
      /\ listening'[t] => listening[t]
  <2>1. CASE EnterClose(k) /\ closed[t]
    BY <1>1, <2>1 DEF EnterClose, TypeOK, CloseInv, Created
  <2>2. CASE EnterClose(k) /\ ~closed[t]
    <3>1. PICK r \in {"used", "expired", "cancelled"} :
            state' = [state EXCEPT ![t] = r] /\ (state[t] = "used" => r = "used")
      <4>1. Reason(k) \in {"expired", "used", "cancelled"}
        BY DEF Reason
      <4>2. (IF state[t] = "ready" THEN Reason(k) ELSE state[t]) \in {"used", "expired", "cancelled"}
        BY <1>1, <4>1 DEF TypeOK, Created
      <4> QED BY <2>2, <4>2 DEF EnterClose
    <3>2. /\ closed' = [closed EXCEPT ![t] = TRUE] /\ secret' = [secret EXCEPT ![t] = FALSE]
          /\ UNCHANGED <<complete, listening, timer>>
      BY <2>2 DEF EnterClose
    <3> HIDE DEF t
    <3> QED BY <1>1, <2>2, <3>1, <3>2 DEF TypeOK, CloseInv, Created
  <2>3. CASE ShutDown(k)
    BY <1>1, <2>3 DEF ShutDown, TypeOK, CloseInv, Created
  <2>4. CASE AwaitClosed(k)
    BY <1>1, <2>4 DEF AwaitClosed, ticketVars, TypeOK, CloseInv, Created
  <2> QED BY <2>1, <2>2, <2>3, <2>4 DEF Close
<1> HIDE DEF t
<1>6. TypeOK'
  BY <1>3, <1>4, <1>5 DEF TypeOK
<1>7. LockInv'
  BY <1>4 DEF LockInv
<1>8. CreatedInv'
  <2>1. \A u \in Tickets : state'[u] # "none" <=> state[u] # "none"
    BY <1>1, <1>5 DEF Created
  <2>2. \A u \in Tickets : state'[u] = "none" =>
          ~listening'[u] /\ ~secret'[u] /\ ~timer'[u] /\ ~closed'[u] /\ ~complete'[u]
    BY <1>5 DEF CreatedInv
  <2>3. \A j \in Closers : closing'[j].step # "idle" => closing'[j].ticket \in Created
    BY <1>1, <1>3 DEF CreatedInv
  <2>4. Created' = Created
    BY <2>1 DEF Created
  <2> QED BY <1>4, <2>1, <2>2, <2>3, <2>4 DEF CreatedInv
<1>9. CloseInv'
  <2>1. \A j \in Closers : j # k => /\ closing'[j].step = "out" => complete'[closing'[j].ticket]
                                    /\ closing'[j].step = "owner" => closed'[closing'[j].ticket]
    <3>1. \A u \in Tickets : (complete[u] => complete'[u]) /\ (closed[u] => closed'[u])
      BY <1>1, <1>5 DEF Close, EnterClose, ShutDown, AwaitClosed, ticketVars, TypeOK, t
    <3> QED BY <1>3, <3>1 DEF CloseInv, CreatedInv, Created
  <2>2. \A u \in Tickets : u # t => /\ complete'[u] => closed'[u] /\ ~listening'[u]
                                    /\ closed'[u] => state'[u] # "ready"
                                    /\ secret'[u] <=> state'[u] = "ready"
                                    /\ listening'[u] => u = current
    BY <1>5 DEF CloseInv
  <2>3. listening'[t] => t = current
    BY <1>1, <1>5 DEF CloseInv
  <2>4. \A j \in Closers : /\ closing'[j].step = "out" => complete'[closing'[j].ticket]
                           /\ closing'[j].step = "owner" => closed'[closing'[j].ticket]
    BY <1>2, <1>3, <2>1
  <2> QED BY <1>1, <1>4, <1>5, <2>2, <2>3, <2>4 DEF CloseInv
<1>10. ManagerInv'
  <2>1. \A c \in Callers : /\ closing'[Caller(c)].ticket = closing[Caller(c)].ticket
                           /\ closing[Caller(c)].step # "idle" => closing'[Caller(c)].step # "idle"
    <3>1. \A c \in Callers : Caller(c) \in Closers
      BY DEF Closers
    <3> QED BY <1>3, <3>1 DEF t
  <2>2. \A u \in Tickets : complete[u] => complete'[u]
    BY <1>5
  <2> QED BY <1>4, <2>1, <2>2 DEF ManagerInv, CreatedInv, Created
<1>11. ServeInv'
  <2>1. \A u \in Tickets : state[u] = "used" => state'[u] = "used"
    BY <1>5
  <2>2. \A p \in Phones : request[p].step \in Winning => request[p].ticket \in Tickets
    BY DEF CreatedInv, Created, Winning
  <2> QED BY <1>4, <2>1, <2>2 DEF ServeInv
<1> QED BY <1>6, <1>7, <1>8, <1>9, <1>10, <1>11

(* A close that begins where nobody of the manager's closes. *)
LEMMA BeginKeeps ==
  ASSUME Inv, NEW k \in Closers, \A c \in Callers : k # Caller(c), NEW t \in Created, BeginClose(k, t),
         UNCHANGED <<closed, complete, state, listening, secret, current, call, lock>>
  PROVE  /\ closing' \in [Closers -> [step : {"idle", "enter", "owner", "await", "out"},
                                      ticket : Tickets \cup {None}]]
         /\ LockInv' /\ CloseInv' /\ ManagerInv'
         /\ \A j \in Closers : closing'[j].step # "idle" => closing'[j].ticket \in Created
<1>1. closing' \in [Closers -> [step : {"idle", "enter", "owner", "await", "out"},
                                ticket : Tickets \cup {None}]]
  BY DEF Inv, TypeOK, BeginClose, Created
<1>2. LockInv' /\ CloseInv'
  BY DEF Inv, TypeOK, BeginClose, LockInv, CloseInv
<1>3. \A c \in Callers : closing'[Caller(c)] = closing[Caller(c)]
  BY DEF Inv, TypeOK, BeginClose, Closers
<1>4. ManagerInv'
  BY <1>3 DEF Inv, ManagerInv
<1>5. \A j \in Closers : closing'[j].step # "idle" => closing'[j].ticket \in Created
  BY DEF Inv, TypeOK, BeginClose, CreatedInv
<1> QED BY <1>1, <1>2, <1>4, <1>5

LEMMA TimersKeep == ASSUME Inv, NEW t \in Tickets, DeadlinePasses(t) \/ TimerFires(t) PROVE Inv'
<1> USE PairingAssumption DEF Inv
<1>1. CASE DeadlinePasses(t)
  <2>1. TypeOK'
    BY <1>1 DEF DeadlinePasses, TypeOK
  <2> QED BY <1>1, <2>1 DEF DeadlinePasses, LockInv, CreatedInv, Created, CloseInv, ManagerInv, ServeInv
<1>2. CASE TimerFires(t)
  <2>1. t \in Created /\ Timer(t) \in Closers /\ \A c \in Callers : Timer(t) # Caller(c)
    BY <1>2 DEF TimerFires, CreatedInv, Created, Closers, Timer, Caller
  <2>2. /\ closing' \in [Closers -> [step : {"idle", "enter", "owner", "await", "out"},
                                     ticket : Tickets \cup {None}]]
        /\ LockInv' /\ CloseInv' /\ ManagerInv'
        /\ \A j \in Closers : closing'[j].step # "idle" => closing'[j].ticket \in Created
    BY <1>2, <2>1, BeginKeeps DEF TimerFires
  <2>3. TypeOK'
    BY <1>2, <2>2 DEF TimerFires, TypeOK
  <2>4. CreatedInv'
    BY <1>2, <2>2 DEF TimerFires, TypeOK, CreatedInv, Created
  <2>5. ServeInv'
    BY <1>2 DEF TimerFires, ServeInv
  <2> QED BY <2>2, <2>3, <2>4, <2>5
<1> QED BY <1>1, <1>2

-----------------------------------------------------------------------------
(* Connections *)

LEMMA ServeKeeps == ASSUME Inv, NEW p \in Phones, Serve(p) PROVE Inv'
<1> USE PairingAssumption DEF Inv
<1>1. CASE Connect(p)
  <2>1. TypeOK'
    BY <1>1 DEF Connect, ticketVars, TypeOK
  <2>2. CreatedInv'
    BY <1>1 DEF Connect, ticketVars, TypeOK, CreatedInv, Created
  <2>3. ServeInv'
    BY <1>1 DEF Connect, ticketVars, TypeOK, ServeInv, Winning
  <2> QED BY <1>1, <2>1, <2>2, <2>3 DEF Connect, ticketVars, LockInv, CloseInv, ManagerInv
<1>2. CASE RefuseRequest(p)
  <2>1. request[p].ticket \in Created
    BY <1>2 DEF RefuseRequest, CreatedInv
  <2>2. TypeOK'
    BY <1>2, <2>1 DEF RefuseRequest, Observed, Results, TypeOK, Created
  <2>3. CreatedInv'
    BY <1>2 DEF RefuseRequest, TypeOK, CreatedInv, Created
  <2>4. ServeInv'
    <3>1. request' = [request EXCEPT ![p].step = "refused"] /\ state' = state
      BY <1>2 DEF RefuseRequest
    <3>2. \A q \in Phones : request'[q].step \in Winning => q # p /\ request'[q] = request[q]
      BY <3>1 DEF TypeOK, Winning
    <3>3. \A u \in Tickets : state[u] = "used" => result'[u] = result[u]
      BY <1>2, <2>1 DEF RefuseRequest, Observed, TypeOK, Created
    <3>4. \A q \in Phones : request'[q].step = "done" =>
                             result'[request'[q].ticket] \in {"sent", "write_failed"}
      BY <3>2, <3>3 DEF ServeInv, Winning, CreatedInv, Created
    <3> QED BY <3>1, <3>2, <3>4 DEF ServeInv
  <2> QED BY <1>2, <2>2, <2>3, <2>4 DEF RefuseRequest, LockInv, CloseInv, ManagerInv
<1>3. CASE Consume(p)
  <2> DEFINE t == request[p].ticket
             open == request[p].code /\ state[t] = "ready" /\ ~late[t]
  <2>1. t \in Created /\ t \in Tickets
    BY <1>3 DEF Consume, CreatedInv, Created
  <2>2. PICK s \in {"refused", "writing"} :
          request' = [request EXCEPT ![p].step = s] /\ (s = "writing" <=> open)
    BY <1>3 DEF Consume
  <2>3. /\ request' \in [Phones -> [step : {"none", "reading", "refused", "writing", "sent", "lost", "done"},
                                    ticket : Tickets \cup {None}, code : BOOLEAN]]
        /\ request'[p].step = s /\ request'[p].ticket = t
        /\ \A q \in Phones : q # p => request'[q] = request[q]
    <3>1. request \in [Phones -> [step : {"none", "reading", "refused", "writing", "sent", "lost", "done"},
                                 ticket : Tickets \cup {None}, code : BOOLEAN]]
      BY DEF TypeOK
    <3> QED BY <2>2, <3>1, StepOfRequest
  <2>4. UNCHANGED <<closed, complete, listening, late, timer, closing, call, lock, current>>
    BY <1>3 DEF Consume
  <2>5. /\ open => /\ state' = [state EXCEPT ![t] = "used"]
                   /\ secret' = [secret EXCEPT ![t] = FALSE] /\ result' = result
        /\ ~open => /\ UNCHANGED <<state, secret>>
                    /\ \E r \in Results : result' = [result EXCEPT ![t] = IF state[t] = "ready" THEN r ELSE @]
    <3>1. state[t] = "ready" => result[t] \in Results
      BY <2>1 DEF TypeOK
    <3> QED BY <1>3, <2>1, <3>1 DEF Consume, Results, TypeOK
  <2> HIDE DEF t, open
  <2>6. /\ state' \in [Tickets -> {"none", "ready", "used", "expired", "cancelled"}]
        /\ secret' \in [Tickets -> BOOLEAN] /\ result' \in [Tickets -> Results]
        /\ \A u \in Tickets : u # t => state'[u] = state[u] /\ secret'[u] = secret[u] /\ result'[u] = result[u]
        /\ open => state'[t] = "used" /\ ~secret'[t]
        /\ ~open => state' = state /\ secret' = secret
        /\ open => state[t] = "ready"
        /\ state[t] # "ready" => result'[t] = result[t]
    <3>1. CASE open
      BY <2>1, <2>5, <3>1 DEF TypeOK, open
    <3>2. CASE ~open
      <4>1. PICK r \in Results : result' = [result EXCEPT ![t] = IF state[t] = "ready" THEN r ELSE @]
        BY <2>5, <3>2
      <4>2. result' \in [Tickets -> Results]
            /\ \A u \in Tickets : u # t \/ state[t] # "ready" => result'[u] = result[u]
        BY <2>1, <4>1 DEF TypeOK
      <4> QED BY <2>1, <2>5, <3>2, <4>2 DEF TypeOK
    <3> QED BY <3>1, <3>2
  <2>7. TypeOK'
    BY <2>3, <2>4, <2>6 DEF TypeOK
  <2>8. CreatedInv'
    <3>1. Created' = Created
      BY <2>1, <2>6 DEF Created
    <3>2. \A u \in Tickets : state'[u] = "none" <=> state[u] = "none"
      BY <3>1 DEF Created
    <3>3. \A u \in Tickets : state'[u] = "none" => ~secret'[u]
      BY <2>1, <2>6, <3>2 DEF CreatedInv
    <3>4. \A q \in Phones : request'[q].step # "none" => request'[q].ticket \in Created
      BY <2>1, <2>3 DEF CreatedInv
    <3> QED BY <2>4, <3>1, <3>2, <3>3, <3>4 DEF CreatedInv
  <2>9. CloseInv'
    BY <2>1, <2>4, <2>6 DEF CloseInv
  <2>10. ServeInv'
    <3>1. \A q \in Phones : q # p /\ request'[q].step \in Winning =>
            request[q].step \in Winning /\ request[q].ticket \in Tickets /\ state[request[q].ticket] = "used"
      BY <2>3 DEF ServeInv, CreatedInv, Created, Winning
    <3>2. request'[p].step \in Winning => open
      BY <2>2, <2>3 DEF Winning
    <3>3. \A q \in Phones : request'[q].step \in Winning => state'[request'[q].ticket] = "used"
      BY <2>3, <2>6, <3>1, <3>2
    <3>4. \A q, r \in Phones : request'[q].step \in Winning /\ request'[r].step \in Winning =>
                               (request'[q].ticket = request'[r].ticket => q = r)
      BY <2>3, <2>6, <3>1, <3>2 DEF ServeInv
    <3>5. \A q \in Phones : request'[q].step = "done" =>
                             result'[request'[q].ticket] \in {"sent", "write_failed"}
      BY <2>2, <2>3, <2>6, <3>1 DEF ServeInv, Winning
    <3> QED BY <3>3, <3>4, <3>5 DEF ServeInv
  <2> QED BY <2>4, <2>7, <2>8, <2>9, <2>10 DEF LockInv, ManagerInv
<1>4. CASE WriteResponse(p)
  <2>1. PICK s \in {"sent", "lost"} : request' = [request EXCEPT ![p].step = s]
    BY <1>4 DEF WriteResponse
  <2>2. /\ request' \in [Phones -> [step : {"none", "reading", "refused", "writing", "sent", "lost", "done"},
                                    ticket : Tickets \cup {None}, code : BOOLEAN]]
        /\ request'[p].step = s /\ request'[p].ticket = request[p].ticket
        /\ \A q \in Phones : q # p => request'[q] = request[q]
    <3>1. request \in [Phones -> [step : {"none", "reading", "refused", "writing", "sent", "lost", "done"},
                                 ticket : Tickets \cup {None}, code : BOOLEAN]]
      BY DEF TypeOK
    <3> QED BY <2>1, <3>1, StepOfRequest
  <2>3. UNCHANGED <<ticketVars, closing, call, lock, current>> /\ request[p].step = "writing"
    BY <1>4 DEF WriteResponse
  <2>4. TypeOK'
    BY <2>2, <2>3 DEF ticketVars, TypeOK
  <2>5. CreatedInv'
    BY <2>2, <2>3 DEF ticketVars, CreatedInv, Created
  <2>6. ServeInv'
    BY <2>2, <2>3 DEF ticketVars, ServeInv, Winning
  <2> QED BY <2>3, <2>4, <2>5, <2>6 DEF ticketVars, LockInv, CloseInv, ManagerInv
<1>5. CASE Finish(p)
  <2>1. /\ request[p].ticket \in Created /\ Reaper(p) \in Closers
        /\ \A c \in Callers : Reaper(p) # Caller(c)
    BY <1>5 DEF Finish, CreatedInv, Closers, Reaper, Caller
  <2>2. /\ closing' \in [Closers -> [step : {"idle", "enter", "owner", "await", "out"},
                                     ticket : Tickets \cup {None}]]
        /\ LockInv' /\ CloseInv' /\ ManagerInv'
        /\ \A j \in Closers : closing'[j].step # "idle" => closing'[j].ticket \in Created
    <3>1. BeginClose(Reaper(p), request[p].ticket)
          /\ UNCHANGED <<closed, complete, state, listening, secret, current, call, lock>>
      BY <1>5 DEF Finish
    <3> QED BY <2>1, <3>1, BeginKeeps
  <2>3. TypeOK'
    <3>1. result' \in [Tickets -> Results]
      BY <1>5, <2>1 DEF Finish, Observed, Results, TypeOK, Created
    <3> QED BY <1>5, <2>2, <3>1 DEF Finish, TypeOK
  <2>4. CreatedInv'
    BY <1>5, <2>2 DEF Finish, TypeOK, CreatedInv, Created
  <2>5. ServeInv'
    BY <1>5, <2>1 DEF Finish, Observed, TypeOK, ServeInv, Winning, Created
  <2> QED BY <2>2, <2>3, <2>4, <2>5
<1> QED BY <1>1, <1>2, <1>3, <1>4, <1>5 DEF Serve

-----------------------------------------------------------------------------
(* API threads *)

(* A step of c that leaves the tickets and their closers alone. *)
LEMMA CallKeeps ==
  ASSUME Inv, NEW c \in Callers, UNCHANGED <<ticketVars, request, closing, current>>,
         NEW new \in [step : {"idle", "lock", "closing", "create", "render", "release"},
                      op : {"none", "start", "cancel", "allow"}, ticket : Tickets \cup {None}],
         call' = [call EXCEPT ![c] = new], lock' \in Callers \cup {None}, LockInv',
         new.step \in {"idle", "lock", "release"}
  PROVE  Inv'
<1> USE DEF Inv, ticketVars
<1>1. TypeOK'
  BY DEF TypeOK
<1>2. CreatedInv' /\ CloseInv' /\ ServeInv'
  BY DEF CreatedInv, Created, CloseInv, ServeInv
<1>3. \A d \in Callers : d # c => call'[d] = call[d]
  BY DEF TypeOK
<1>4. call'[c] = new
  BY DEF TypeOK
<1>5. ManagerInv'
  BY <1>3, <1>4 DEF ManagerInv
<1> QED BY <1>1, <1>2, <1>5

LEMMA CallersKeep ==
  ASSUME Inv, NEW c \in Callers,
         \/ Manage(c) \/ Acquire(c) \/ \E op \in {"start", "cancel"} : Ask(c, op)
         \/ \E t \in Tickets : AskAllow(c, t)
  PROVE  Inv'
<1> USE PairingAssumption DEF Inv
<1> Caller(c) \in Closers /\ \A d \in Callers : Caller(c) = Caller(d) => c = d
  BY DEF Caller, Closers
<1>1. ASSUME NEW op \in {"start", "cancel"}, Ask(c, op) PROVE Inv'
  <2>1. LockInv'
    BY <1>1 DEF Ask, TypeOK, LockInv, Holding
  <2> QED BY <1>1, <2>1, CallKeeps DEF Ask, TypeOK
<1>2. ASSUME NEW t \in Tickets, AskAllow(c, t) PROVE Inv'
  <2>1. LockInv'
    BY <1>2 DEF AskAllow, TypeOK, LockInv, Holding
  <2> QED BY <1>2, <2>1, CallKeeps DEF AskAllow, TypeOK
<1>3. CASE Rendered(c) \/ CreateFails(c)
  <2>1. LockInv'
    BY <1>3 DEF Rendered, CreateFails, SetCall, TypeOK, LockInv, Holding
  <2>2. call' = [call EXCEPT ![c] = [call[c] EXCEPT !.step = "release"]]
    BY <1>3 DEF Rendered, CreateFails, SetCall, TypeOK
  <2> QED BY <1>3, <2>1, <2>2, CallKeeps DEF Rendered, CreateFails, TypeOK
<1>4. CASE Release(c)
  <2>1. LockInv'
    BY <1>4 DEF Release, NoCall, TypeOK, LockInv, Holding
  <2> QED BY <1>4, <2>1, CallKeeps DEF Release, NoCall, TypeOK
<1>5. CASE Acquire(c)
  <2>1. TypeOK'
    BY <1>5 DEF Acquire, BeginClose, SetCall, ticketVars, TypeOK
  <2>2. LockInv'
    BY <1>5 DEF Acquire, SetCall, TypeOK, LockInv, Holding
  <2>3. CreatedInv'
    BY <1>5 DEF Acquire, BeginClose, ticketVars, TypeOK, CreatedInv, Created
  <2>4. CloseInv'
    BY <1>5 DEF Acquire, BeginClose, ticketVars, TypeOK, CloseInv
  <2>5. ManagerInv'
    <3>1. \A d \in Callers \ {c} : call'[d].step \notin {"create", "closing", "render"}
      BY <1>5 DEF Acquire, SetCall, TypeOK, LockInv, Holding
    <3>2. CASE current # None /\ MayClose(c)
      <4>1. closing'[Caller(c)] = [step |-> "enter", ticket |-> current]
        BY <1>5, <3>2 DEF Acquire, BeginClose, TypeOK
      <4>2. call'[c] = [call[c] EXCEPT !.step = "closing"]
        BY <1>5, <3>2 DEF Acquire, SetCall, TypeOK
      <4>3. current' = current
        BY <1>5 DEF Acquire
      <4> QED BY <3>1, <3>2, <4>1, <4>2, <4>3 DEF ManagerInv, MayClose, TypeOK
    <3>3. CASE ~(current # None /\ MayClose(c))
      BY <1>5, <3>1, <3>3 DEF Acquire, SetCall, MayClose, TypeOK, ManagerInv
    <3> QED BY <3>2, <3>3
  <2>6. ServeInv'
    BY <1>5 DEF Acquire, ticketVars, ServeInv
  <2> QED BY <2>1, <2>2, <2>3, <2>4, <2>5, <2>6
<1>6. CASE Closed(c)
  <2>1. TypeOK'
    <3>1. call' \in [Callers -> [step : {"idle", "lock", "closing", "create", "render", "release"},
                                 op : {"none", "start", "cancel", "allow"}, ticket : Tickets \cup {None}]]
      <4>1. PICK s \in {"create", "release"} : call' = [call EXCEPT ![c].step = s]
        BY <1>6 DEF Closed, SetCall
      <4>2. call \in [Callers -> [step : {"idle", "lock", "closing", "create", "render", "release"},
                                  op : {"none", "start", "cancel", "allow"}, ticket : Tickets \cup {None}]]
        BY DEF TypeOK
      <4> QED BY <4>1, <4>2, StepOfCall
    <3> QED BY <1>6, <3>1 DEF Closed, NotClosing, ticketVars, TypeOK
  <2>2. LockInv'
    BY <1>6 DEF Closed, SetCall, TypeOK, LockInv, Holding
  <2>3. CreatedInv'
    BY <1>6 DEF Closed, NotClosing, ticketVars, TypeOK, CreatedInv, Created
  <2>4. CloseInv'
    BY <1>6 DEF Closed, NotClosing, ticketVars, TypeOK, CloseInv
  <2>5. complete[current] /\ current' = current /\ complete' = complete
    BY <1>6 DEF Closed, ticketVars, ManagerInv, CloseInv
  <2>6. \A d \in Callers \ {c} : call'[d].step \notin {"create", "closing", "render"}
    BY <1>6 DEF Closed, SetCall, TypeOK, LockInv, Holding
  <2>7. call'[c].step \notin {"closing", "render"}
    BY <1>6 DEF Closed, SetCall, TypeOK
  <2>8. ManagerInv'
    BY <2>5, <2>6, <2>7 DEF ManagerInv
  <2>9. ServeInv'
    BY <1>6 DEF Closed, ticketVars, ServeInv
  <2> QED BY <2>1, <2>2, <2>3, <2>4, <2>8, <2>9
<1>7. CASE Create(c)
  <2> DEFINE n == NextTicket
  <2>1. n \in Tickets /\ state[n] = "none" /\ \A u \in Tickets : u < n => state[u] # "none"
    BY <1>7, NextIsFresh DEF Create
  <2>2. /\ state' = [state EXCEPT ![n] = "ready"] /\ listening' = [listening EXCEPT ![n] = TRUE]
        /\ secret' = [secret EXCEPT ![n] = TRUE] /\ timer' = [timer EXCEPT ![n] = TRUE]
        /\ current' = n /\ UNCHANGED <<closed, complete, late, result, request, closing, lock>>
        /\ call[c].step = "create" /\ call' = [call EXCEPT ![c].step = "render"]
    BY <1>7 DEF Create, SetCall
  <2> HIDE DEF n
  <2>3. TypeOK'
    BY <2>1, <2>2 DEF TypeOK
  <2>4. LockInv'
    BY <2>2 DEF TypeOK, LockInv, Holding
  <2>5. CreatedInv'
    BY <2>1, <2>2 DEF TypeOK, CreatedInv, Created, Tickets
  <2>6. \A t \in Tickets : ~listening[t]
    <3>1. call[c].step = "create"
      BY <2>2
    <3>2. current = None \/ complete[current]
      BY <3>1 DEF ManagerInv
    <3> QED BY <3>2 DEF CloseInv, Tickets
  <2>7. CloseInv'
    BY <2>1, <2>2, <2>6 DEF TypeOK, CloseInv, CreatedInv
  <2>8. \A d \in Callers : call'[d].step \notin {"create", "closing"}
    BY <2>2 DEF TypeOK, LockInv, Holding
  <2>9. ManagerInv'
    BY <2>1, <2>2, <2>8 DEF ManagerInv, Tickets
  <2>10. ServeInv'
    BY <2>1, <2>2 DEF TypeOK, ServeInv, CreatedInv, Created, Winning
  <2> QED BY <2>3, <2>4, <2>5, <2>7, <2>9, <2>10
<1>8. CASE RenderFails(c)
  <2>1. current \in Created
    BY <1>8 DEF RenderFails, ManagerInv, CreatedInv
  <2>2. /\ closing' = [closing EXCEPT ![Caller(c)] = [step |-> "enter", ticket |-> current]]
        /\ call' = [call EXCEPT ![c] = [step |-> "closing", op |-> "cancel", ticket |-> None]]
        /\ UNCHANGED <<ticketVars, request, lock, current>> /\ call[c].step = "render"
    BY <1>8 DEF RenderFails, BeginClose
  <2>3. TypeOK'
    BY <2>1, <2>2 DEF ticketVars, TypeOK, Created
  <2>4. LockInv'
    BY <2>2 DEF TypeOK, LockInv, Holding
  <2>5. CreatedInv'
    BY <2>1, <2>2 DEF ticketVars, TypeOK, CreatedInv, Created
  <2>6. CloseInv'
    BY <2>1, <2>2 DEF ticketVars, TypeOK, CloseInv
  <2>7. \A d \in Callers \ {c} : call'[d].step \notin {"create", "closing", "render"}
    BY <2>2 DEF TypeOK, LockInv, Holding
  <2>8. closing'[Caller(c)] = [step |-> "enter", ticket |-> current]
        /\ call'[c] = [step |-> "closing", op |-> "cancel", ticket |-> None]
    BY <2>2 DEF TypeOK
  <2>9. ManagerInv'
    BY <2>2, <2>7, <2>8 DEF ManagerInv
  <2>10. ServeInv'
    BY <2>2 DEF ticketVars, ServeInv
  <2> QED BY <2>3, <2>4, <2>5, <2>6, <2>9, <2>10
<1> QED BY <1>1, <1>2, <1>3, <1>4, <1>5, <1>6, <1>7, <1>8 DEF Manage

-----------------------------------------------------------------------------
LEMMA StepKeeps == Inv /\ [Next]_vars => Inv'
<1> SUFFICES ASSUME Inv, [Next]_vars PROVE Inv'
  OBVIOUS
<1>1. CASE UNCHANGED vars
  BY <1>1 DEF vars, ticketVars, Inv, TypeOK, LockInv, CreatedInv, Created, CloseInv, ManagerInv, ServeInv
<1>2. CASE Next
  BY <1>2, CloseKeeps, TimersKeep, ServeKeeps, CallersKeep DEF Next
<1> QED BY <1>1, <1>2

LEMMA InvHolds == Spec => []Inv
BY InitInv, StepKeeps, PTL DEF Spec

LEMMA AtMostOneWinner ==
  ASSUME ServeInv, NEW t \in Tickets
  PROVE  Cardinality(Winners(t)) <= 1 /\ (Winners(t) # {} => state[t] = "used")
<1>1. \A p, q \in Winners(t) : p = q
  BY DEF ServeInv, Winners, Winning
<1>2. \A p \in Winners(t) : state[t] = "used"
  BY DEF ServeInv, Winners, Winning
<1>3. CASE Winners(t) = {}
  BY <1>2, <1>3, FS_EmptySet
<1>4. CASE Winners(t) # {}
  <2>1. PICK p : p \in Winners(t)
    BY <1>4
  <2>2. Winners(t) = {p}
    BY <1>1, <2>1
  <2> HIDE DEF Winners
  <2>3. Cardinality(Winners(t)) = 1
    BY <2>2, FS_Singleton
  <2> QED BY <1>2, <2>1, <2>3
<1> QED BY <1>3, <1>4

(* Allowing the firewall from an old page closes the ticket of that page or none
   (PairingManager.close compares the deadline it is given under the manager's lock). *)
THEOREM AllowIsHarmless == Spec => []AllowClosesItsOwnTicket
<1>1. Inv => AllowClosesItsOwnTicket
  BY DEF Inv, ManagerInv, AllowClosesItsOwnTicket
<1> QED BY <1>1, InvHolds, PTL

(* Whatever the number of tickets, phones and API threads: every variable keeps its type,
   the configuration leaves at most once per QR code, the secret is held exactly while
   the ticket is ready, whoever returns from close() finds the port closed, and an old page
   closes no other ticket (PairingSession.close, do_POST, PairingManager.close). *)
THEOREM TicketInvariantHolds == Spec => []TicketInvariant
<1>1. ASSUME Inv PROVE TicketInvariant
  <2>1. OneShot
    BY <1>1, AtMostOneWinner DEF Inv, OneShot
  <2>2. ClosedOnReturn
    BY <1>1 DEF Inv, ClosedOnReturn, CloseInv, CreatedInv, Created
  <2>3. AllowClosesItsOwnTicket
    BY <1>1 DEF Inv, ManagerInv, AllowClosesItsOwnTicket
  <2> QED BY <1>1, <2>1, <2>2, <2>3 DEF Inv, TicketInvariant, SecretOnlyWhileReady, CloseInv
<1> QED BY <1>1, InvHolds, PTL

(* A connection that delivered, or lost, the configuration is never overwritten by what
   other connections report (the observe callback of the manager). *)
THEOREM OutcomeReported == Spec => []OutcomeIsReported
<1>1. Inv => OutcomeIsReported
  BY DEF Inv, ServeInv, OutcomeIsReported
<1> QED BY <1>1, InvHolds, PTL

(* A ticket that was used, expired or cancelled stays so: no timer, cancellation or later
   request rewrites how it ended. *)
THEOREM OutcomeStays == Spec => OutcomeIsFinal
<1>1. ASSUME Inv, Next, NEW t \in Tickets, state[t] \in {"used", "expired", "cancelled"}
      PROVE  state'[t] = state[t]
  <2>1. ASSUME NEW k \in Closers, Close(k) PROVE state'[t] = state[t]
    BY <1>1, <2>1 DEF Close, EnterClose, ShutDown, AwaitClosed, ticketVars, Inv, TypeOK, CreatedInv, Created
  <2>2. ASSUME NEW u \in Tickets, DeadlinePasses(u) \/ TimerFires(u) PROVE state'[t] = state[t]
    BY <2>2 DEF DeadlinePasses, TimerFires
  <2>3. ASSUME NEW p \in Phones, Serve(p) PROVE state'[t] = state[t]
    BY <1>1, <2>3 DEF Serve, Connect, RefuseRequest, Consume, WriteResponse, Finish, ticketVars,
                      Inv, TypeOK, CreatedInv, Created
  <2>4. ASSUME NEW c \in Callers, Create(c) PROVE state'[t] = state[t]
    <3>1. NextTicket \in Tickets /\ state[NextTicket] = "none"
      BY <1>1, <2>4, NextIsFresh DEF Create, Inv
    <3>2. state' = [state EXCEPT ![NextTicket] = "ready"]
      BY <2>4 DEF Create
    <3> HIDE DEF NextTicket
    <3> QED BY <1>1, <3>1, <3>2 DEF Inv, TypeOK
  <2>5. ASSUME NEW c \in Callers, Manage(c), ~Create(c) PROVE state'[t] = state[t]
    BY <2>5 DEF Manage, Closed, CreateFails, Rendered, RenderFails, Release, ticketVars
  <2>6. ASSUME NEW c \in Callers, \/ Acquire(c) \/ \E op \in {"start", "cancel"} : Ask(c, op)
                                  \/ \E u \in Tickets : AskAllow(c, u)
        PROVE  state'[t] = state[t]
    BY <2>6 DEF Acquire, Ask, AskAllow, ticketVars
  <2> QED BY <1>1, <2>1, <2>2, <2>3, <2>4, <2>5, <2>6 DEF Next
<1>2. Inv /\ [Next]_vars =>
        [\A t \in Tickets : state[t] \in {"used", "expired", "cancelled"} => state'[t] = state[t]]_vars
  BY <1>1
<1> QED BY <1>2, InvHolds, PTL DEF Spec, OutcomeIsFinal
=============================================================================
