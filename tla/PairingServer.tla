---------------------------- MODULE PairingServer ----------------------------
(***************************************************************************)
(* The desktop side of LAN pairing, src/lan_pairing.py: one-shot tickets   *)
(* (PairingSession) under a manager (PairingManager), with the API routes  *)
(* that start, cancel and close them.                                      *)
(*                                                                         *)
(* Threads: one handler per connection, one timer per ticket, one thread   *)
(* that closes a consumed ticket (its reaper), and one thread per API      *)
(* request.  A step is what a thread does under one lock, or between two   *)
(* calls that may block.                                                   *)
(***************************************************************************)
EXTENDS Naturals, FiniteSets

CONSTANTS MaxTickets,  \* bound: number of tickets created
          Phones,      \* bound: the connections made to the listeners
          Callers,     \* threads that serve API requests
          None         \* no ticket, no thread

ASSUME PairingAssumption ==
  /\ MaxTickets \in Nat
  /\ None \notin 1..MaxTickets /\ None \notin Callers

Tickets == 1..MaxTickets

(* The threads that may call close(): a ticket's timer, the reaper started by the
   handler that consumed it, an API request. *)
Timer(t) == <<"timer", t>>
Reaper(p) == <<"reaper", p>>
Caller(c) == <<"caller", c>>
Closers == {Timer(t) : t \in Tickets} \cup {Reaper(p) : p \in Phones} \cup {Caller(c) : c \in Callers}

Results == {"waiting", "rejected", "bad_code", "expired", "sent", "write_failed"}

VARIABLES
  state,      \* of each ticket: "none" before its creation, then as in the code
  closed,     \* _closed
  complete,   \* _close_complete is set
  listening,  \* its port accepts connections
  secret,     \* code and response are still held
  late,       \* its deadline has passed
  timer,      \* its timer is armed
  result,     \* last_result
  request,    \* of each connection: [step, ticket, code]
  closing,    \* of each closer: [step, ticket]
  call,       \* of each API thread: [step, op, ticket]
  lock,       \* the API thread that holds the manager's lock
  current     \* the manager's session

ticketVars == <<state, closed, complete, listening, secret, late, timer, result>>
vars == <<ticketVars, request, closing, call, lock, current>>

NoRequest == [step |-> "none", ticket |-> None, code |-> FALSE]
NotClosing == [step |-> "idle", ticket |-> None]
NoCall == [step |-> "idle", op |-> "none", ticket |-> None]

Init ==
  /\ state = [t \in Tickets |-> "none"]
  /\ closed = [t \in Tickets |-> FALSE]
  /\ complete = [t \in Tickets |-> FALSE]
  /\ listening = [t \in Tickets |-> FALSE]
  /\ secret = [t \in Tickets |-> FALSE]
  /\ late = [t \in Tickets |-> FALSE]
  /\ timer = [t \in Tickets |-> FALSE]
  /\ result = [t \in Tickets |-> "waiting"]
  /\ request = [p \in Phones |-> NoRequest]
  /\ closing = [k \in Closers |-> NotClosing]
  /\ call = [c \in Callers |-> NoCall]
  /\ lock = None
  /\ current = None

-----------------------------------------------------------------------------
(* PairingSession.close *)

BeginClose(k, t) == closing' = [closing EXCEPT ![k] = [step |-> "enter", ticket |-> t]]

Reason(k) == IF k[1] = "timer" THEN "expired" ELSE IF k[1] = "reaper" THEN "used" ELSE "cancelled"

(* Slip: the closer's reason replaces the state of a consumed ticket. *)
CloseOverwrites(k) ==
  LET t == closing[k].ticket
  IN /\ closing[k].step = "enter"
     /\ closed' = [closed EXCEPT ![t] = TRUE]
     /\ state' = [state EXCEPT ![t] = IF closed[t] THEN @ ELSE Reason(k)]
     /\ secret' = [secret EXCEPT ![t] = FALSE]
     /\ closing' = [closing EXCEPT ![k].step = IF closed[t] THEN "await" ELSE "owner"]
     /\ UNCHANGED <<complete, listening, late, timer, result, request, call, lock, current>>

(* The first closer becomes the owner of the shutdown; a ticket that was not
   consumed takes the closer's reason. *)
EnterClose(k) ==
  LET t == closing[k].ticket
  IN /\ closing[k].step = "enter"
     /\ \/ /\ ~closed[t]
           /\ closed' = [closed EXCEPT ![t] = TRUE]
           /\ state' = [state EXCEPT ![t] = IF @ = "ready" THEN Reason(k) ELSE @]
           /\ secret' = [secret EXCEPT ![t] = FALSE]
           /\ closing' = [closing EXCEPT ![k].step = "owner"]
        \/ /\ closed[t]
           /\ closing' = [closing EXCEPT ![k].step = "await"]
           /\ UNCHANGED <<closed, state, secret>>
     /\ UNCHANGED <<complete, listening, late, timer, result, request, call, lock, current>>

(* Slip: the owner never says that it is done. *)
ShutDownSilently(k) ==
  LET t == closing[k].ticket
  IN /\ closing[k].step = "owner"
     /\ timer' = [timer EXCEPT ![t] = FALSE]
     /\ listening' = [listening EXCEPT ![t] = FALSE]
     /\ closing' = [closing EXCEPT ![k].step = "out"]
     /\ UNCHANGED <<state, closed, complete, secret, late, result, request, call, lock, current>>

(* The owner cancels the timer, stops the listener and closes its port. *)
ShutDown(k) ==
  LET t == closing[k].ticket
  IN /\ closing[k].step = "owner"
     /\ timer' = [timer EXCEPT ![t] = FALSE]
     /\ listening' = [listening EXCEPT ![t] = FALSE]
     /\ complete' = [complete EXCEPT ![t] = TRUE]
     /\ closing' = [closing EXCEPT ![k].step = "out"]
     /\ UNCHANGED <<state, closed, secret, late, result, request, call, lock, current>>

(* The others wait for the event, outside the lock. *)
AwaitClosed(k) ==
  /\ closing[k].step = "await"
  /\ complete[closing[k].ticket]
  /\ closing' = [closing EXCEPT ![k].step = "out"]
  /\ UNCHANGED <<ticketVars, request, call, lock, current>>

Close(k) == EnterClose(k) \/ ShutDown(k) \/ AwaitClosed(k)

(* The two minutes are over; the timer fires after the deadline. *)
DeadlinePasses(t) ==
  /\ state[t] # "none" /\ ~late[t]
  /\ late' = [late EXCEPT ![t] = TRUE]
  /\ UNCHANGED <<state, closed, complete, listening, secret, timer, result,
                 request, closing, call, lock, current>>

TimerFires(t) ==
  /\ timer[t] /\ late[t]
  /\ timer' = [timer EXCEPT ![t] = FALSE]
  /\ BeginClose(Timer(t), t)
  /\ UNCHANGED <<state, closed, complete, listening, secret, late, result,
                 request, call, lock, current>>

-----------------------------------------------------------------------------
(* A connection: do_POST *)

(* Slip: the last writer wins. *)
LastObserved(t, r) == result' = [result EXCEPT ![t] = r]

(* observe(): once the ticket is consumed, only the outcome of its delivery counts. *)
Observed(t, r) ==
  result' = [result EXCEPT ![t] = IF state[t] = "ready" \/ r \in {"sent", "write_failed"}
                                  THEN r ELSE @]

Connect(p) ==
  /\ request[p].step = "none"
  /\ \E t \in Tickets, good \in BOOLEAN :
       /\ listening[t]
       /\ request' = [request EXCEPT ![p] = [step |-> "reading", ticket |-> t, code |-> good]]
  /\ UNCHANGED <<ticketVars, closing, call, lock, current>>

(* Wrong path, host, origin, size or body: refused before the code is compared; a
   connection that times out or asks for GET leaves no result. *)
RefuseRequest(p) ==
  /\ request[p].step = "reading"
  /\ Observed(request[p].ticket, "rejected") \/ UNCHANGED result
  /\ request' = [request EXCEPT ![p].step = "refused"]
  /\ UNCHANGED <<state, closed, complete, listening, secret, late, timer,
                 closing, call, lock, current>>

(* Slip: the response is written before the ticket is consumed. *)
WriteFirst(p) ==
  /\ request[p].step = "reading" /\ request[p].code
  /\ state[request[p].ticket] = "ready" /\ ~late[request[p].ticket]
  /\ request' = [request EXCEPT ![p].step = "writing"]
  /\ UNCHANGED <<ticketVars, closing, call, lock, current>>

(* Under the ticket's lock: too late, wrong code, or consumed by this request. *)
Consume(p) ==
  LET t == request[p].ticket
      open == state[t] = "ready" /\ ~late[t]
  IN /\ request[p].step = "reading"
     /\ \/ /\ ~open
           /\ result' = [result EXCEPT ![t] = IF state[t] = "ready" THEN "expired" ELSE @]
           /\ request' = [request EXCEPT ![p].step = "refused"]
           /\ UNCHANGED <<state, secret>>
        \/ /\ open /\ ~request[p].code
           /\ result' = [result EXCEPT ![t] = "bad_code"]
           /\ request' = [request EXCEPT ![p].step = "refused"]
           /\ UNCHANGED <<state, secret>>
        \/ /\ open /\ request[p].code
           /\ state' = [state EXCEPT ![t] = "used"]
           /\ secret' = [secret EXCEPT ![t] = FALSE]
           /\ request' = [request EXCEPT ![p].step = "writing"]
           /\ UNCHANGED result
     /\ UNCHANGED <<closed, complete, listening, late, timer, closing, call, lock, current>>

(* The response is written, or the phone is gone. *)
WriteResponse(p) ==
  /\ request[p].step = "writing"
  /\ request' = [request EXCEPT ![p].step = "sent"] \/ request' = [request EXCEPT ![p].step = "lost"]
  /\ UNCHANGED <<ticketVars, closing, call, lock, current>>

(* The outcome is recorded, then a thread closes the listener. *)
Finish(p) ==
  /\ request[p].step \in {"sent", "lost"}
  /\ Observed(request[p].ticket, IF request[p].step = "sent" THEN "sent" ELSE "write_failed")
  /\ request' = [request EXCEPT ![p].step = "done"]
  /\ BeginClose(Reaper(p), request[p].ticket)
  /\ UNCHANGED <<state, closed, complete, listening, secret, late, timer, call, lock, current>>

-----------------------------------------------------------------------------
(* PairingManager and its routes *)

SetCall(c, s) == call' = [call EXCEPT ![c].step = s]

(* pair-start and pair-cancel. *)
Ask(c, op) ==
  /\ call[c].step = "idle"
  /\ call' = [call EXCEPT ![c] = [step |-> "lock", op |-> op, ticket |-> None]]
  /\ UNCHANGED <<ticketVars, request, closing, lock, current>>

(* pair-allow: status() first, for the ticket the page shows. *)
AskAllow(c, t) ==
  /\ call[c].step = "idle"
  /\ lock = None
  /\ state[t] = "ready" /\ current = t
  /\ call' = [call EXCEPT ![c] = [step |-> "lock", op |-> "allow", ticket |-> t]]
  /\ UNCHANGED <<ticketVars, request, closing, lock, current>>

(* Slip: allow closes whatever session there is. *)
AlwaysCloses(c) == TRUE

(* The manager's lock is taken; allow gives up when its ticket is not the ready one. *)
MayClose(c) ==
  call[c].op = "allow" => current = call[c].ticket /\ state[current] = "ready"

Acquire(c) ==
  /\ call[c].step = "lock"
  /\ lock = None
  /\ lock' = c
  /\ IF current # None /\ MayClose(c)
     THEN BeginClose(Caller(c), current) /\ SetCall(c, "closing")
     ELSE /\ closing' = closing
          /\ SetCall(c, IF call[c].op = "start" THEN "create" ELSE "release")
  /\ UNCHANGED <<ticketVars, request, current>>

(* close() returned to the manager. *)
Closed(c) ==
  /\ call[c].step = "closing"
  /\ closing[Caller(c)].step = "out"
  /\ closing' = [closing EXCEPT ![Caller(c)] = NotClosing]
  /\ SetCall(c, IF call[c].op = "start" THEN "create" ELSE "release")
  /\ UNCHANGED <<ticketVars, request, lock, current>>

NextTicket == Cardinality({t \in Tickets : state[t] # "none"}) + 1

(* Slip: the timer is not started. *)
CreateUntimed(c) ==
  /\ call[c].step = "create"
  /\ NextTicket \in Tickets
  /\ LET t == NextTicket
     IN /\ state' = [state EXCEPT ![t] = "ready"]
        /\ listening' = [listening EXCEPT ![t] = TRUE]
        /\ secret' = [secret EXCEPT ![t] = TRUE]
        /\ current' = t
  /\ SetCall(c, "render")
  /\ UNCHANGED <<closed, complete, late, timer, result, request, closing, lock>>

(* The listener is bound, its thread and timer started. *)
Create(c) ==
  /\ call[c].step = "create"
  /\ NextTicket \in Tickets
  /\ LET t == NextTicket
     IN /\ state' = [state EXCEPT ![t] = "ready"]
        /\ listening' = [listening EXCEPT ![t] = TRUE]
        /\ secret' = [secret EXCEPT ![t] = TRUE]
        /\ timer' = [timer EXCEPT ![t] = TRUE]
        /\ current' = t
  /\ SetCall(c, "render")
  /\ UNCHANGED <<closed, complete, late, result, request, closing, lock>>

(* No port can be bound: the previous session stays, closed. *)
CreateFails(c) ==
  /\ call[c].step = "create"
  /\ SetCall(c, "release")
  /\ UNCHANGED <<ticketVars, request, closing, lock, current>>

Rendered(c) ==
  /\ call[c].step = "render"
  /\ SetCall(c, "release")
  /\ UNCHANGED <<ticketVars, request, closing, lock, current>>

(* Drawing the QR raises: the new ticket is closed before the lock is released. *)
RenderFails(c) ==
  /\ call[c].step = "render"
  /\ BeginClose(Caller(c), current)
  /\ call' = [call EXCEPT ![c] = [step |-> "closing", op |-> "cancel", ticket |-> None]]
  /\ UNCHANGED <<ticketVars, request, lock, current>>

Release(c) ==
  /\ call[c].step = "release"
  /\ lock' = None
  /\ call' = [call EXCEPT ![c] = NoCall]
  /\ UNCHANGED <<ticketVars, request, closing, current>>

-----------------------------------------------------------------------------
Serve(p) == Connect(p) \/ RefuseRequest(p) \/ Consume(p) \/ WriteResponse(p) \/ Finish(p)
Handle(p) == RefuseRequest(p) \/ Consume(p) \/ WriteResponse(p) \/ Finish(p)
Manage(c) == Closed(c) \/ Create(c) \/ CreateFails(c) \/ Rendered(c) \/ RenderFails(c) \/ Release(c)

Next == \/ \E k \in Closers : Close(k)
        \/ \E t \in Tickets : DeadlinePasses(t) \/ TimerFires(t)
        \/ \E p \in Phones : Serve(p)
        \/ \E c \in Callers : \/ Manage(c) \/ Acquire(c)
                              \/ \E op \in {"start", "cancel"} : Ask(c, op)
                              \/ \E t \in Tickets : AskAllow(c, t)

Spec == Init /\ [][Next]_vars

(* Threads run, handlers have a 5 s socket timeout, time passes; nobody is obliged
   to connect or to click. *)
FairSpec ==
  /\ Spec
  /\ \A k \in Closers : WF_vars(Close(k))
  /\ \A t \in Tickets : WF_vars(DeadlinePasses(t)) /\ WF_vars(TimerFires(t))
  /\ \A p \in Phones : WF_vars(Handle(p))
  /\ \A c \in Callers : WF_vars(Manage(c))

-----------------------------------------------------------------------------
(* Every variable keeps its type. *)
TypeOK ==
  /\ state \in [Tickets -> {"none", "ready", "used", "expired", "cancelled"}]
  /\ closed \in [Tickets -> BOOLEAN] /\ complete \in [Tickets -> BOOLEAN]
  /\ listening \in [Tickets -> BOOLEAN] /\ secret \in [Tickets -> BOOLEAN]
  /\ late \in [Tickets -> BOOLEAN] /\ timer \in [Tickets -> BOOLEAN]
  /\ result \in [Tickets -> Results]
  /\ request \in [Phones -> [step : {"none", "reading", "refused", "writing", "sent", "lost", "done"},
                             ticket : Tickets \cup {None}, code : BOOLEAN]]
  /\ closing \in [Closers -> [step : {"idle", "enter", "owner", "await", "out"},
                              ticket : Tickets \cup {None}]]
  /\ call \in [Callers -> [step : {"idle", "lock", "closing", "create", "render", "release"},
                           op : {"none", "start", "cancel", "allow"}, ticket : Tickets \cup {None}]]
  /\ lock \in Callers \cup {None}
  /\ current \in Tickets \cup {None}

Winners(t) == {p \in Phones : request[p].ticket = t /\ request[p].step \in {"writing", "sent", "lost", "done"}}

(* The configuration leaves the desktop at most once per QR code, whatever the
   requests in flight: consumption happens before writing. *)
OneShot == \A t \in Tickets : Cardinality(Winners(t)) <= 1 /\ (Winners(t) # {} => state[t] = "used")

(* The code and the encrypted response do not outlive the ready state. *)
SecretOnlyWhileReady == \A t \in Tickets : secret[t] <=> state[t] = "ready"

(* Whoever returns from close() finds the port closed, owner or not: a new ticket
   never listens beside an old one. *)
ClosedOnReturn ==
  /\ \A k \in Closers : closing[k].step = "out" => ~listening[closing[k].ticket]
  /\ \A t \in Tickets : listening[t] => t = current

(* Allowing the firewall from an old page never closes another page's ticket. *)
AllowClosesItsOwnTicket ==
  \A c \in Callers : call[c].op = "allow" /\ call[c].step = "closing"
                     => closing[Caller(c)].ticket = call[c].ticket

(* The tickets: each variable keeps its type, a ticket serves once, its secret goes with
   its state, it is closed when close() returns, and no old page closes it. *)
TicketInvariant ==
  TypeOK /\ OneShot /\ SecretOnlyWhileReady /\ ClosedOnReturn /\ AllowClosesItsOwnTicket

(* A delivered or lost configuration is what the page is told, whatever other
   connections do at the same time. *)
OutcomeIsReported ==
  \A p \in Phones : request[p].step = "done" => result[request[p].ticket] \in {"sent", "write_failed"}

(* How a ticket ended is decided once: a timer or a cancellation that comes after
   the phone leaves "used" alone. *)
OutcomeIsFinal ==
  [][\A t \in Tickets : state[t] \in {"used", "expired", "cancelled"} => state'[t] = state[t]]_vars

(* Every listener is closed in the end, even if nobody does anything. *)
ListenersClose == \A t \in Tickets : listening[t] ~> ~listening[t]

(* The manager's lock is always released: no closer waits for another in a circle. *)
LockIsReleased == \A c \in Callers : lock = c ~> lock # c
=============================================================================
