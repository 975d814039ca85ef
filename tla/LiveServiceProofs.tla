--------------------------- MODULE LiveServiceProofs ---------------------------
(***************************************************************************)
(* Proofs about LiveService: what is true of a service object, of what     *)
(* Android has still to deliver, and of what the screens show, for every   *)
(* number of service objects and of undelivered starts.                    *)
(***************************************************************************)
EXTENDS LiveService, SequenceTheorems, TLAPS

(* Something in q is for object i. *)
Reaches(q, i) == \E k \in DOMAIN q : q[k].to = i

(* What is not for the started instance c is followed by its destruction. *)
Settled(q, c) ==
  \A k \in DOMAIN q :
    q[k].to = c \/ \E l \in DOMAIN q : l >= k /\ q[l].what = "destroy" /\ q[l].to = q[k].to

Destroying(q) == \E k \in DOMAIN q : q[k].what = "destroy"

(* A loop or a tick implies a lock; the lock of an object that ends is closed; only
   ending shuts a loop down. *)
Consistent(s) ==
  /\ s.loop # "none" \/ s.tick # "idle" => s.wake # "none"
  /\ s.stopping => s.wake \in {"none", "closed"}
  /\ s.loop = "off" => s.stopping

(* What Launch relies on between the checks of onStartCommand and the loop. *)
LaunchGrounded ==
  main \in Instances =>
    /\ eligible
    /\ main = current \/ Reaches(queue, main)
    /\ service[main].stopping => service[main].wake = "closed"

(* Unless a destruction is under way, what the screens show as running has a loop. *)
ShownLoop ==
  running /\ ~Destroying(queue) =>
    current # None /\ service[current].loop = "on" /\ (eligible \/ main = "sync")

Inductive ==
  /\ TypeOK
  /\ \A i \in Instances : Consistent(service[i])
  /\ current # None => ~service[current].stopping
  /\ Settled(queue, current)
  /\ LaunchGrounded
  /\ ShownLoop

Ticks == {"idle", "unwanted", "wanted", "polling", "broken", "quit"}

-----------------------------------------------------------------------------
(* What the handlers do to an object. *)

LEMMA NewObject == New \in Service /\ Consistent(New) /\ ~New.stopping /\ New.loop # "on"
BY DEF New, Service, Consistent

(* finish() on an object whose tick is then at t. *)
EndedAt(s, t) == [Ended(s) EXCEPT !.tick = t]

LEMMA EndedObject ==
  ASSUME NEW s \in Service, Consistent(s), NEW t \in Ticks, t = s.tick \/ t = "idle"
  PROVE  /\ EndedAt(s, t) \in Service /\ Consistent(EndedAt(s, t))
         /\ EndedAt(s, t).stopping /\ EndedAt(s, t).loop # "on"
         /\ s.wake # "none" => EndedAt(s, t).wake = "closed"
<1> DEFINE e == EndedAt(s, t)
<1>1. e = [stopping |-> TRUE,
           loop |-> IF s.loop = "on" THEN "off" ELSE s.loop,
           wake |-> IF s.wake = "none" THEN "none" ELSE "closed",
           tick |-> t]
  <2> SUFFICES ASSUME NEW x, x = EndedAt(s, t)
               PROVE  x = [stopping |-> TRUE,
                           loop |-> IF s.loop = "on" THEN "off" ELSE s.loop,
                           wake |-> IF s.wake = "none" THEN "none" ELSE "closed",
                           tick |-> t]
    OBVIOUS
  <2>1. QED
    BY DEF EndedAt, Ended, Service
<1> HIDE DEF e
<1>2. s.loop \in {"none", "on", "off"} /\ s.wake \in {"none", "free", "held", "closed"}
  BY DEF Service
<1>3. /\ e.stopping /\ e.tick = t
      /\ e.loop = IF s.loop = "on" THEN "off" ELSE s.loop
      /\ e.wake = IF s.wake = "none" THEN "none" ELSE "closed"
  BY <1>1
<1>4. e \in Service
  <2> DEFINE l == IF s.loop = "on" THEN "off" ELSE s.loop
             w == IF s.wake = "none" THEN "none" ELSE "closed"
  <2>1. /\ l \in {"none", "on", "off"} /\ w \in {"none", "free", "held", "closed"}
        /\ e = [stopping |-> TRUE, loop |-> l, wake |-> w, tick |-> t]
    BY <1>1, <1>2
  <2> HIDE DEF l, w
  <2>2. [stopping |-> TRUE, loop |-> l, wake |-> w, tick |-> t] \in Service
    BY <2>1 DEF Service, Ticks
  <2>3. QED
    BY <2>1, <2>2
<1>5. Consistent(e)
  BY <1>2, <1>3 DEF Consistent
<1>6. QED
  BY <1>2, <1>3, <1>4, <1>5 DEF e

(* MonitorWakeLock.renew *)
LEMMA RenewedObject ==
  ASSUME NEW s \in Service, Consistent(s), s.stopping => s.wake = "closed"
  PROVE  LET r == Renewed(s)
         IN /\ r \in Service /\ Consistent(r)
            /\ r.stopping = s.stopping /\ r.loop = s.loop /\ r.tick = s.tick
            /\ r.wake # "none" /\ (r.stopping => r.wake = "closed")
            /\ s.wake = "closed" => r.wake = "closed"
<1>1. CASE s.wake = "closed"
  BY <1>1 DEF Renewed, Service, Consistent
<1>2. CASE s.wake # "closed"
  <2>1. Renewed(s) = [stopping |-> s.stopping, loop |-> s.loop, wake |-> "held", tick |-> s.tick]
    BY <1>2 DEF Renewed, Service
  <2>2. ~s.stopping
    BY <1>2
  <2>3. /\ Renewed(s).stopping = s.stopping /\ Renewed(s).loop = s.loop
        /\ Renewed(s).tick = s.tick /\ Renewed(s).wake = "held"
    BY <2>1
  <2>4. Renewed(s) \in Service
    BY <2>1 DEF Service
  <2>5. Consistent(Renewed(s))
    BY <2>2, <2>3 DEF Consistent
  <2>6. QED
    BY <1>2, <2>2, <2>3, <2>4, <2>5
<1>3. QED
  BY <1>1, <1>2

LEMMA TickedObject ==
  ASSUME NEW s \in Service, Consistent(s), NEW t \in Ticks, s.wake # "none"
  PROVE  LET r == [s EXCEPT !.tick = t]
         IN /\ r \in Service /\ Consistent(r)
            /\ r.stopping = s.stopping /\ r.loop = s.loop /\ r.wake = s.wake
BY DEF Service, Consistent, Ticks

-----------------------------------------------------------------------------
(* What the handlers do to the queue. *)

(* The delivery of the first message m. *)
LEMMA TailOfQueue ==
  ASSUME NEW q \in Seq(Messages), q # <<>>, NEW c, Settled(q, c)
  PROVE  /\ Head(q) \in Messages /\ Tail(q) \in Seq(Messages)
         /\ Settled(Tail(q), c)
         /\ \A j \in Instances : Reaches(q, j) =>
              Reaches(Tail(q), j) \/ j = Head(q).to
         /\ Head(q).what # "destroy" =>
              /\ Head(q).to = c \/ Reaches(Tail(q), Head(q).to)
              /\ Destroying(q) => Destroying(Tail(q))
<1>1. /\ Head(q) = q[1] /\ Head(q) \in Messages /\ Tail(q) \in Seq(Messages)
      /\ Len(q) \in Nat \ {0} /\ DOMAIN q = 1..Len(q) /\ DOMAIN Tail(q) = 1..(Len(q) - 1)
  BY HeadTailProperties, EmptySeq
<1>2. \A k \in 1..(Len(q) - 1) : Tail(q)[k] = q[k + 1]
  BY <1>1, HeadTailProperties
<1>3. \A k \in DOMAIN q : k = 1 \/ (k - 1 \in DOMAIN Tail(q) /\ Tail(q)[k - 1] = q[k])
  <2> SUFFICES ASSUME NEW k \in DOMAIN q, k # 1
               PROVE  k - 1 \in DOMAIN Tail(q) /\ Tail(q)[k - 1] = q[k]
    OBVIOUS
  <2>1. k \in Nat /\ k > 1 /\ k <= Len(q) /\ k - 1 \in 1..(Len(q) - 1) /\ (k - 1) + 1 = k
    BY <1>1
  <2>2. QED
    BY <1>1, <1>2, <2>1
<1>4. \A k \in DOMAIN Tail(q) : k + 1 \in DOMAIN q /\ Tail(q)[k] = q[k + 1]
  BY <1>1, <1>2
<1>5. Settled(Tail(q), c)
  <2> SUFFICES ASSUME NEW k \in DOMAIN Tail(q), Tail(q)[k].to # c
               PROVE  \E l \in DOMAIN Tail(q) : /\ l >= k /\ Tail(q)[l].what = "destroy"
                                                /\ Tail(q)[l].to = Tail(q)[k].to
    BY DEF Settled
  <2>1. k \in Nat /\ k >= 1 /\ k + 1 \in DOMAIN q /\ Tail(q)[k] = q[k + 1]
    BY <1>1, <1>4
  <2>2. PICK l \in DOMAIN q : l >= k + 1 /\ q[l].what = "destroy" /\ q[l].to = q[k + 1].to
    BY <2>1 DEF Settled
  <2>3. l \in Nat /\ l # 1 /\ l - 1 >= k
    BY <1>1, <2>1, <2>2
  <2>4. l - 1 \in DOMAIN Tail(q) /\ Tail(q)[l - 1] = q[l]
    BY <1>3, <2>3
  <2>5. QED
    BY <2>1, <2>2, <2>3, <2>4
<1>6. ASSUME NEW j \in Instances, Reaches(q, j), j # Head(q).to
      PROVE  Reaches(Tail(q), j)
  BY <1>1, <1>3, <1>6 DEF Reaches
<1>7. ASSUME Head(q).what # "destroy"
      PROVE  Head(q).to = c \/ Reaches(Tail(q), Head(q).to)
  <2> SUFFICES ASSUME Head(q).to # c
               PROVE  Reaches(Tail(q), Head(q).to)
    OBVIOUS
  <2>1. 1 \in DOMAIN q
    BY <1>1
  <2>2. PICK l \in DOMAIN q : q[l].what = "destroy" /\ q[l].to = q[1].to
    BY <1>1, <2>1 DEF Settled
  <2>3. l # 1
    BY <1>1, <1>7, <2>2
  <2>4. QED
    BY <1>1, <1>3, <2>2, <2>3 DEF Reaches
<1>8. ASSUME Head(q).what # "destroy", Destroying(q)
      PROVE  Destroying(Tail(q))
  BY <1>1, <1>3, <1>8 DEF Destroying
<1>9. QED
  BY <1>1, <1>5, <1>6, <1>7, <1>8

LEMMA AppendedQueue ==
  ASSUME NEW q \in Seq(Messages), NEW m \in Messages
  PROVE  /\ Append(q, m) \in Seq(Messages)
         /\ DOMAIN q \subseteq DOMAIN Append(q, m)
         /\ \A k \in DOMAIN q : Append(q, m)[k] = q[k] /\ k \in Nat /\ k < Len(q) + 1
         /\ Len(q) \in Nat
         /\ Len(q) + 1 \in DOMAIN Append(q, m)
         /\ Append(q, m)[Len(q) + 1] = m
         /\ \A k \in DOMAIN Append(q, m) : k \in DOMAIN q \/ k = Len(q) + 1
<1>1. Append(q, m) \in Seq(Messages) /\ Len(q) \in Nat /\ DOMAIN q = 1..Len(q)
  BY AppendProperties
<1>2. DOMAIN Append(q, m) = 1..(Len(q) + 1) /\ Append(q, m)[Len(q) + 1] = m
  BY AppendProperties
<1>3. \A k \in 1..Len(q) : Append(q, m)[k] = q[k]
  BY AppendProperties
<1>4. QED
  BY <1>1, <1>2, <1>3

(* A start or a stop for c, which is not started yet or already is. *)
LEMMA QueuedStart ==
  ASSUME NEW q \in Seq(Messages), NEW b, NEW c \in Instances, NEW what \in {"start", "stop"},
         Settled(q, b), b = c \/ b \notin Instances
  PROVE  LET r == Append(q, [what |-> what, to |-> c])
         IN /\ r \in Seq(Messages) /\ Settled(r, c)
            /\ \A j \in Instances : Reaches(q, j) => Reaches(r, j)
            /\ Destroying(q) => Destroying(r)
<1> DEFINE m == [what |-> what, to |-> c]
           r == Append(q, m)
<1>1. m \in Messages /\ m.to = c
  BY DEF Messages
<1> HIDE DEF m
<1>2. /\ r \in Seq(Messages)
      /\ \A k \in DOMAIN q : k \in DOMAIN r /\ r[k] = q[k]
      /\ r[Len(q) + 1] = m
      /\ \A k \in DOMAIN r : k \in DOMAIN q \/ k = Len(q) + 1
  BY <1>1, AppendedQueue
<1>3. \A k \in DOMAIN q : q[k].to \in Instances
  <2>1. \A k \in DOMAIN q : q[k] \in Messages
    BY ElementOfSeq, LenProperties
  <2>2. QED
    BY <2>1 DEF Messages
<1>4. Settled(r, c)
  <2> SUFFICES ASSUME NEW k \in DOMAIN r, r[k].to # c
               PROVE  \E l \in DOMAIN r : l >= k /\ r[l].what = "destroy" /\ r[l].to = r[k].to
    BY DEF Settled
  <2>1. k \in DOMAIN q /\ r[k] = q[k]
    BY <1>1, <1>2
  <2>2. q[k].to # b
    BY <1>3, <2>1
  <2>3. PICK l \in DOMAIN q : l >= k /\ q[l].what = "destroy" /\ q[l].to = q[k].to
    BY <2>1, <2>2 DEF Settled
  <2>4. QED
    BY <1>2, <2>1, <2>3
<1>5. (\A j \in Instances : Reaches(q, j) => Reaches(r, j)) /\ (Destroying(q) => Destroying(r))
  BY <1>2 DEF Reaches, Destroying
<1>6. QED
  BY <1>2, <1>4, <1>5 DEF m

(* Whatever is started will be destroyed, and nothing is forgotten. *)
LEMMA StoppedService ==
  ASSUME NEW q \in Seq(Messages), current \in Instances \cup {None}, Settled(q, current),
         StopService(q)
  PROVE  /\ queue' \in Seq(Messages) /\ Settled(queue', current') /\ current' = None
         /\ \A j \in Instances : j = current \/ Reaches(q, j) => Reaches(queue', j)
         /\ Destroying(q) \/ current # None => Destroying(queue')
<1>1. CASE current = None
  BY <1>1, LiveServiceAssumption DEF StopService
<1>2. CASE current # None
  <2> DEFINE m == [what |-> "destroy", to |-> current]
  <2>1. m \in Messages /\ m.to = current /\ m.what = "destroy"
    BY <1>2 DEF Messages
  <2>2. queue' = Append(q, m) /\ current' = None
    BY <1>2 DEF StopService
  <2> HIDE DEF m
  <2>3. /\ queue' \in Seq(Messages)
        /\ \A k \in DOMAIN q : k \in DOMAIN queue' /\ queue'[k] = q[k] /\ Len(q) + 1 >= k
        /\ Len(q) + 1 \in DOMAIN queue' /\ queue'[Len(q) + 1] = m /\ Len(q) + 1 >= Len(q) + 1
        /\ \A k \in DOMAIN queue' : k \in DOMAIN q \/ k = Len(q) + 1
    BY <2>1, <2>2, AppendedQueue
  <2>4. Settled(queue', None)
    <3> SUFFICES ASSUME NEW k \in DOMAIN queue'
                 PROVE  \E l \in DOMAIN queue' : /\ l >= k /\ queue'[l].what = "destroy"
                                                 /\ queue'[l].to = queue'[k].to
      BY DEF Settled
    <3>1. CASE queue'[k].to = current
      BY <2>1, <2>3, <3>1
    <3>2. CASE queue'[k].to # current
      <4>1. k \in DOMAIN q /\ queue'[k] = q[k]
        BY <2>1, <2>3, <3>2
      <4>2. PICK l \in DOMAIN q : l >= k /\ q[l].what = "destroy" /\ q[l].to = q[k].to
        BY <3>2, <4>1 DEF Settled
      <4>3. QED
        BY <2>3, <4>1, <4>2
    <3>3. QED
      BY <3>1, <3>2
  <2>5. \A j \in Instances : j = current \/ Reaches(q, j) => Reaches(queue', j)
    BY <2>1, <2>3 DEF Reaches
  <2>6. Destroying(queue')
    BY <2>1, <2>3 DEF Destroying
  <2>7. QED
    BY <2>2, <2>3, <2>4, <2>5, <2>6
<1>3. QED
  BY <1>1, <1>2

-----------------------------------------------------------------------------
(* finish() by i while q is still to be delivered; an object launched at that moment
   has its lock closed. *)
LEMMA FinishKeeps ==
  ASSUME Inductive, NEW i \in Instances, NEW t \in Ticks, t = service[i].tick \/ t = "idle",
         NEW q \in Seq(Messages), Settled(q, current),
         \A j \in Instances : Reaches(queue, j) => Reaches(q, j) \/ j = i,
         Finish(i, t, q),
         requested' \in BOOLEAN, interruption' \in {"", "limit", "unavailable"},
         eligible' = eligible, main' \in {"free", "sync"} \cup Instances,
         main' \in Instances => main' = main /\ q = queue /\ service[i].tick # "idle"
  PROVE  Inductive'
<1> USE LiveServiceAssumption
<1>0. /\ TypeOK /\ \A j \in Instances : service[j] \in Service /\ Consistent(service[j])
      /\ current \in Instances \cup {None}
      /\ service \in [Instances -> Service]
  BY DEF Inductive, TypeOK
<1> DEFINE e == EndedAt(service[i], t)
<1>1. /\ e \in Service /\ Consistent(e) /\ e.stopping /\ e.loop # "on"
      /\ service[i].wake # "none" => e.wake = "closed"
  BY <1>0, EndedObject
<1>2. service' = [service EXCEPT ![i] = e] /\ running' = FALSE
  BY DEF Finish, EndedAt
<1> HIDE DEF e
<1>3. /\ service' \in [Instances -> Service] /\ service'[i] = e
      /\ \A j \in Instances : j # i => service'[j] = service[j]
  BY <1>0, <1>1, <1>2
<1>4. /\ queue' \in Seq(Messages) /\ Settled(queue', current')
      /\ current' \in Instances \cup {None}
      /\ current' # None => current' = current /\ current # i
      /\ \A j \in Instances : j = current \/ Reaches(q, j) => j = current' \/ Reaches(queue', j)
  <2>1. CASE i = current
    <3>1. StopService(q)
      BY <2>1 DEF Finish
    <3>2. QED
      BY <1>0, <3>1, StoppedService
  <2>2. CASE i # current
    BY <1>0, <2>2 DEF Finish
  <2>3. QED
    BY <2>1, <2>2
<1>5. \A j \in Instances : j # i /\ (j = current \/ Reaches(queue, j)) =>
        j = current' \/ Reaches(queue', j)
  BY <1>4
<1>6. TypeOK'
  <2>1. ASSUME NEW j \in Instances, service'[j].loop = "on"
        PROVE  j = current' \/ Reaches(queue', j)
    <3>1. j # i /\ service[j].loop = "on"
      BY <1>1, <1>3, <2>1
    <3>2. j = current \/ Reaches(queue, j)
      BY <1>0, <3>1 DEF TypeOK, Undelivered, Reaches
    <3>3. QED
      BY <1>5, <3>1, <3>2
  <2>2. eligible' \in BOOLEAN
    BY <1>0 DEF TypeOK
  <2>3. QED
    BY <1>2, <1>3, <1>4, <2>1, <2>2 DEF TypeOK, Undelivered, Reaches
<1>7. \A j \in Instances : Consistent(service'[j])
  BY <1>0, <1>1, <1>3
<1>8. current' # None => ~service'[current'].stopping
  BY <1>0, <1>3, <1>4 DEF Inductive
<1>9. LaunchGrounded'
  <2> SUFFICES ASSUME main' \in Instances
               PROVE  /\ eligible'
                      /\ main' = current' \/ Reaches(queue', main')
                      /\ service'[main'].stopping => service'[main'].wake = "closed"
    BY DEF LaunchGrounded
  <2>1. main' = main /\ q = queue /\ service[i].wake # "none"
    BY <1>0 DEF Consistent
  <2>2. /\ eligible
        /\ main = current \/ Reaches(queue, main)
        /\ service[main].stopping => service[main].wake = "closed"
    BY <2>1 DEF Inductive, LaunchGrounded
  <2>3. main = current' \/ Reaches(queue', main)
    BY <1>4, <2>1, <2>2
  <2>4. service'[main].stopping => service'[main].wake = "closed"
    <3>1. CASE main = i
      BY <1>1, <1>3, <2>1, <3>1
    <3>2. CASE main # i
      BY <1>3, <2>1, <2>2, <3>2
    <3>3. QED
      BY <3>1, <3>2
  <2>5. eligible'
    BY <2>2
  <2>6. QED
    BY <2>1, <2>3, <2>4, <2>5
<1>10. QED
  BY <1>2, <1>4, <1>6, <1>7, <1>8, <1>9 DEF Inductive, ShownLoop

(* stopService, from the screens or from Scheduler.sync. *)
LEMMA StopKeeps ==
  ASSUME Inductive, StopService(queue), UNCHANGED <<running, service>>, eligible' = eligible,
         requested' \in BOOLEAN, interruption' \in {"", "limit", "unavailable"},
         main \notin Instances, main' = "free"
  PROVE  Inductive'
<1> USE LiveServiceAssumption
<1>1. /\ TypeOK /\ \A j \in Instances : Consistent(service[j])
      /\ current \in Instances \cup {None} /\ queue \in Seq(Messages) /\ Settled(queue, current)
      /\ service \in [Instances -> Service] /\ running \in BOOLEAN /\ eligible \in BOOLEAN
  BY DEF Inductive, TypeOK
<1>2. /\ queue' \in Seq(Messages) /\ Settled(queue', current') /\ current' = None
      /\ \A j \in Instances : j = current \/ Reaches(queue, j) => Reaches(queue', j)
      /\ Destroying(queue) \/ current # None => Destroying(queue')
  BY <1>1, StoppedService
<1>3. main' \notin Instances
  OBVIOUS
<1>4. TypeOK'
  <2>1. \A j \in Instances : service'[j].loop = "on" => Undelivered(j)'
    BY <1>1, <1>2 DEF TypeOK, Undelivered, Reaches
  <2>2. QED
    BY <1>1, <1>2, <2>1 DEF TypeOK, Undelivered
<1>5. ShownLoop'
  BY <1>2 DEF Inductive, ShownLoop
<1>6. QED
  BY <1>1, <1>2, <1>3, <1>4, <1>5 DEF Inductive, LaunchGrounded

(* A start or a stop is queued, for the started instance or a new one. *)
LEMMA StartKeeps ==
  ASSUME Inductive, NEW what \in {"start", "stop"}, StartService(what),
         requested' \in BOOLEAN, interruption' \in {"", "limit", "unavailable"},
         eligible' = eligible, running' = running, main' = main
  PROVE  Inductive'
<1> USE LiveServiceAssumption
<1>1. /\ TypeOK /\ \A j \in Instances : Consistent(service[j])
      /\ current \in Instances \cup {None} /\ queue \in Seq(Messages) /\ Settled(queue, current)
      /\ service \in [Instances -> Service] /\ running \in BOOLEAN /\ eligible \in BOOLEAN
      /\ main \in {"free", "sync"} \cup Instances
  BY DEF Inductive, TypeOK
<1>2. CASE current # None
  <2>1. /\ queue' \in Seq(Messages) /\ Settled(queue', current)
        /\ \A j \in Instances : Reaches(queue, j) => Reaches(queue', j)
        /\ Destroying(queue) => Destroying(queue')
        /\ UNCHANGED <<service, current>>
    <3>1. /\ queue' = Append(queue, [what |-> what, to |-> current])
          /\ UNCHANGED <<service, current>>
      BY <1>2 DEF StartService
    <3>2. current \in Instances
      BY <1>1, <1>2
    <3>3. QED
      BY <1>1, <3>1, <3>2, QueuedStart
  <2>2. TypeOK'
    <3>1. \A j \in Instances : service'[j].loop = "on" => j = current' \/ Undelivered(j)'
      BY <1>1, <2>1 DEF TypeOK, Undelivered, Reaches
    <3>2. QED
      BY <1>1, <2>1, <3>1 DEF TypeOK, Undelivered
  <2>3. ShownLoop'
    BY <2>1 DEF Inductive, ShownLoop
  <2>4. LaunchGrounded'
    BY <2>1 DEF Inductive, LaunchGrounded
  <2>5. QED
    BY <1>1, <2>1, <2>2, <2>3, <2>4 DEF Inductive
<1>3. CASE current = None
  <2>1. PICK i \in Instances : /\ Gone(i)
                               /\ service' = [service EXCEPT ![i] = New]
                               /\ current' = i
                               /\ queue' = Append(queue, [what |-> what, to |-> i])
    BY <1>3 DEF StartService
  <2>2. /\ queue' \in Seq(Messages) /\ Settled(queue', i)
        /\ \A j \in Instances : Reaches(queue, j) => Reaches(queue', j)
        /\ Destroying(queue) => Destroying(queue')
    BY <1>1, <1>3, <2>1, QueuedStart
  <2>3. /\ service' \in [Instances -> Service] /\ service'[i] = New
        /\ \A j \in Instances : j # i => service'[j] = service[j]
    BY <1>1, <2>1, NewObject
  <2>4. TypeOK'
    <3>1. \A j \in Instances : service'[j].loop = "on" => j = current' \/ Undelivered(j)'
      BY <1>1, <1>3, <2>1, <2>2, <2>3, NewObject DEF TypeOK, Undelivered, Reaches
    <3>2. QED
      BY <1>1, <2>1, <2>2, <2>3, <3>1 DEF TypeOK, Undelivered
  <2>5. \A j \in Instances : Consistent(service'[j])
    BY <1>1, <2>3, NewObject
  <2>6. LaunchGrounded'
    <3>1. main # i
      BY <2>1 DEF Gone
    <3>2. QED
      BY <1>3, <2>2, <2>3, <3>1 DEF Inductive, LaunchGrounded
  <2>7. ShownLoop'
    BY <1>3, <2>2 DEF Inductive, ShownLoop
  <2>8. QED
    BY <2>1, <2>2, <2>3, <2>4, <2>5, <2>6, <2>7, NewObject DEF Inductive
<1>4. QED
  BY <1>2, <1>3

(* Instance i changes, but neither its loop nor its end. *)
LEMMA TickKeeps ==
  ASSUME Inductive, NEW i \in Instances, NEW s \in Service, Consistent(s),
         s.stopping = service[i].stopping, s.loop = service[i].loop,
         service[i].wake = "closed" => s.wake = "closed",
         service' = [service EXCEPT ![i] = s],
         requested' \in BOOLEAN, interruption' \in {"", "limit", "unavailable"},
         eligible' = eligible, UNCHANGED <<running, current, queue, main>>
  PROVE  Inductive'
<1> USE LiveServiceAssumption
<1>1. /\ TypeOK /\ \A j \in Instances : Consistent(service[j])
      /\ service \in [Instances -> Service] /\ eligible \in BOOLEAN
      /\ current \in Instances \cup {None}
  BY DEF Inductive, TypeOK
<1>2. /\ service' \in [Instances -> Service] /\ service'[i] = s
      /\ \A j \in Instances : j # i => service'[j] = service[j]
  BY <1>1
<1>3. \A j \in Instances : /\ Consistent(service'[j])
                           /\ service'[j].stopping = service[j].stopping
                           /\ service'[j].loop = service[j].loop
                           /\ service[j].wake = "closed" => service'[j].wake = "closed"
  BY <1>1, <1>2
<1>4. TypeOK'
  BY <1>1, <1>2, <1>3 DEF TypeOK, Undelivered
<1>5. current' # None => ~service'[current'].stopping
  BY <1>1, <1>3 DEF Inductive
<1>6. LaunchGrounded'
  BY <1>3 DEF Inductive, LaunchGrounded
<1>7. ShownLoop'
  BY <1>1, <1>3 DEF Inductive, ShownLoop
<1>8. QED
  BY <1>3, <1>4, <1>5, <1>6, <1>7 DEF Inductive

-----------------------------------------------------------------------------
LEMMA InitInductive == Init => Inductive
<1> SUFFICES ASSUME Init
             PROVE  Inductive
  OBVIOUS
<1>1. queue = <<>> /\ queue \in Seq(Messages) /\ DOMAIN queue = {}
  <2>1. queue = <<>>
    BY DEF Init
  <2>2. <<>> \in Seq(Messages) /\ DOMAIN <<>> = {}
    OBVIOUS
  <2>3. QED
    BY <2>1, <2>2
<1>2. service \in [Instances -> Service] /\ \A i \in Instances : service[i] = New
  BY NewObject DEF Init
<1>3. TypeOK
  BY <1>1, <1>2, NewObject DEF Init, TypeOK
<1>4. \A i \in Instances : Consistent(service[i])
  BY <1>2, NewObject
<1>5. QED
  BY <1>1, <1>3, <1>4, LiveServiceAssumption
  DEF Init, Inductive, Settled, LaunchGrounded, ShownLoop

LEMMA NextInductive ==
  ASSUME Inductive, [Next]_vars
  PROVE  Inductive'
<1> USE LiveServiceAssumption
<1>0. /\ TypeOK
      /\ requested \in BOOLEAN /\ interruption \in {"", "limit", "unavailable"}
      /\ eligible \in BOOLEAN /\ running \in BOOLEAN
      /\ current \in Instances \cup {None}
      /\ queue \in Seq(Messages) /\ Settled(queue, current)
      /\ service \in [Instances -> Service]
      /\ \A i \in Instances : service[i] \in Service /\ Consistent(service[i])
      /\ \A i \in Instances : service[i].tick \in Ticks
      /\ main \in {"free", "sync"} \cup Instances
  <2>1. TypeOK /\ \A i \in Instances : Consistent(service[i])
    BY DEF Inductive
  <2>2. \A i \in Instances : service[i] \in Service
    BY <2>1 DEF TypeOK
  <2>3. \A i \in Instances : service[i].tick \in Ticks
    BY <2>2 DEF Service, Ticks
  <2>4. QED
    BY <2>1, <2>2, <2>3 DEF Inductive, TypeOK
(* What a delivery leaves in the queue. *)
<1>1. ASSUME NEW what, Delivered(what)
      PROVE  /\ main = "free" /\ queue # <<>> /\ Head(queue).what = what
             /\ Head(queue).to \in Instances
             /\ Tail(queue) \in Seq(Messages) /\ Settled(Tail(queue), current)
             /\ \A j \in Instances : Reaches(queue, j) => Reaches(Tail(queue), j) \/ j = Head(queue).to
  <2>1. queue # <<>>
    BY <1>1 DEF Delivered
  <2>2. Head(queue) \in Messages
    BY <1>0, <2>1, TailOfQueue
  <2>3. QED
    BY <1>0, <1>1, <2>1, <2>2, TailOfQueue DEF Delivered, Messages
<1>2. CASE Sync
  <2>1. main \notin Instances /\ main' = "free"
    BY <1>2 DEF Sync
  <2>2. CASE eligible
    <3>1. UNCHANGED <<requested, interruption, eligible, running, service, current, queue>>
      BY <1>2, <2>2 DEF Sync
    <3>2. TypeOK'
      BY <1>0, <2>1, <3>1 DEF TypeOK, Undelivered
    <3>3. LaunchGrounded'
      BY <2>1 DEF LaunchGrounded
    <3>4. ShownLoop'
      BY <2>2, <3>1 DEF Inductive, ShownLoop
    <3>5. QED
      BY <3>1, <3>2, <3>3, <3>4 DEF Inductive
  <2>3. CASE ~eligible
    <3>1. /\ StopService(queue) /\ UNCHANGED <<running, service>> /\ eligible' = eligible
          /\ requested' \in BOOLEAN /\ interruption' \in {"", "limit", "unavailable"}
      BY <1>2, <2>3 DEF Sync
    <3>2. QED
      BY <2>1, <3>1, StopKeeps
  <2>4. QED
    BY <2>2, <2>3
<1>3. CASE StopCommand
  <2>1. Delivered("stop")
    BY <1>3 DEF StopCommand
  <2> DEFINE i == Head(queue).to
  <2>2. /\ Finish(i, service[i].tick, Tail(queue)) /\ eligible' = eligible /\ main' = main
        /\ requested' \in BOOLEAN /\ interruption' \in {"", "limit", "unavailable"}
    BY <1>3 DEF StopCommand
  <2>3. QED
    BY <1>0, <1>1, <2>1, <2>2, FinishKeeps
<1>4. CASE StartTooLate
  <2>1. Delivered("start")
    BY <1>4 DEF StartTooLate
  <2> DEFINE i == Head(queue).to
  <2>2. /\ Finish(i, service[i].tick, Tail(queue)) /\ eligible' = eligible /\ main' = main
        /\ requested' \in BOOLEAN /\ interruption' \in {"", "limit", "unavailable"}
    BY <1>0, <1>4 DEF StartTooLate
  <2>3. QED
    BY <1>0, <1>1, <2>1, <2>2, FinishKeeps
<1>5. CASE StartUnwanted
  <2>1. Delivered("start")
    BY <1>5 DEF StartUnwanted
  <2> DEFINE i == Head(queue).to
  <2>2. /\ Finish(i, service[i].tick, Tail(queue)) /\ eligible' = eligible /\ main' = main
        /\ requested' \in BOOLEAN /\ interruption' \in {"", "limit", "unavailable"}
    BY <1>0, <1>5 DEF StartUnwanted
  <2>3. QED
    BY <1>0, <1>1, <2>1, <2>2, FinishKeeps
<1>6. CASE Destroy
  <2>1. Delivered("destroy")
    BY <1>6 DEF Destroy
  <2> DEFINE i == Head(queue).to
  <2>2. /\ Finish(i, service[i].tick, Tail(queue)) /\ eligible' = eligible /\ main' = main
        /\ requested' \in BOOLEAN /\ interruption' \in {"", "limit", "unavailable"}
    BY <1>0, <1>6 DEF Destroy
  <2>3. QED
    BY <1>0, <1>1, <2>1, <2>2, FinishKeeps
<1>7. CASE StartAccepted
  <2>1. Delivered("start")
    BY <1>7 DEF StartAccepted
  <2> DEFINE i == Head(queue).to
  <2>2. /\ eligible /\ ~service[i].stopping /\ main' = i /\ queue' = Tail(queue)
        /\ UNCHANGED <<requested, interruption, eligible, running, service, current>>
    BY <1>7 DEF StartAccepted
  <2>3. /\ i = current \/ Reaches(queue', i)
        /\ \A j \in Instances : Reaches(queue, j) => Reaches(queue', j) \/ j = current
        /\ Destroying(queue) => Destroying(queue')
    <3>1. queue # <<>> /\ Head(queue).what # "destroy"
      BY <1>1, <2>1
    <3>2. /\ i = current \/ Reaches(Tail(queue), i)
          /\ Destroying(queue) => Destroying(Tail(queue))
      BY <1>0, <3>1, TailOfQueue
    <3>3. \A j \in Instances : Reaches(queue, j) => Reaches(Tail(queue), j) \/ j = i
      BY <1>0, <3>1, TailOfQueue
    <3>4. QED
      BY <2>2, <3>2, <3>3
  <2> HIDE DEF i
  <2>4. i \in Instances /\ Settled(queue', current') /\ queue' \in Seq(Messages)
    BY <1>1, <2>1, <2>2 DEF i
  <2>5. TypeOK'
    <3>1. \A j \in Instances : service'[j].loop = "on" => j = current' \/ Undelivered(j)'
      BY <1>0, <2>2, <2>3 DEF TypeOK, Undelivered, Reaches
    <3>2. QED
      BY <1>0, <2>2, <2>4, <3>1 DEF TypeOK, Undelivered
  <2>6. LaunchGrounded'
    BY <2>2, <2>3 DEF LaunchGrounded
  <2>7. ShownLoop'
    BY <2>2, <2>3 DEF Inductive, ShownLoop
  <2>8. QED
    BY <2>2, <2>4, <2>5, <2>6, <2>7 DEF Inductive
<1>8. CASE Launch
  <2>1. /\ main \in Instances /\ main' = "free"
        /\ service' = [service EXCEPT ![main] = Launched(service[main])]
        /\ running' = TRUE
        /\ UNCHANGED <<requested, interruption, eligible, current, queue>>
    BY <1>8 DEF Launch
  <2>2. /\ eligible
        /\ main = current \/ Reaches(queue, main)
        /\ service[main].stopping => service[main].wake = "closed"
    BY <2>1 DEF Inductive, LaunchGrounded
  <2> DEFINE r == Renewed(service[main])
             s == Launched(service[main])
  <2>3. /\ r \in Service /\ Consistent(r) /\ r.stopping = service[main].stopping
        /\ r.wake # "none" /\ (r.stopping => r.wake = "closed")
    BY <1>0, <2>1, <2>2, RenewedObject
  <2>launched. s = [r EXCEPT !.loop = IF @ = "none" THEN "on" ELSE @]
    BY DEF Launched
  <2> HIDE DEF r, s
  <2>4. /\ s \in Service /\ s.stopping = r.stopping /\ s.wake = r.wake /\ s.tick = r.tick
        /\ s.loop = IF r.loop = "none" THEN "on" ELSE r.loop
    BY <2>3, <2>launched DEF Service
  <2>5. service' = [service EXCEPT ![main] = s]
    BY <2>1 DEF s
  <2>6. Consistent(s) /\ s.stopping = service[main].stopping
    BY <2>3, <2>4 DEF Consistent
  <2>7. /\ service' \in [Instances -> Service] /\ service'[main] = s
        /\ \A j \in Instances : j # main => service'[j] = service[j]
    BY <1>0, <2>1, <2>4, <2>5
  <2>8. TypeOK'
    <3>1. \A j \in Instances : service'[j].loop = "on" => j = current' \/ Undelivered(j)'
      BY <1>0, <2>1, <2>2, <2>7 DEF TypeOK, Undelivered, Reaches
    <3>2. QED
      BY <1>0, <2>1, <2>7, <3>1 DEF TypeOK, Undelivered
  <2>9. \A j \in Instances : Consistent(service'[j])
    BY <1>0, <2>6, <2>7
  <2>10. current # None => ~service'[current].stopping
    BY <1>0, <2>6, <2>7 DEF Inductive
  <2>11. LaunchGrounded'
    BY <2>1 DEF LaunchGrounded
  <2>12. ASSUME ~Destroying(queue)
         PROVE  current = main /\ service'[current].loop = "on"
    <3>1. current = main
      BY <2>1, <2>2, <1>0, <2>12 DEF Settled, Destroying, Reaches
    <3>2. ~s.stopping
      BY <2>1, <2>6, <3>1 DEF Inductive
    <3>3. s.loop = "on"
      BY <2>4, <2>6, <3>2 DEF Service, Consistent
    <3>4. QED
      BY <2>7, <3>1, <3>3
  <2>13. ShownLoop'
    BY <2>1, <2>2, <2>12 DEF ShownLoop
  <2>14. QED
    BY <1>0, <2>1, <2>8, <2>9, <2>10, <2>11, <2>13 DEF Inductive
<1>9. CASE LaunchFails
  <2>1. /\ main \in Instances /\ main' = "free" /\ eligible' = eligible
        /\ Finish(main, service[main].tick, queue)
        /\ requested' \in BOOLEAN /\ interruption' \in {"", "limit", "unavailable"}
    BY <1>0, <1>9 DEF LaunchFails
  <2>2. QED
    BY <1>0, <2>1, FinishKeeps
<1>10. CASE Timeout
  <2>1. /\ current \in Instances /\ main' = main /\ main = "free" /\ eligible' = eligible
        /\ Finish(current, service[current].tick, queue)
        /\ requested' \in BOOLEAN /\ interruption' \in {"", "limit", "unavailable"}
    BY <1>0, <1>10 DEF Timeout
  <2>2. QED
    BY <1>0, <2>1, FinishKeeps
<1>11. CASE Killed
  <2>1. /\ service' = [i \in Instances |-> New] /\ running' = FALSE /\ main' = "sync"
        /\ UNCHANGED <<requested, interruption, eligible>>
    BY <1>11 DEF Killed
  <2>2. /\ queue' \in Seq(Messages) /\ Settled(queue', current')
        /\ current' \in Instances \cup {None}
    <3>1. CASE current' = None /\ queue' = <<>>
      BY <3>1 DEF Settled
    <3>2. CASE current # None /\ current' = current
               /\ queue' = <<[what |-> "start", to |-> current]>>
      <4> DEFINE m == [what |-> "start", to |-> current]
      <4>1. m \in Messages /\ m.to = current
        BY <1>0, <3>2 DEF Messages
      <4> HIDE DEF m
      <4>2. queue' = <<m>>
        BY <3>2 DEF m
      <4>3. queue' \in Seq(Messages) /\ \A k \in DOMAIN queue' : queue'[k] = m
        BY <4>1, <4>2
      <4>4. Settled(queue', current')
        BY <3>2, <4>1, <4>3 DEF Settled
      <4>5. QED
        BY <1>0, <3>2, <4>3, <4>4
    <3>3. QED
      BY <1>11, <3>1, <3>2 DEF Killed
  <2>3. service' \in [Instances -> Service] /\ \A i \in Instances : service'[i] = New
    BY <2>1, NewObject
  <2>4. TypeOK'
    BY <1>0, <2>1, <2>2, <2>3, NewObject DEF TypeOK
  <2>5. \A i \in Instances : Consistent(service'[i]) /\ ~service'[i].stopping
    BY <2>3, NewObject
  <2>6. QED
    BY <2>1, <2>2, <2>4, <2>5 DEF Inductive, LaunchGrounded, ShownLoop
<1>12. CASE Start
  <2>1. /\ eligible' = eligible /\ running' = running /\ main' = main /\ main = "free"
        /\ requested' \in BOOLEAN /\ interruption' \in {"", "limit", "unavailable"}
    BY <1>0, <1>12 DEF Start
  <2>2. CASE StartService("start")
    BY <2>1, <2>2, StartKeeps
  <2>3. CASE UNCHANGED <<service, current, queue>>
    <3>1. TypeOK'
      BY <1>0, <2>1, <2>3 DEF TypeOK, Undelivered
    <3>2. QED
      BY <2>1, <2>3, <3>1 DEF Inductive, LaunchGrounded, ShownLoop
  <2>4. QED
    BY <1>12, <2>2, <2>3 DEF Start
<1>13. CASE StopPressed
  <2>1. /\ StopService(queue) /\ UNCHANGED <<running, service>> /\ eligible' = eligible
        /\ requested' \in BOOLEAN /\ interruption' \in {"", "limit", "unavailable"}
        /\ main \notin Instances /\ main' = "free"
    BY <1>13 DEF StopPressed
  <2>2. QED
    BY <2>1, StopKeeps
<1>14. CASE NotificationStop
  <2>1. /\ StartService("stop")
        /\ eligible' = eligible /\ running' = running /\ main' = main
        /\ requested' \in BOOLEAN /\ interruption' \in {"", "limit", "unavailable"}
    BY <1>0, <1>14 DEF NotificationStop
  <2>2. QED
    BY <2>1, StartKeeps
<1>15. CASE ChangeSources
  <2>1. /\ eligible' = ~eligible /\ main' = "sync"
        /\ UNCHANGED <<requested, interruption, running, service, current, queue>>
    BY <1>15 DEF ChangeSources
  <2>2. TypeOK'
    BY <1>0, <2>1 DEF TypeOK, Undelivered
  <2>3. QED
    BY <2>1, <2>2 DEF Inductive, LaunchGrounded, ShownLoop
<1>16. ASSUME NEW i \in Instances, Tick(i) \/ TickFails(i) \/ LeaseExpires(i)
       PROVE  Inductive'
  <2>1. CASE TickFinishes(i)
    <3>1. /\ Finish(i, "idle", queue) /\ service[i].tick # "idle" /\ "idle" \in Ticks
          /\ eligible' = eligible /\ main' = main
          /\ requested' \in BOOLEAN /\ interruption' \in {"", "limit", "unavailable"}
      BY <1>0, <2>1 DEF TickFinishes, Ticks
    <3>2. QED
      BY <1>0, <3>1, FinishKeeps
  <2>2. CASE TickRenews(i)
    <3> DEFINE r == Renewed(service[i])
               s == [r EXCEPT !.tick = "polling"]
    <3>1. service[i].wake # "none"
      BY <1>0, <2>2 DEF TickRenews, Consistent
    <3>2. service[i].stopping => service[i].wake = "closed"
      BY <1>0, <3>1 DEF Consistent
    <3>3. /\ r \in Service /\ Consistent(r)
          /\ r.stopping = service[i].stopping /\ r.loop = service[i].loop
          /\ r.wake # "none" /\ (service[i].wake = "closed" => r.wake = "closed")
      BY <1>0, <3>2, RenewedObject
    <3>4. /\ service' = [service EXCEPT ![i] = s]
          /\ UNCHANGED <<requested, interruption, eligible, running, current, queue, main>>
      BY <2>2 DEF TickRenews
    <3> HIDE DEF r
    <3>5. /\ s \in Service /\ Consistent(s)
          /\ s.stopping = r.stopping /\ s.loop = r.loop /\ s.wake = r.wake
      BY <3>3, TickedObject DEF Ticks
    <3> HIDE DEF s
    <3>6. QED
      BY <1>0, <3>3, <3>4, <3>5, TickKeeps
  <2>3. ASSUME NEW t \in Ticks, service' = [service EXCEPT ![i].tick = t],
               service[i].wake # "none",
               requested' \in BOOLEAN, interruption' \in {"", "limit", "unavailable"},
               eligible' = eligible, UNCHANGED <<running, current, queue, main>>
        PROVE  Inductive'
    <3> DEFINE s == [service[i] EXCEPT !.tick = t]
    <3>1. /\ s \in Service /\ Consistent(s)
          /\ s.stopping = service[i].stopping /\ s.loop = service[i].loop
          /\ s.wake = service[i].wake
      BY <1>0, <2>3, TickedObject
    <3>2. service' = [service EXCEPT ![i] = s]
      BY <2>3
    <3> HIDE DEF s
    <3>3. QED
      BY <1>0, <2>3, <3>1, <3>2, TickKeeps
  <2>4. service[i].tick # "idle" \/ service[i].loop = "on" => service[i].wake # "none"
    BY <1>0 DEF Consistent
  <2>5. CASE TickStarts(i)
    BY <1>0, <2>3, <2>4, <2>5 DEF TickStarts, Step, Ticks
  <2>6. CASE TickStops(i)
    BY <1>0, <2>3, <2>4, <2>6 DEF TickStops, Step, Ticks
  <2>7. CASE TickCompletes(i)
    BY <1>0, <2>3, <2>4, <2>7 DEF TickCompletes, Step, Ticks
  <2>8. CASE TickInterrupts(i)
    BY <1>0, <2>3, <2>4, <2>8 DEF TickInterrupts, Step, Ticks
  <2>9. CASE TickFails(i)
    BY <1>0, <2>3, <2>4, <2>9 DEF TickFails, Step, Ticks
  <2>10. CASE LeaseExpires(i)
    <3> DEFINE s == [service[i] EXCEPT !.wake = "free"]
    <3>1. service[i].wake = "held" /\ service[i] \in Service /\ Consistent(service[i])
      BY <1>0, <2>10 DEF LeaseExpires
    <3>2. /\ s \in Service /\ s.wake = "free"
          /\ s.stopping = service[i].stopping /\ s.loop = service[i].loop
          /\ s.tick = service[i].tick
      BY <3>1 DEF Service
    <3>3. /\ service' = [service EXCEPT ![i] = s]
          /\ UNCHANGED <<requested, interruption, eligible, running, current, queue, main>>
      BY <2>10 DEF LeaseExpires
    <3> HIDE DEF s
    <3>4. Consistent(s)
      BY <3>1, <3>2 DEF Consistent
    <3>5. QED
      BY <1>0, <3>1, <3>2, <3>3, <3>4, TickKeeps
  <2>11. QED
    BY <1>16, <2>1, <2>2, <2>5, <2>6, <2>7, <2>8, <2>9, <2>10 DEF Tick
<1>17. CASE UNCHANGED vars
  <2>1. TypeOK'
    BY <1>0, <1>17 DEF vars, TypeOK, Undelivered
  <2>2. QED
    BY <1>17, <2>1 DEF vars, Inductive, LaunchGrounded, ShownLoop
<1>18. QED
  BY <1>2, <1>3, <1>4, <1>5, <1>6, <1>7, <1>8, <1>9, <1>10, <1>11, <1>12, <1>13, <1>14, <1>15,
     <1>16, <1>17 DEF Next, MainThread, ResumeVisible

(* The inductive invariant of the service. *)
THEOREM InductiveHolds == Spec => []Inductive
<1>1. QED
  BY InitInductive, NextInductive, PTL DEF Spec

(* An instance that is ending never holds its lock again, whatever its last tick or a late
   start does, and no loop is left behind: LivePollService.finish closes the lock for good
   and Android's destructions follow their starts. *)
THEOREM ServiceIsSound == Spec => []ServiceInvariant
<1>1. Inductive => ServiceInvariant
  BY DEF Inductive, ServiceInvariant, EndingHoldsNoLock, Consistent
<1>2. QED
  BY <1>1, InductiveHolds, PTL

(* The screens never advertise a dead loop: a service shown as running, with no destruction
   to be delivered, polls for a source that may be followed. *)
THEOREM ShownLoopIsLive == Spec => []AdvertisedLoopIsLive
<1>1. Inductive => AdvertisedLoopIsLive
  BY DEF Inductive, ShownLoop, AdvertisedLoopIsLive, Destroying
<1>2. QED
  BY <1>1, InductiveHolds, PTL
=============================================================================
