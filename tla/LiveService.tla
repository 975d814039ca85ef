------------------------------ MODULE LiveService ------------------------------
(***************************************************************************)
(* Fast monitoring on Android: LivePollService.java with the persistent    *)
(* wish of MonitoringState.java, the lease of MonitorWakeLock.java, and    *)
(* what the screens, Scheduler.sync and Android do to them.                *)
(*                                                                         *)
(* The handlers of the main thread are atomic towards one another; the     *)
(* tick of an instance runs on the thread of its executor and is cut       *)
(* between its checks, its writes and finish().  A tick in progress        *)
(* survives the destruction of its instance: shutdownNow only interrupts   *)
(* it.  Android delivers starts and destructions in the order it decided   *)
(* them.                                                                   *)
(***************************************************************************)
EXTENDS Naturals, Sequences

CONSTANTS Instances,  \* bound: service objects that may exist at a time
          None,       \* no instance
          MaxQueue    \* bound: undelivered starts

ASSUME LiveServiceAssumption ==
  None \notin Instances /\ MaxQueue \in Nat /\ {"free", "sync"} \cap Instances = {}

(* A LivePollService object. *)
Service == [stopping : BOOLEAN,
            loop     : {"none", "on", "off"},              \* executor
            wake     : {"none", "free", "held", "closed"}, \* MonitorWakeLock
            tick     : {"idle", "unwanted", "wanted", "polling", "broken", "quit"}]

New == [stopping |-> FALSE, loop |-> "none", wake |-> "none", tick |-> "idle"]

Messages == [what : {"start", "stop", "destroy"}, to : Instances]

VARIABLES
  requested,    \* the persistent wish
  interruption, \* its persistent interruption, "" when there is none
  eligible,     \* not paused, and a source is enabled
  running,      \* LivePollService.running, what the screens show
  service,      \* the objects
  current,      \* the instance Android considers started
  queue,        \* what Android has still to deliver to the main thread
  main          \* "free", "sync" before Scheduler.sync, or the instance being launched

vars == <<requested, interruption, eligible, running, service, current, queue, main>>

Init ==
  /\ requested = FALSE /\ interruption = "" /\ eligible \in BOOLEAN /\ running = FALSE
  /\ service = [i \in Instances |-> New]
  /\ current = None /\ queue = <<>> /\ main = "free"

-----------------------------------------------------------------------------
(* Android *)

Undelivered(i) == \E k \in DOMAIN queue : queue[k].to = i

(* An object nothing refers to any more: its destruction was delivered and its
   last tick is over. *)
Gone(i) == i # current /\ ~Undelivered(i) /\ service[i].tick = "idle" /\ main # i

(* A start: of the current instance, or of a new one. *)
StartService(what) ==
  /\ Len(queue) < MaxQueue
  /\ IF current # None
     THEN /\ queue' = Append(queue, [what |-> what, to |-> current])
          /\ UNCHANGED <<service, current>>
     ELSE \E i \in Instances :
            /\ Gone(i)
            /\ service' = [service EXCEPT ![i] = New]
            /\ current' = i
            /\ queue' = Append(queue, [what |-> what, to |-> i])

(* stopService and stopSelf: the current instance will be destroyed. *)
StopService(q) ==
  IF current = None THEN queue' = q /\ UNCHANGED current
  ELSE queue' = Append(q, [what |-> "destroy", to |-> current]) /\ current' = None

Ended(s) == [s EXCEPT !.stopping = TRUE,
                      !.loop = IF @ = "on" THEN "off" ELSE @,
                      !.wake = IF @ = "none" THEN @ ELSE "closed"]

(* finish(), by instance i, whose tick is then at t; an object that is no longer
   the current one cannot stop its successor. *)
Finish(i, t, q) ==
  /\ service' = [service EXCEPT ![i] = [Ended(@) EXCEPT !.tick = t]]
  /\ running' = FALSE
  /\ IF i = current THEN StopService(q) ELSE queue' = q /\ UNCHANGED current

(* Slip: a closed lock is acquired again. *)
RenewedAnyway(s) == [s EXCEPT !.wake = "held"]

(* MonitorWakeLock.renew *)
Renewed(s) == IF s.wake = "closed" THEN s ELSE [s EXCEPT !.wake = "held"]

(* The lease of ten minutes runs out under a stalled loop. *)
LeaseExpires(i) ==
  /\ service[i].wake = "held"
  /\ service' = [service EXCEPT ![i].wake = "free"]
  /\ UNCHANGED <<requested, interruption, eligible, running, current, queue, main>>

-----------------------------------------------------------------------------
(* The screens *)

(* MonitoringState.start: the wish, and a start, unless the write or Android
   refuses it. *)
Start ==
  /\ main = "free" /\ eligible
  /\ requested' = TRUE
  /\ \/ interruption' = "" /\ StartService("start")
     \/ interruption' = "unavailable" /\ UNCHANGED <<service, current, queue>>
  /\ UNCHANGED <<eligible, running, main>>

(* resumeVisible, when the activity comes back. *)
ResumeVisible == requested /\ interruption = "" /\ ~running /\ Start

(* Offered while the service runs, and when it was asked for and does not run. *)
StopPressed ==
  /\ main = "free" /\ (running \/ requested)
  /\ requested' = FALSE /\ interruption' = ""
  /\ StopService(queue)
  /\ UNCHANGED <<eligible, running, service, main>>

(* The button of the permanent notification. *)
NotificationStop ==
  /\ current # None /\ service[current].loop = "on"
  /\ StartService("stop")
  /\ UNCHANGED <<requested, interruption, eligible, running, main>>

(* The pause or the last enabled source changes; Scheduler.sync follows. *)
ChangeSources ==
  /\ main = "free"
  /\ eligible' = ~eligible
  /\ main' = "sync"
  /\ UNCHANGED <<requested, interruption, running, service, current, queue>>

(* Slip: the service is left to itself. *)
SyncWishOnly ==
  /\ main = "sync"
  /\ main' = "free"
  /\ IF eligible THEN UNCHANGED <<requested, interruption>>
     ELSE requested' = FALSE /\ interruption' = ""
  /\ UNCHANGED <<eligible, running, service, current, queue>>

(* Scheduler.sync *)
Sync ==
  /\ main = "sync"
  /\ main' = "free"
  /\ IF eligible THEN UNCHANGED <<requested, interruption, current, queue>>
     ELSE requested' = FALSE /\ interruption' = "" /\ StopService(queue)
  /\ UNCHANGED <<eligible, running, service>>

-----------------------------------------------------------------------------
(* The service on the main thread *)

Delivered(what) == main = "free" /\ queue # <<>> /\ Head(queue).what = what

StopCommand ==
  /\ Delivered("stop")
  /\ LET i == Head(queue).to
     IN /\ requested' = FALSE /\ interruption' = ""
        /\ Finish(i, service[i].tick, Tail(queue))
  /\ UNCHANGED <<eligible, main>>

(* onStartCommand on an instance that is ending. *)
StartTooLate ==
  /\ Delivered("start")
  /\ LET i == Head(queue).to
     IN /\ service[i].stopping
        /\ interruption' = "unavailable"
        /\ Finish(i, service[i].tick, Tail(queue))
  /\ UNCHANGED <<requested, eligible, main>>

(* Nothing is asked for, or it was interrupted, or no source is to be followed. *)
StartUnwanted ==
  /\ Delivered("start")
  /\ ~requested \/ interruption # "" \/ ~eligible
  /\ LET i == Head(queue).to
     IN ~service[i].stopping /\ Finish(i, service[i].tick, Tail(queue))
  /\ IF eligible THEN UNCHANGED <<requested, interruption>>
     ELSE requested' = FALSE /\ interruption' = ""
  /\ UNCHANGED <<eligible, main>>

StartAccepted ==
  /\ Delivered("start")
  /\ requested /\ interruption = "" /\ eligible
  /\ ~service[Head(queue).to].stopping
  /\ main' = Head(queue).to
  /\ queue' = Tail(queue)
  /\ UNCHANGED <<requested, interruption, eligible, running, service, current>>

(* The lock, then the loop unless there is one. *)
Launched(s) == [Renewed(s) EXCEPT !.loop = IF @ = "none" THEN "on" ELSE @]

(* startForeground was accepted. *)
Launch ==
  /\ main \in Instances
  /\ main' = "free"
  /\ service' = [service EXCEPT ![main] = Launched(@)]
  /\ running' = TRUE
  /\ UNCHANGED <<requested, interruption, eligible, current, queue>>

LaunchFails ==
  /\ main \in Instances
  /\ main' = "free"
  /\ interruption' = "unavailable"
  /\ Finish(main, service[main].tick, queue)
  /\ UNCHANGED <<requested, eligible>>

(* Android's limit on dataSync services. *)
Timeout ==
  /\ main = "free" /\ current # None /\ service[current].loop = "on"
  /\ interruption' = "limit"
  /\ Finish(current, service[current].tick, queue)
  /\ UNCHANGED <<requested, eligible, main>>

Destroy ==
  /\ Delivered("destroy")
  /\ LET i == Head(queue).to IN Finish(i, service[i].tick, Tail(queue))
  /\ UNCHANGED <<requested, interruption, eligible, main>>

(* The process dies.  When it comes back WatchApp synchronises first; a sticky
   service may be started again, without an intent. *)
Killed ==
  /\ \/ current' = None /\ queue' = <<>>
     \/ /\ current # None
        /\ service[current].loop = "on" \/ Undelivered(current)
        /\ queue' = <<[what |-> "start", to |-> current]>>
        /\ UNCHANGED current
  /\ service' = [i \in Instances |-> New]
  /\ running' = FALSE /\ main' = "sync"
  /\ UNCHANGED <<requested, interruption, eligible>>

-----------------------------------------------------------------------------
(* The tick of instance i *)

Step(i, from, to) == service[i].tick = from /\ service' = [service EXCEPT ![i].tick = to]

(* Slip: the wish is not read. *)
TickIgnoresTheWish(i) ==
  /\ service[i].loop = "on" /\ ~service[i].stopping
  /\ Step(i, "idle", IF eligible THEN "wanted" ELSE "unwanted")
  /\ UNCHANGED <<requested, interruption, eligible, running, current, queue, main>>

TickStarts(i) ==
  /\ service[i].loop = "on" /\ ~service[i].stopping
  /\ Step(i, "idle", IF requested /\ eligible THEN "wanted" ELSE "unwanted")
  /\ UNCHANGED <<requested, interruption, eligible, running, current, queue, main>>

TickStops(i) ==
  /\ Step(i, "unwanted", "quit")
  /\ requested' = FALSE /\ interruption' = ""
  /\ UNCHANGED <<eligible, running, current, queue, main>>

TickRenews(i) ==
  /\ service[i].tick = "wanted"
  /\ service' = [service EXCEPT ![i] = [Renewed(@) EXCEPT !.tick = "polling"]]
  /\ UNCHANGED <<requested, interruption, eligible, running, current, queue, main>>

TickCompletes(i) ==
  /\ Step(i, "polling", "idle")
  /\ UNCHANGED <<requested, interruption, eligible, running, current, queue, main>>

(* The lock or the check raises: nothing more if the service is ending. *)
TickFails(i) ==
  /\ \E from \in {"wanted", "polling"} :
       Step(i, from, IF service[i].stopping THEN "idle" ELSE "broken")
  /\ UNCHANGED <<requested, interruption, eligible, running, current, queue, main>>

TickInterrupts(i) ==
  /\ Step(i, "broken", "quit")
  /\ interruption' = "unavailable"
  /\ UNCHANGED <<requested, eligible, running, current, queue, main>>

TickFinishes(i) ==
  /\ service[i].tick = "quit"
  /\ Finish(i, "idle", queue)
  /\ UNCHANGED <<requested, interruption, eligible, main>>

Tick(i) == \/ TickStarts(i) \/ TickStops(i) \/ TickRenews(i) \/ TickCompletes(i)
           \/ TickInterrupts(i) \/ TickFinishes(i)

MainThread == \/ Sync \/ StopCommand \/ StartTooLate \/ StartUnwanted \/ StartAccepted
              \/ Launch \/ Destroy

Next == \/ MainThread \/ LaunchFails \/ Timeout \/ Killed
        \/ Start \/ ResumeVisible \/ StopPressed \/ NotificationStop \/ ChangeSources
        \/ \E i \in Instances : Tick(i) \/ TickFails(i) \/ LeaseExpires(i)

Spec == Init /\ [][Next]_vars

(* The main thread handles its messages, the executor runs its task every five
   seconds, and a check is bounded by the timeouts of its requests. *)
FairSpec == Spec /\ WF_vars(MainThread) /\ \A i \in Instances : WF_vars(Tick(i))

-----------------------------------------------------------------------------
(* Every variable keeps its type, and no loop is left on an object Android
   neither considers started nor has still to destroy. *)
TypeOK ==
  /\ requested \in BOOLEAN /\ eligible \in BOOLEAN /\ running \in BOOLEAN
  /\ interruption \in {"", "limit", "unavailable"}
  /\ service \in [Instances -> Service]
  /\ current \in Instances \cup {None}
  /\ queue \in Seq(Messages)
  /\ main \in {"free", "sync"} \cup Instances
  /\ \A i \in Instances :
       service[i].loop = "on" => i = current \/ Undelivered(i)

(* Once an instance is ending its lock is never held again, whatever its tick or
   a late start still does: the processor is released at once. *)
EndingHoldsNoLock == \A i \in Instances : service[i].stopping => service[i].wake # "held"

(* The service: types, and no lock held by an instance that ends. *)
ServiceInvariant == TypeOK /\ EndingHoldsNoLock

(* The screens never show a dead loop: unless a destruction is still to be
   delivered, a service shown as running has a loop that is not ending, and is
   neither paused nor without a source (the comment in onStartCommand). *)
AdvertisedLoopIsLive ==
  running /\ main = "free" /\ (\A k \in DOMAIN queue : queue[k].what # "destroy") =>
    /\ eligible
    /\ current # None /\ service[current].loop = "on" /\ ~service[current].stopping

(* Without a wish every loop stops and every lock is released, or a new wish is
   made: stopping, pausing and disabling the sources are obeyed. *)
StopTakesEffect ==
  ~requested ~> (requested \/ \A i \in Instances : service[i].loop # "on" /\ service[i].wake # "held")
==============================================================================
