---------------------------- MODULE Service_proofs -----------------------------
(***************************************************************************)
(* Service for any events, functions, environments, handlers and bounds:   *)
(* it is an EventReceiver, and delivers as EventDelivery promises.         *)
(***************************************************************************)
EXTENDS Service, EventReceiver_proofs

(* The steps that are steps of the receiver, and the others. *)
LEMMA ReceiverStep == [ServiceNext]_serviceVars => [Next]_vars
<1> SUFFICES ASSUME [ServiceNext]_serviceVars
             PROVE  [Next]_vars
  OBVIOUS
<1>1. ASSUME NEW h \in Handler, NEW e \in Event, CrossPushes(h, e)
      PROVE  Next
  BY <1>1 DEF CrossPushes, Next
<1>2. ASSUME NEW h \in Handler, HandlerStep(h)
      PROVE  Next
  BY <1>2 DEF HandlerStep, Handle, GoDispatch, NotifyEvent, Next
<1>3. ASSUME NEW e \in Event, DispatchStep(e)
      PROVE  UNCHANGED vars
  BY <1>3 DEF DispatchStep, LookupMisses, CreateJob, GiveUp, Complete, SettleUnheard, Settled
<1>4. CASE Start \/ StartUpFails \/ Listen \/ Heartbeat \/ Lapse \/ Signal \/ Exit
  BY <1>4 DEF Start, StartUp, StartUpUnregistered, BringUp, StartUpFails, Listen, Heartbeat,
              Lapse, Signal, Exit
<1>5. CASE Kill
  BY <1>5 DEF Kill, Next
<1>6. CASE UNCHANGED serviceVars
  BY <1>6 DEF serviceVars
<1>7. QED
  BY <1>1, <1>2, <1>3, <1>4, <1>5, <1>6 DEF ServiceNext

(***************************************************************************)
(* The process around it leaves NotifyEvent what it is: the service        *)
(* implements EventReceiver, so what is proved of the receiver holds of    *)
(* the service through start-ups, shutdowns and dispatches.                *)
(***************************************************************************)
THEOREM ImplementsReceiver == ServiceSpec => Spec
<1>1. ServiceInit => Init
  BY DEF ServiceInit
<1>2. QED
  BY <1>1, ReceiverStep, PTL DEF ServiceSpec, Spec

(***************************************************************************)
(* In the service, too, every record is dispatched exactly once but for    *)
(* what a kill cuts off: a graceful shutdown loses no dispatch that was to *)
(* be started, since it waits for the handlers of event_receiver.go.       *)
(***************************************************************************)
THEOREM ServiceRecordsDispatched == ServiceSpec => []RecordsAreDispatched
  BY ImplementsReceiver, RecordsDispatched, PTL
-----------------------------------------------------------------------------
(* Type correctness *)

LEMMA ServiceTypeInit == ServiceInit => ServiceTypeOK
  BY ServiceAssumption DEF ServiceInit, ServiceTypeOK, Init, Phase

(* A step that leaves the process and its dispatches alone *)
LEMMA HandlerType ==
  ASSUME ServiceTypeOK, phase \notin {"down", "wiring"},
         UNCHANGED <<lifeVars, routes, dispatchVars, mishaps>>
  PROVE  ServiceTypeOK'
  BY DEF ServiceTypeOK, lifeVars, dispatchVars

LEMMA ServiceTypeStep ==
  TypeOK /\ ServiceTypeOK /\ [ServiceNext]_serviceVars => ServiceTypeOK'
<1> SUFFICES ASSUME TypeOK, ServiceTypeOK, [ServiceNext]_serviceVars
             PROVE  ServiceTypeOK'
  OBVIOUS
<1> USE ServiceAssumption
<1>1. CASE Start
  <2>1. \E p \in {"nil", "registrar"} : BringUp(p) /\ (p = "registrar" => config.cross)
    BY <1>1 DEF Start, StartUp, StartUpUnregistered
  <2>2. mishaps' \in 0..MaxMishaps
    BY <1>1 DEF Start, StartUp, StartUpUnregistered, Mishap, ServiceTypeOK
  <2>3. QED
    BY <2>1, <2>2 DEF BringUp, ServiceTypeOK, Phase, vars, dispatchVars
<1>2. CASE StartUpFails
  BY <1>2 DEF StartUpFails, Mishap, ServiceTypeOK, Phase, vars, dispatchVars
<1>3. CASE Listen
  BY <1>3 DEF Listen, ServiceTypeOK, Phase, vars, dispatchVars
<1>4. CASE Heartbeat \/ Lapse
  BY <1>4 DEF Heartbeat, Lapse, ServiceTypeOK, vars, lifeVars, dispatchVars
<1>5. CASE Signal
  BY <1>5 DEF Signal, ServiceTypeOK, Phase, vars, dispatchVars
<1>6. CASE Exit
  <2>1. stops' \in 0..MaxStops
    BY <1>6 DEF Exit, ServiceTypeOK
  <2>2. handler' = handler /\ \A h \in Handler : handler[h] = Idle
    BY <1>6 DEF Exit, vars
  <2>3. QED
    BY <1>6, <2>1, <2>2 DEF Exit, Gone, ServiceTypeOK, Phase
<1>7. CASE Kill
  BY <1>7 DEF Kill, Restart, Gone, ServiceTypeOK, Phase, Idle
<1>8. ASSUME NEW h \in Handler, NEW e \in Event, CrossPushes(h, e)
      PROVE  ServiceTypeOK'
  BY <1>8, HandlerType DEF CrossPushes
<1>9. ASSUME NEW h \in Handler, HandlerStep(h)
      PROVE  ServiceTypeOK'
  <2>1. handler[h].at # "idle"
    BY <1>9 DEF HandlerStep, Handle, GoDispatch, Duplicate, FirstSeen, LookupFails, Record,
                RecordFails, StartDispatch, Answer, AnswerLost
  <2>2. phase \notin {"down", "wiring"}
    BY <2>1 DEF ServiceTypeOK, Idle
  <2>3. CASE Handle(h)
    BY <2>2, <2>3, HandlerType DEF Handle
  <2>4. CASE GoDispatch(h)
    <3>1. Of(h) \in Event
      BY <2>1 DEF TypeOK, Of
    <3>2. looking' = [looking EXCEPT ![Of(h)] = looking[Of(h)] + 1]
      BY <2>4 DEF GoDispatch
    <3>3. looking' \in [Event -> Nat]
      BY <3>1, <3>2 DEF ServiceTypeOK
    <3>4. QED
      BY <2>2, <2>4, <3>3 DEF GoDispatch, ServiceTypeOK, lifeVars
  <2>5. QED
    BY <1>9, <2>3, <2>4 DEF HandlerStep
<1>10. ASSUME NEW e \in Event, DispatchStep(e)
       PROVE  ServiceTypeOK'
  <2>1. looking[e] > 0 \/ running[e] > 0
    BY <1>10 DEF DispatchStep, LookupMisses, CreateJob, GiveUp, Complete, SettleUnheard, Settled
  <2>2. phase \notin {"down", "wiring"}
    BY <2>1 DEF ServiceTypeOK
  <2>3. CASE LookupMisses(e)
    BY <2>2, <2>3 DEF LookupMisses, ServiceTypeOK, lifeVars
  <2>4. CASE CreateJob(e)
    BY <2>2, <2>4 DEF CreateJob, ServiceTypeOK, lifeVars
  <2>5. CASE GiveUp(e)
    BY <2>2, <2>5 DEF GiveUp, Mishap, ServiceTypeOK, lifeVars
  <2>6. CASE Complete(e) \/ SettleUnheard(e)
    <3>1. raised' \subseteq Event /\ mishaps' = mishaps
      BY <2>6 DEF Complete, SettleUnheard, ServiceTypeOK
    <3>2. QED
      BY <2>2, <2>6, <3>1 DEF Complete, SettleUnheard, Settled, ServiceTypeOK, lifeVars
  <2>7. QED
    BY <1>10, <2>3, <2>4, <2>5, <2>6 DEF DispatchStep
<1>11. CASE UNCHANGED serviceVars
  BY <1>11 DEF serviceVars, vars, lifeVars, dispatchVars, ServiceTypeOK
<1>12. QED
  BY <1>1, <1>2, <1>3, <1>4, <1>5, <1>6, <1>7, <1>8, <1>9, <1>10, <1>11 DEF ServiceNext

(***************************************************************************)
(* Every reachable state of the process and its dispatches has its type,   *)
(* and a process that is down, or not yet serving, has no handler and no   *)
(* dispatch at work.                                                       *)
(***************************************************************************)
THEOREM ServiceTypeCorrect == ServiceSpec => []ServiceTypeOK
  BY ServiceTypeInit, ServiceTypeStep, ImplementsReceiver, TypeCorrect, PTL DEF ServiceSpec
-----------------------------------------------------------------------------
(* Delivery *)

(* What is owed, or was dealt with, has a record. *)
OwedIsRecorded == \A e \in Event : looking[e] > 0 \/ running[e] > 0 => received[e] > 0

ServiceInv == TypeOK /\ Served /\ AckedIsRecorded /\ ServiceTypeOK /\ OwedIsRecorded

(* A step of a handler that is not about to start a dispatch, before or after *)
LEMMA AwaitsKept ==
  ASSUME NEW h \in Handler, \A g \in Handler \ {h} : handler'[g] = handler[g],
         handler[h].at # "dispatch", handler'[h].at # "dispatch", NEW e
  PROVE  AwaitsDispatch(e)' <=> AwaitsDispatch(e)
<1>1. \A g \in Handler : handler'[g] = [at |-> "dispatch", event |-> e]
                        <=> handler[g] = [at |-> "dispatch", event |-> e]
  <2>1. handler[h] # [at |-> "dispatch", event |-> e]
    OBVIOUS
  <2>2. handler'[h] # [at |-> "dispatch", event |-> e]
    OBVIOUS
  <2>3. QED
    BY <2>1, <2>2
<1>2. QED
  BY <1>1 DEF AwaitsDispatch

(* The steps of a handler that neither record nor start a dispatch *)
Aside(h) ==
    \/ Duplicate(h) \/ FirstSeen(h) \/ LookupFails(h) \/ RecordFails(h)
    \/ Answer(h) \/ AnswerLost(h)

LEMMA AsideKeeps ==
  ASSUME TypeOK, NEW h \in Handler, Aside(h) \/ \E e \in Event : Push(h, e)
  PROVE  /\ \A e \in Event : AwaitsDispatch(e)' <=> AwaitsDispatch(e)
         /\ received' = received
         /\ faults'["restart"] = faults["restart"]
<1>1. /\ received' = received
      /\ handler[h].at # "dispatch"
  BY DEF Aside, Push, Idle, Duplicate, FirstSeen, LookupFails, RecordFails, Answer, AnswerLost
<1>2. faults'["restart"] = faults["restart"]
  <2>1. ASSUME NEW k \in FaultKind \ {"restart"}, Fault(k)
        PROVE  faults'["restart"] = faults["restart"]
    BY <2>1 DEF TypeOK, Fault, FaultKind
  <2>2. QED
    BY <2>1 DEF FaultKind, Aside, Push, Duplicate, FirstSeen, LookupFails, RecordFails, Answer,
                AnswerLost
<1>3. /\ \A g \in Handler \ {h} : handler'[g] = handler[g]
      /\ handler'[h].at # "dispatch"
  <2>1. CASE \E e \in Event : Push(h, e)
    BY <2>1, PushType
  <2>2. CASE Done(h)
    BY <2>2, DoneType DEF Idle
  <2>3. ASSUME NEW at \in At \ {"idle", "dispatch"}, Goto(h, at), handler[h].at # "idle"
        PROVE  /\ \A g \in Handler \ {h} : handler'[g] = handler[g]
               /\ handler'[h].at # "dispatch"
    <3>1. /\ \A g \in Handler \ {h} : handler'[g] = handler[g]
          /\ handler'[h] = [at |-> at, event |-> Of(h)]
      BY <2>3, GotoType, Zenon
    <3>2. handler'[h].at = at
      BY <3>1
    <3>3. QED
      BY <3>1, <3>2
  <2>4. CASE Duplicate(h)
    BY <2>4, <2>3 DEF Duplicate, At
  <2>5. CASE FirstSeen(h)
    BY <2>5, <2>3 DEF FirstSeen, At
  <2>6. CASE LookupFails(h)
    BY <2>6, <2>3 DEF LookupFails, At
  <2>7. CASE RecordFails(h)
    BY <2>7, <2>3 DEF RecordFails, At
  <2>8. CASE Answer(h) \/ AnswerLost(h)
    BY <2>8, <2>2 DEF Answer, AnswerLost
  <2>9. QED
    BY <2>1, <2>4, <2>5, <2>6, <2>7, <2>8 DEF Aside
<1>4. QED
  BY <1>1, <1>2, <1>3, AwaitsKept

LEMMA ServiceInvInit == ServiceInit => ServiceInv
<1> SUFFICES ASSUME ServiceInit
             PROVE  ServiceInv
  OBVIOUS
<1>1. Init
  BY DEF ServiceInit
<1>2. Served /\ AckedIsRecorded
  BY <1>1 DEF Init, Served, AckedIsRecorded, Idle
<1>3. OwedIsRecorded
  BY DEF ServiceInit, OwedIsRecorded
<1>4. QED
  BY <1>1, <1>2, <1>3, TypeInit, ServiceTypeInit DEF ServiceInv

LEMMA OwedIsRecordedStep ==
  TypeOK /\ Served /\ ServiceTypeOK /\ OwedIsRecorded /\ [ServiceNext]_serviceVars
    => OwedIsRecorded'
<1> SUFFICES ASSUME TypeOK, Served, ServiceTypeOK, OwedIsRecorded, [ServiceNext]_serviceVars,
                    NEW e \in Event, looking'[e] > 0 \/ running'[e] > 0
             PROVE  received'[e] > 0
  BY DEF OwedIsRecorded
<1>a. /\ received \in [Event -> Nat]
      /\ looking \in [Event -> Nat]
      /\ running \in [Event -> Nat]
  BY DEF TypeOK, ServiceTypeOK
<1>b. ASSUME received' = received, looking' = looking, running' = running
      PROVE  received'[e] > 0
  BY <1>b DEF OwedIsRecorded
<1>1. CASE Start \/ StartUpFails \/ Listen \/ Heartbeat \/ Lapse \/ Signal
  BY <1>1, <1>b DEF Start, StartUp, StartUpUnregistered, BringUp, StartUpFails, Listen,
                    Heartbeat, Lapse, Signal, vars, dispatchVars
<1>2. CASE Exit \/ Kill
  BY <1>2 DEF Exit, Kill, Gone
<1>3. ASSUME NEW h \in Handler, \E x \in Event : CrossPushes(h, x)
      PROVE  received'[e] > 0
  BY <1>3, <1>b DEF CrossPushes, Push, dispatchVars
<1>4. ASSUME NEW h \in Handler, Handle(h)
      PROVE  received'[e] > 0
  <2>1. CASE Record(h)
    <3>1. received[e] > 0
      BY <1>4 DEF OwedIsRecorded, Handle, dispatchVars
    <3>2. received' = [received EXCEPT ![Of(h)] = received[Of(h)] + 1]
      BY <2>1 DEF Record
    <3>3. QED
      BY <1>a, <3>1, <3>2
  <2>2. CASE Aside(h)
    BY <1>4, <2>2, <1>b, AsideKeeps DEF Handle, dispatchVars
  <2>3. QED
    BY <1>4, <2>1, <2>2 DEF Handle, Aside
<1>5. ASSUME NEW h \in Handler, GoDispatch(h)
      PROVE  received'[e] > 0
  <2>1. /\ received' = received
        /\ running' = running
        /\ looking' = [looking EXCEPT ![Of(h)] = looking[Of(h)] + 1]
        /\ received[Of(h)] > 0
    BY <1>5 DEF GoDispatch, StartDispatch, Served, Of
  <2>2. CASE e = Of(h)
    BY <2>1, <2>2
  <2>3. CASE e # Of(h)
    BY <2>1, <2>3, <1>a DEF OwedIsRecorded
  <2>4. QED
    BY <2>2, <2>3
<1>6. ASSUME NEW x \in Event, DispatchStep(x)
      PROVE  received'[e] > 0
  <2>1. received' = received
    BY <1>6 DEF DispatchStep, LookupMisses, CreateJob, GiveUp, Complete, SettleUnheard, Settled,
                vars
  <2>2. CASE e = x
    BY <1>6, <2>1, <2>2 DEF OwedIsRecorded, DispatchStep, LookupMisses, CreateJob, GiveUp,
                            Complete, SettleUnheard, Settled
  <2>3. CASE e # x
    <3>1. looking'[e] = looking[e] /\ running'[e] = running[e]
      BY <1>6, <2>3, <1>a DEF DispatchStep, LookupMisses, CreateJob, GiveUp, Complete,
                              SettleUnheard, Settled
    <3>2. QED
      BY <2>1, <3>1 DEF OwedIsRecorded
  <2>4. QED
    BY <2>2, <2>3
<1>7. CASE UNCHANGED serviceVars
  BY <1>7, <1>b DEF serviceVars, vars, dispatchVars
<1>8. QED
  BY <1>1, <1>2, <1>3, <1>4, <1>5, <1>6, <1>7 DEF ServiceNext, HandlerStep

LEMMA ServiceInvStep == ServiceInv /\ [ServiceNext]_serviceVars => ServiceInv'
<1> SUFFICES ASSUME ServiceInv, [ServiceNext]_serviceVars
             PROVE  ServiceInv'
  OBVIOUS
<1>1. [Next]_vars
  BY ReceiverStep
<1>2. TypeOK' /\ Served' /\ AckedIsRecorded'
  BY <1>1, TypeStep, RecordInvStep DEF ServiceInv, RecordInv
<1>3. ServiceTypeOK' /\ OwedIsRecorded'
  BY ServiceTypeStep, OwedIsRecordedStep DEF ServiceInv
<1>4. QED
  BY <1>2, <1>3 DEF ServiceInv

(* What a step does to the fate of events *)
LEMMA FatesKept ==
  ASSUME UNCHANGED <<received, dealt>>, \A e \in Event : Owed(e)' <=> Owed(e)
  PROVE  Fates' = Fates
<1>1. \A e \in Event : FateOf(e)' = FateOf(e)
  BY DEF FateOf
<1>2. QED
  BY <1>1 DEF Fates

LEMMA FateMoved ==
  ASSUME NEW e \in Event, \A x \in Event \ {e} : FateOf(x)' = FateOf(x)
  PROVE  Fates' = [Fates EXCEPT ![e] = FateOf(e)']
<1>1. Fates = [x \in Event |-> FateOf(x)] /\ Fates' = [x \in Event |-> FateOf(x)']
  BY DEF Fates
<1>2. QED
  BY <1>1

LEMMA FateType == \A e \in Event : Fates[e] = FateOf(e)
  BY DEF Fates

DeliveryVars == <<Fates, acked, Troubles>>

(* Trouble in which nothing is forgotten *)
LEMMA NothingForgotten ==
  ASSUME Fates' = Fates, acked' = acked, Troubles' = Troubles + 1
  PROVE  Delivery!Forget({})
<1>1. Fates = [e \in Event |-> Fates[e]]
  BY DEF Fates
<1>2. QED
  BY <1>1 DEF Delivery!Forget

LEMMA DeliveryInit == ServiceInit => Delivery!Init
<1> SUFFICES ASSUME ServiceInit
             PROVE  Delivery!Init
  OBVIOUS
<1>1. \A e \in Event : FateOf(e) = "unheard"
  BY DEF ServiceInit, Init, Idle, FateOf, Owed, AwaitsDispatch
<1>2. Fates = [e \in Event |-> "unheard"]
  BY <1>1 DEF Fates
<1>3. acked = {} /\ Troubles = 0
  BY DEF ServiceInit, Init, Troubles, FaultKind
<1>4. QED
  BY <1>2, <1>3 DEF Delivery!Init

(* Record: the event is heard of. *)
LEMMA RecordHears ==
  ASSUME ServiceInv, NEW h \in Handler, Record(h),
         UNCHANGED <<looking, running, dealt, stops, mishaps>>
  PROVE  \E e \in Event : Delivery!Hear(e)
<1>1. handler[h].at = "record" /\ Goto(h, "dispatch") /\ TypeOK
  BY DEF Record, ServiceInv
<1>e. PICK e \in Event : e = Of(h)
  BY <1>1 DEF TypeOK, Of
<1>2. /\ \A g \in Handler \ {h} : handler'[g] = handler[g]
      /\ handler'[h] = [at |-> "dispatch", event |-> e]
  <2>1. handler[h].at # "idle" /\ "dispatch" \in At \ {"idle"}
    BY <1>1 DEF At
  <2>2. QED
    BY <1>1, <1>e, <2>1, GotoType, Zenon
<1>3. FateOf(e)' = IF FateOf(e) = "dealt" THEN "dealt" ELSE "owed"
  <2>1. AwaitsDispatch(e)'
    BY <1>2 DEF AwaitsDispatch
  <2>2. QED
    BY <2>1 DEF FateOf, Owed
<1>4. \A x \in Event \ {e} : FateOf(x)' = FateOf(x)
  <2> SUFFICES ASSUME NEW x \in Event \ {e}
               PROVE  FateOf(x)' = FateOf(x)
    OBVIOUS
  <2>1. \A g \in Handler : handler'[g] = [at |-> "dispatch", event |-> x]
                          <=> handler[g] = [at |-> "dispatch", event |-> x]
    <3>1. handler'[h] # [at |-> "dispatch", event |-> x]
      BY <1>2
    <3>2. handler[h] # [at |-> "dispatch", event |-> x]
      BY <1>1
    <3>3. QED
      BY <1>2, <3>1, <3>2
  <2>2. AwaitsDispatch(x)' <=> AwaitsDispatch(x)
    BY <2>1 DEF AwaitsDispatch
  <2>3. received'[x] = received[x]
    BY <1>1, <1>e DEF Record, TypeOK
  <2>4. QED
    BY <2>2, <2>3 DEF FateOf, Owed
<1>5. Fates' = [Fates EXCEPT ![e] = IF Fates[e] = "dealt" THEN "dealt" ELSE "owed"]
  BY <1>3, <1>4, FateMoved, FateType
<1>6. acked' = acked /\ Troubles' = Troubles
  BY DEF Record, Troubles
<1>7. QED
  BY <1>5, <1>6 DEF Delivery!Hear

(* The handler hands what it owes to the dispatch it starts. *)
LEMMA GoDispatchHandsOver ==
  ASSUME ServiceInv, NEW h \in Handler, GoDispatch(h)
  PROVE  Fates' = Fates
<1>1. /\ handler[h].at = "dispatch" /\ Goto(h, "ok") /\ TypeOK
      /\ UNCHANGED <<received, running, dealt>>
  BY DEF GoDispatch, StartDispatch, ServiceInv
<1>2. looking \in [Event -> Nat]
  BY DEF ServiceInv, ServiceTypeOK
<1>3. PICK e \in Event : e = Of(h)
  BY <1>1 DEF TypeOK, Of
<1>4. handler[h] = [at |-> "dispatch", event |-> e]
  BY <1>1, <1>3 DEF TypeOK, Of
<1>5. looking' = [looking EXCEPT ![e] = looking[e] + 1]
  BY <1>3 DEF GoDispatch
<1>6. /\ \A g \in Handler \ {h} : handler'[g] = handler[g]
      /\ handler'[h] = [at |-> "ok", event |-> e]
  <2>1. handler[h].at # "idle" /\ "ok" \in At \ {"idle"}
    BY <1>1 DEF At
  <2>2. QED
    BY <1>1, <1>3, <2>1, GotoType, Zenon
<1>7. Owed(e) /\ Owed(e)'
  BY <1>2, <1>4, <1>5 DEF Owed, AwaitsDispatch
<1>8. \A x \in Event \ {e} : Owed(x)' <=> Owed(x)
  <2> SUFFICES ASSUME NEW x \in Event \ {e}
               PROVE  Owed(x)' <=> Owed(x)
    OBVIOUS
  <2>1. \A g \in Handler : handler'[g] = [at |-> "dispatch", event |-> x]
                          <=> handler[g] = [at |-> "dispatch", event |-> x]
    <3>1. handler'[h] # [at |-> "dispatch", event |-> x]
      BY <1>6
    <3>2. handler[h] # [at |-> "dispatch", event |-> x]
      BY <1>4
    <3>3. QED
      BY <1>6, <3>1, <3>2
  <2>2. AwaitsDispatch(x)' <=> AwaitsDispatch(x)
    BY <2>1 DEF AwaitsDispatch
  <2>3. QED
    BY <1>1, <1>2, <1>5, <2>2 DEF Owed
<1>9. QED
  BY <1>1, <1>7, <1>8, FatesKept

(* A dispatch that ends well has dealt with its event. *)
LEMMA DealtWith ==
  ASSUME ServiceInv, NEW e \in Event, looking[e] > 0 \/ running[e] > 0,
         dealt' = dealt \cup {e}, UNCHANGED <<received, handler>>,
         \A x \in Event \ {e} : looking'[x] = looking[x] /\ running'[x] = running[x]
  PROVE  Fates' = Fates \/ (Fates[e] = "owed" /\ Fates' = [Fates EXCEPT ![e] = "dealt"])
<1>1. \A x \in Event \ {e} : FateOf(x)' = FateOf(x)
  BY DEF FateOf, Owed, AwaitsDispatch
<1>2. FateOf(e)' = "dealt" /\ FateOf(e) \in {"dealt", "owed"}
  BY DEF FateOf, Owed
<1>3. Fates' = [Fates EXCEPT ![e] = "dealt"]
  BY <1>1, <1>2, FateMoved
<1>4. CASE FateOf(e) = "dealt"
  BY <1>3, <1>4 DEF Fates
<1>5. CASE FateOf(e) = "owed"
  BY <1>3, <1>5, FateType
<1>6. QED
  BY <1>2, <1>4, <1>5

(* Trouble forgets the event of one dispatch at most. *)
LEMMA GiveUpForgets ==
  ASSUME ServiceInv, NEW e \in Event, GiveUp(e)
  PROVE  \E events \in SUBSET Event : Delivery!Forget(events)
<1>1. /\ acked' = acked /\ UNCHANGED <<received, handler, dealt>>
      /\ looking[e] > 0 \/ running[e] > 0
  BY DEF GiveUp, vars
<1>2. \A x \in Event \ {e} : looking'[x] = looking[x] /\ running'[x] = running[x]
  BY DEF GiveUp, ServiceInv, ServiceTypeOK
<1>3. Troubles' = Troubles + 1
  BY DEF GiveUp, Mishap, vars, lifeVars, Troubles, ServiceInv, TypeOK, ServiceTypeOK, FaultKind
<1>4. received[e] > 0
  BY <1>1 DEF ServiceInv, OwedIsRecorded
<1>5. \A x \in Event \ {e} : FateOf(x)' = FateOf(x)
  BY <1>1, <1>2 DEF FateOf, Owed, AwaitsDispatch
<1>6. Fates' = [Fates EXCEPT ![e] = FateOf(e)']
  BY <1>5, FateMoved
<1>7. CASE FateOf(e)' = FateOf(e)
  <2>1. Fates' = Fates
    BY <1>6, <1>7 DEF Fates
  <2>2. QED
    BY <1>1, <1>3, <2>1, NothingForgotten
<1>8. CASE FateOf(e)' # FateOf(e)
  <2>1. FateOf(e) = "owed" /\ FateOf(e)' = "forgotten"
    BY <1>1, <1>4, <1>8 DEF FateOf, Owed
  <2>2. Fates[e] = "owed"
    BY <2>1, FateType
  <2>3. Fates' = [x \in Event |-> IF x \in {e} THEN "forgotten" ELSE Fates[x]]
    BY <1>6, <2>1 DEF Fates
  <2>4. Delivery!Forget({e})
    BY <1>1, <1>3, <2>2, <2>3 DEF Delivery!Forget
  <2>5. QED
    BY <2>4
<1>9. QED
  BY <1>7, <1>8

(* The end of the process forgets whatever it still owed. *)
LEMMA GoneForgets ==
  ASSUME ServiceInv, Gone, UNCHANGED <<received, acked>>, Troubles' = Troubles + 1,
         \A h \in Handler : handler'[h] = Idle
  PROVE  \E events \in SUBSET Event : Delivery!Forget(events)
<1> DEFINE owing == {e \in Event : FateOf(e) = "owed"}
<1>1. \A e \in Event : ~Owed(e)'
  BY DEF Gone, Owed, AwaitsDispatch, Idle
<1>2. \A e \in Event : Owed(e) => received[e] > 0
  BY DEF ServiceInv, OwedIsRecorded, Owed, AwaitsDispatch, Served
<1>3. \A e \in Event : FateOf(e)' = IF FateOf(e) = "owed" THEN "forgotten" ELSE FateOf(e)
  BY <1>1, <1>2 DEF Gone, FateOf
<1>4. \A e \in owing : Fates[e] = "owed"
  BY FateType
<1>5. Fates' = [e \in Event |-> IF e \in owing THEN "forgotten" ELSE Fates[e]]
  BY <1>3, FateType DEF Fates
<1>6. Delivery!Forget(owing)
  BY <1>4, <1>5 DEF Delivery!Forget
<1>7. QED
  BY <1>6

(* An acknowledged event has been heard of. *)
LEMMA AnswerAcknowledges ==
  ASSUME ServiceInv, NEW h \in Handler, Answer(h), Fates' = Fates, Troubles' = Troubles
  PROVE  (\E e \in Event : Delivery!Acknowledge(e)) \/ UNCHANGED DeliveryVars
<1>1. CASE handler[h].at = "ok"
  <2>1. Of(h) \in Event /\ received[Of(h)] > 0
    BY <1>1 DEF ServiceInv, TypeOK, Served, Of
  <2>2. Fates[Of(h)] # "unheard"
    BY <2>1, FateType DEF FateOf
  <2>3. acked' = acked \cup {Of(h)}
    BY <1>1 DEF Answer
  <2>4. Delivery!Acknowledge(Of(h))
    BY <2>2, <2>3 DEF Delivery!Acknowledge
  <2>5. QED
    BY <2>1, <2>4
<1>2. CASE handler[h].at # "ok"
  BY <1>2 DEF Answer, DeliveryVars
<1>3. QED
  BY <1>1, <1>2

LEMMA DeliveryStep ==
  ServiceInv /\ [ServiceNext]_serviceVars => [Delivery!Next]_DeliveryVars
<1> SUFFICES ASSUME ServiceInv, [ServiceNext]_serviceVars
             PROVE  Delivery!Next \/ UNCHANGED DeliveryVars
  OBVIOUS
<1>a. /\ faults["restart"] \in Nat /\ stops \in Nat /\ mishaps \in Nat
      /\ looking \in [Event -> Nat] /\ running \in [Event -> Nat]
  BY DEF ServiceInv, TypeOK, ServiceTypeOK, FaultKind
<1>b. ASSUME UNCHANGED vars, UNCHANGED dispatchVars
      PROVE  Fates' = Fates /\ acked' = acked /\ faults' = faults
  BY <1>b, FatesKept DEF vars, dispatchVars, Owed, AwaitsDispatch
<1>c. ASSUME UNCHANGED vars, UNCHANGED dispatchVars, stops' = stops, Mishap
      PROVE  Delivery!Next
  <2>1. Fates' = Fates /\ acked' = acked /\ faults' = faults
    BY <1>b, <1>c
  <2>2. Troubles' = Troubles + 1
    BY <1>a, <1>c, <2>1 DEF Troubles, Mishap
  <2>3. QED
    BY <2>1, <2>2, NothingForgotten DEF Delivery!Next
<1>d. ASSUME UNCHANGED vars, UNCHANGED dispatchVars, stops' = stops, mishaps' = mishaps
      PROVE  UNCHANGED DeliveryVars
  BY <1>b, <1>d DEF DeliveryVars, Troubles
<1>1. CASE StartUp \/ Listen \/ Heartbeat \/ Lapse \/ Signal
  BY <1>1, <1>d DEF StartUp, BringUp, Listen, Heartbeat, Lapse, Signal, lifeVars
<1>2. CASE StartUpUnregistered \/ StartUpFails
  BY <1>2, <1>c DEF StartUpUnregistered, BringUp, StartUpFails
<1>3. CASE Exit
  <2>1. UNCHANGED <<received, acked>> /\ \A h \in Handler : handler'[h] = Idle
    BY <1>3 DEF Exit, vars
  <2>2. Troubles' = Troubles + 1
    BY <1>3, <1>a DEF Exit, Gone, vars, Troubles
  <2>3. Gone
    BY <1>3 DEF Exit
  <2>4. QED
    BY <2>1, <2>2, <2>3, GoneForgets DEF Delivery!Next
<1>4. CASE Kill
  <2>1. UNCHANGED <<received, acked>> /\ \A h \in Handler : handler'[h] = Idle
    BY <1>4 DEF Kill, Restart
  <2>2. faults'["restart"] = faults["restart"] + 1
    BY <1>4, FaultType DEF Kill, Restart, FaultKind, ServiceInv
  <2>3. Troubles' = Troubles + 1
    BY <1>4, <1>a, <2>2 DEF Kill, Gone, Troubles
  <2>4. Gone
    BY <1>4 DEF Kill
  <2>5. QED
    BY <2>1, <2>3, <2>4, GoneForgets DEF Delivery!Next
<1>5. ASSUME NEW h \in Handler, Aside(h) \/ \E e \in Event : Push(h, e),
             UNCHANGED <<lifeVars, dispatchVars, mishaps>>
      PROVE  Fates' = Fates /\ Troubles' = Troubles
  <2>1. /\ \A e \in Event : AwaitsDispatch(e)' <=> AwaitsDispatch(e)
        /\ received' = received /\ faults'["restart"] = faults["restart"]
    BY <1>5, AsideKeeps DEF ServiceInv
  <2>2. Fates' = Fates
    BY <1>5, <2>1, FatesKept DEF Owed, dispatchVars
  <2>3. QED
    BY <1>5, <2>1, <2>2 DEF Troubles, lifeVars
<1>6. ASSUME NEW h \in Handler, NEW e \in Event, CrossPushes(h, e)
      PROVE  UNCHANGED DeliveryVars
  <2>1. Push(h, e) /\ UNCHANGED <<lifeVars, dispatchVars, mishaps>>
    BY <1>6 DEF CrossPushes
  <2>2. acked' = acked
    BY <2>1 DEF Push
  <2>3. QED
    BY <1>5, <2>1, <2>2 DEF DeliveryVars
<1>7. ASSUME NEW h \in Handler, Handle(h)
      PROVE  Delivery!Next \/ UNCHANGED DeliveryVars
  <2>1. UNCHANGED <<lifeVars, dispatchVars, mishaps>>
    BY <1>7 DEF Handle
  <2>2. CASE Record(h)
    BY <2>1, <2>2, RecordHears DEF Delivery!Next, lifeVars, dispatchVars
  <2>3. CASE Answer(h)
    <3>1. Fates' = Fates /\ Troubles' = Troubles
      BY <1>5, <2>1, <2>3 DEF Aside
    <3>2. QED
      BY <2>3, <3>1, AnswerAcknowledges DEF Delivery!Next
  <2>4. CASE Aside(h) /\ ~Answer(h)
    <3>1. Fates' = Fates /\ Troubles' = Troubles
      BY <1>5, <2>1, <2>4
    <3>2. acked' = acked
      BY <2>4 DEF Aside, Duplicate, FirstSeen, LookupFails, RecordFails, AnswerLost
    <3>3. QED
      BY <3>1, <3>2 DEF DeliveryVars
  <2>5. QED
    BY <1>7, <2>2, <2>3, <2>4 DEF Handle, Aside
<1>8. ASSUME NEW h \in Handler, GoDispatch(h)
      PROVE  UNCHANGED DeliveryVars
  <2>1. Fates' = Fates
    BY <1>8, GoDispatchHandsOver
  <2>2. QED
    BY <1>8, <2>1 DEF GoDispatch, StartDispatch, lifeVars, DeliveryVars, Troubles
<1>9. ASSUME NEW e \in Event, LookupMisses(e) \/ Complete(e) \/ SettleUnheard(e)
      PROVE  Delivery!Next \/ UNCHANGED DeliveryVars
  <2>1. /\ looking[e] > 0 \/ running[e] > 0
        /\ dealt' = dealt \cup {e}
        /\ UNCHANGED vars /\ UNCHANGED lifeVars /\ mishaps' = mishaps
    BY <1>9 DEF LookupMisses, Complete, SettleUnheard, Settled
  <2>2. \A x \in Event \ {e} : looking'[x] = looking[x] /\ running'[x] = running[x]
    BY <1>9, <1>a DEF LookupMisses, Complete, SettleUnheard, Settled
  <2>3. Fates' = Fates \/ (Fates[e] = "owed" /\ Fates' = [Fates EXCEPT ![e] = "dealt"])
    BY <2>1, <2>2, DealtWith DEF vars
  <2>4. acked' = acked /\ Troubles' = Troubles
    BY <2>1 DEF vars, lifeVars, Troubles
  <2>5. QED
    BY <2>3, <2>4 DEF Delivery!Next, Delivery!DealWith, DeliveryVars
<1>10. ASSUME NEW e \in Event, CreateJob(e)
       PROVE  UNCHANGED DeliveryVars
  <2>1. /\ UNCHANGED vars /\ UNCHANGED lifeVars /\ UNCHANGED <<dealt, mishaps>>
        /\ looking[e] > 0 /\ running'[e] > 0
        /\ \A x \in Event \ {e} : looking'[x] = looking[x] /\ running'[x] = running[x]
    BY <1>10, <1>a DEF CreateJob
  <2>2. \A x \in Event : Owed(x)' <=> Owed(x)
    BY <2>1 DEF Owed, AwaitsDispatch, vars
  <2>3. Fates' = Fates
    BY <2>1, <2>2, FatesKept DEF vars
  <2>4. QED
    BY <2>1, <2>3 DEF vars, lifeVars, DeliveryVars, Troubles
<1>11. ASSUME NEW e \in Event, GiveUp(e)
       PROVE  Delivery!Next
  BY <1>11, GiveUpForgets DEF Delivery!Next
<1>12. CASE UNCHANGED serviceVars
  BY <1>12, <1>d DEF serviceVars, lifeVars
<1>13. QED
  BY <1>1, <1>2, <1>3, <1>4, <1>6, <1>7, <1>8, <1>9, <1>10, <1>11, <1>12
     DEF ServiceNext, Start, HandlerStep, DispatchStep

(***************************************************************************)
(* The service implements EventDelivery: between the push and the end of   *)
(* the dispatch the event is always somewhere, in the handler or in a      *)
(* goroutine of Dispatch, and only the end of the process or a failing     *)
(* call can lose it; and no acknowledgement precedes that.                 *)
(***************************************************************************)
THEOREM Delivers == ServiceSpec => DeliverySpec
<1>1. ServiceSpec => []ServiceInv
  BY ServiceInvInit, ServiceInvStep, PTL DEF ServiceSpec
<1>2. [Delivery!Next]_DeliveryVars => [Delivery!Next]_<<Fates, acked, Troubles>>
  BY DEF DeliveryVars
<1>3. QED
  BY <1>1, <1>2, DeliveryInit, DeliveryStep, PTL DEF ServiceSpec, DeliverySpec, Delivery!Spec

\* No event is forgotten without trouble, and none is acknowledged unheard.
NothingLost ==
    /\ Troubles = 0 => \A e \in Event : FateOf(e) # "forgotten"
    /\ \A e \in acked \cap Event : FateOf(e) # "unheard"

LEMMA NothingLostStep ==
  ServiceInv /\ NothingLost /\ [Delivery!Next]_DeliveryVars => NothingLost'
<1> SUFFICES ASSUME ServiceInv, NothingLost, [Delivery!Next]_DeliveryVars
             PROVE  NothingLost'
  OBVIOUS
<1>1. Troubles \in Nat
  BY DEF ServiceInv, TypeOK, ServiceTypeOK, FaultKind, Troubles
<1>2. \A e \in Event : Fates[e] = FateOf(e) /\ Fates'[e] = FateOf(e)'
  BY DEF Fates
<1>3. Fates = [e \in Event |-> FateOf(e)]
  BY DEF Fates
<1> HIDE DEF NothingLost
<1>4. ASSUME NEW e \in Event, Delivery!Hear(e)
      PROVE  NothingLost'
  BY <1>2, <1>3, <1>4 DEF NothingLost, Delivery!Hear
<1>5. ASSUME NEW e \in Event, Delivery!DealWith(e)
      PROVE  NothingLost'
  BY <1>2, <1>3, <1>5 DEF NothingLost, Delivery!DealWith
<1>6. ASSUME NEW e \in Event, Delivery!Acknowledge(e)
      PROVE  NothingLost'
  BY <1>2, <1>6 DEF NothingLost, Delivery!Acknowledge
<1>7. ASSUME NEW events \in SUBSET Event, Delivery!Forget(events)
      PROVE  NothingLost'
  BY <1>1, <1>2, <1>7 DEF NothingLost, Delivery!Forget
<1>8. CASE UNCHANGED DeliveryVars
  BY <1>2, <1>8 DEF NothingLost, DeliveryVars
<1>9. QED
  BY <1>4, <1>5, <1>6, <1>7, <1>8 DEF Delivery!Next

(***************************************************************************)
(* Without trouble no event is lost: what Cross holds an acknowledgement   *)
(* for is being dispatched or has been dealt with (event_receiver.go       *)
(* acknowledges before the dispatch has done anything).                    *)
(***************************************************************************)
THEOREM NoEventLost == ServiceSpec => []NothingLost
<1>1. ServiceInit => NothingLost
  BY DEF ServiceInit, Init, Idle, FateOf, Owed, AwaitsDispatch, NothingLost
<1>2. ServiceInv /\ NothingLost /\ [ServiceNext]_serviceVars => NothingLost'
  BY DeliveryStep, NothingLostStep
<1>3. QED
  BY <1>1, <1>2, ServiceInvInit, ServiceInvStep, PTL DEF ServiceSpec
===============================================================================
