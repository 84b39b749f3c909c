-------------------------- MODULE EventReceiver_proofs --------------------------
(***************************************************************************)
(* EventReceiver for any events, any finite number of handlers and any     *)
(* number of faults.                                                       *)
(***************************************************************************)
EXTENDS EventReceiver, FiniteSetTheorems, TLAPS

LEMMA StepCases ==
  ASSUME Next
  PROVE  \/ \E h \in Handler :
              \/ \E e \in Event : Push(h, e)
              \/ Duplicate(h) \/ FirstSeen(h) \/ LookupFails(h)
              \/ Record(h) \/ RecordFails(h) \/ StartDispatch(h)
              \/ Answer(h) \/ AnswerLost(h)
         \/ Restart
  BY DEF Next, NotifyEvent

LocalState == [at : At, event : Event \cup {NoEvent}]

(* Where a handler may go without forgetting its event. *)
LEMMA GotoType ==
  ASSUME TypeOK, NEW h \in Handler, handler[h].at # "idle",
         NEW at \in At \ {"idle"}, Goto(h, at)
  PROVE  /\ handler' \in [Handler -> LocalState]
         /\ \A g \in Handler : handler'[g].at = "idle" <=> handler'[g].event = NoEvent
         /\ handler'[h] = [at |-> at, event |-> Of(h)]
         /\ \A g \in Handler \ {h} : handler'[g] = handler[g]
         /\ Of(h) \in Event
<1> USE DEF TypeOK, LocalState, Goto, Of
<1>1. handler \in [Handler -> LocalState]
  OBVIOUS
<1>2. handler[h] \in LocalState /\ handler[h].event # NoEvent
  BY <1>1
<1>3. [handler[h] EXCEPT !.at = at] = [at |-> at, event |-> handler[h].event]
  BY <1>2
<1>4. handler' = [handler EXCEPT ![h] = [at |-> at, event |-> handler[h].event]]
  BY <1>1, <1>3
<1>5. [at |-> at, event |-> handler[h].event] \in LocalState
  BY <1>2
<1>6. handler' \in [Handler -> LocalState]
  BY <1>1, <1>4, <1>5
<1>7. handler'[h] = [at |-> at, event |-> handler[h].event]
  BY <1>1, <1>4
<1>8. \A g \in Handler \ {h} : handler'[g] = handler[g]
  BY <1>1, <1>4
<1>9. \A g \in Handler : handler'[g].at = "idle" <=> handler'[g].event = NoEvent
  <2> SUFFICES ASSUME NEW g \in Handler
               PROVE  handler'[g].at = "idle" <=> handler'[g].event = NoEvent
    OBVIOUS
  <2>1. CASE g = h
    BY <2>1, <1>2, <1>7
  <2>2. CASE g # h
    BY <2>2, <1>8
  <2>3. QED
    BY <2>1, <2>2
<1>10. QED
  BY <1>2, <1>6, <1>7, <1>8, <1>9

(* A handler whose push has been answered. *)
LEMMA DoneType ==
  ASSUME TypeOK, NEW h \in Handler, Done(h)
  PROVE  /\ handler' \in [Handler -> LocalState]
         /\ \A g \in Handler : handler'[g].at = "idle" <=> handler'[g].event = NoEvent
         /\ handler'[h] = Idle
         /\ \A g \in Handler \ {h} : handler'[g] = handler[g]
<1> USE DEF TypeOK, LocalState, Done, Idle, At
<1>1. Idle \in LocalState
  OBVIOUS
<1>2. handler' \in [Handler -> LocalState]
  BY <1>1
<1>3. handler'[h] = Idle /\ \A g \in Handler \ {h} : handler'[g] = handler[g]
  OBVIOUS
<1>4. \A g \in Handler : handler'[g].at = "idle" <=> handler'[g].event = NoEvent
  BY <1>3
<1>5. QED
  BY <1>2, <1>3, <1>4

(* A handler that was waiting takes a push. *)
LEMMA PushType ==
  ASSUME TypeOK, NEW h \in Handler, NEW e \in Event, Push(h, e)
  PROVE  /\ handler' \in [Handler -> LocalState]
         /\ \A g \in Handler : handler'[g].at = "idle" <=> handler'[g].event = NoEvent
         /\ handler'[h].at \in {"lookup", "record"}
         /\ \A g \in Handler \ {h} : handler'[g] = handler[g]
<1> USE ReceiverAssumption DEF TypeOK, LocalState, At
<1> DEFINE new == [at |-> IF e \in EventId THEN "lookup" ELSE "record", event |-> e]
<1>1. handler' = [handler EXCEPT ![h] = new]
  BY DEF Push
<1>2. new \in LocalState /\ new.at \in {"lookup", "record"} /\ new.event # NoEvent
  OBVIOUS
<1> HIDE DEF new
<1>3. handler' \in [Handler -> LocalState]
  BY <1>1, <1>2
<1>4. handler'[h] = new /\ \A g \in Handler \ {h} : handler'[g] = handler[g]
  BY <1>1
<1>5. \A g \in Handler : handler'[g].at = "idle" <=> handler'[g].event = NoEvent
  BY <1>2, <1>4
<1>6. QED
  BY <1>2, <1>3, <1>4, <1>5

LEMMA FaultType ==
  ASSUME TypeOK, NEW k \in FaultKind, Fault(k)
  PROVE  /\ faults' \in [FaultKind -> 0..MaxFaults]
         /\ faults'[k] = faults[k] + 1
         /\ \A i \in FaultKind \ {k} : faults'[i] = faults[i]
  BY ReceiverAssumption DEF TypeOK, Fault, FaultKind

LEMMA TypeInit == Init => TypeOK
  BY ReceiverAssumption DEF Init, TypeOK, Idle, At, FaultKind

LEMMA TypeStep == TypeOK /\ [Next]_vars => TypeOK'
<1> SUFFICES ASSUME TypeOK, [Next]_vars
             PROVE  TypeOK'
  OBVIOUS
<1> USE DEF LocalState
<1>1. ASSUME NEW h \in Handler, NEW e \in Event, Push(h, e)
      PROVE  TypeOK'
  BY <1>1, PushType DEF TypeOK, Push
<1>2. ASSUME NEW h \in Handler, Duplicate(h)
      PROVE  TypeOK'
  <2>1. handler[h].at # "idle" /\ Goto(h, "ok") /\ "ok" \in At \ {"idle"}
    BY <1>2 DEF Duplicate, At
  <2>2. QED
    BY <1>2, <2>1, GotoType DEF TypeOK, Duplicate
<1>3. ASSUME NEW h \in Handler, FirstSeen(h)
      PROVE  TypeOK'
  <2>1. handler[h].at # "idle" /\ Goto(h, "record") /\ "record" \in At \ {"idle"}
    BY <1>3 DEF FirstSeen, At
  <2>2. QED
    BY <1>3, <2>1, GotoType DEF TypeOK, FirstSeen
<1>4. ASSUME NEW h \in Handler, LookupFails(h)
      PROVE  TypeOK'
  <2>1. handler[h].at # "idle" /\ Goto(h, "record") /\ "record" \in At \ {"idle"}
    BY <1>4 DEF LookupFails, At
  <2>2. faults' \in [FaultKind -> 0..MaxFaults]
    BY <1>4, FaultType DEF LookupFails, FaultKind
  <2>3. QED
    BY <1>4, <2>1, <2>2, GotoType DEF TypeOK, LookupFails
<1>5. ASSUME NEW h \in Handler, Record(h)
      PROVE  TypeOK'
  <2>1. handler[h].at # "idle" /\ Goto(h, "dispatch") /\ "dispatch" \in At \ {"idle"}
    BY <1>5 DEF Record, At
  <2>2. Of(h) \in Event
    BY <2>1, GotoType
  <2>3. received' \in [Event -> Nat]
    BY <1>5, <2>2 DEF TypeOK, Record
  <2>4. QED
    BY <1>5, <2>1, <2>3, GotoType DEF TypeOK, Record
<1>6. ASSUME NEW h \in Handler, RecordFails(h)
      PROVE  TypeOK'
  <2>1. handler[h].at # "idle" /\ Goto(h, "error") /\ "error" \in At \ {"idle"}
    BY <1>6 DEF RecordFails, At
  <2>2. faults' \in [FaultKind -> 0..MaxFaults]
    BY <1>6, FaultType DEF RecordFails, FaultKind
  <2>3. QED
    BY <1>6, <2>1, <2>2, GotoType DEF TypeOK, RecordFails
<1>7. ASSUME NEW h \in Handler, StartDispatch(h)
      PROVE  TypeOK'
  <2>1. handler[h].at # "idle" /\ Goto(h, "ok") /\ "ok" \in At \ {"idle"}
    BY <1>7 DEF StartDispatch, At
  <2>2. Of(h) \in Event
    BY <2>1, GotoType
  <2>3. dispatched' \in [Event -> Nat]
    BY <1>7, <2>2 DEF TypeOK, StartDispatch
  <2>4. QED
    BY <1>7, <2>1, <2>3, GotoType DEF TypeOK, StartDispatch
<1>8. ASSUME NEW h \in Handler, Answer(h)
      PROVE  TypeOK'
  <2>1. Of(h) \in Event
    BY <1>8 DEF TypeOK, Answer, Of
  <2>2. acked' \subseteq Event
    BY <1>8, <2>1 DEF TypeOK, Answer
  <2>3. QED
    BY <1>8, <2>2, DoneType DEF TypeOK, Answer
<1>9. ASSUME NEW h \in Handler, AnswerLost(h)
      PROVE  TypeOK'
  <2>1. faults' \in [FaultKind -> 0..MaxFaults]
    BY <1>9, FaultType DEF AnswerLost, FaultKind
  <2>2. QED
    BY <1>9, <2>1, DoneType DEF TypeOK, AnswerLost
<1>10. CASE Restart
  <2>1. faults' \in [FaultKind -> 0..MaxFaults]
    BY <1>10, FaultType DEF Restart, FaultKind
  <2>2. QED
    BY <1>10, <2>1 DEF TypeOK, Restart, Idle, At
<1>11. CASE UNCHANGED vars
  BY <1>11 DEF TypeOK, vars
<1>12. QED
  BY StepCases, <1>1, <1>2, <1>3, <1>4, <1>5, <1>6, <1>7, <1>8, <1>9, <1>10, <1>11

(***************************************************************************)
(* Type correctness: the records, the dispatches and the handlers of       *)
(* NotifyEvent have their types, a handler has an event exactly while it   *)
(* handles a push, and the faults stay within their bound.                 *)
(***************************************************************************)
THEOREM TypeCorrect == Spec => []TypeOK
  BY TypeInit, TypeStep, PTL DEF Spec

-----------------------------------------------------------------------------
(* A handler that is past the write has written: AckedIsRecorded follows an
   acknowledgement back to the record. *)
Served ==
    \A h \in Handler : handler[h].at \in {"dispatch", "ok"} => received[handler[h].event] > 0

RecordInv == TypeOK /\ Served /\ AckedIsRecorded

(* A step of one handler keeps Served if it takes no record away and its handler, if
   it gets past the write, has a record. *)
LEMMA ServedKept ==
  ASSUME TypeOK, Served, NEW h \in Handler,
         \A g \in Handler \ {h} : handler'[g] = handler[g],
         \A e \in Event : received[e] > 0 => received'[e] > 0,
         handler'[h].at \in {"dispatch", "ok"} => received'[handler'[h].event] > 0
  PROVE  Served'
<1> SUFFICES ASSUME NEW g \in Handler, handler'[g].at \in {"dispatch", "ok"}
             PROVE  received'[handler'[g].event] > 0
  BY DEF Served
<1>1. CASE g = h
  BY <1>1
<1>2. CASE g # h
  <2>1. handler'[g] = handler[g]
    BY <1>2
  <2>2. handler[g].event \in Event
    BY <2>1 DEF TypeOK
  <2>3. QED
    BY <2>1, <2>2 DEF Served
<1>3. QED
  BY <1>1, <1>2

LEMMA RecordInvStep == RecordInv /\ [Next]_vars => Served' /\ AckedIsRecorded'
<1> SUFFICES ASSUME TypeOK, Served, AckedIsRecorded, [Next]_vars
             PROVE  Served' /\ AckedIsRecorded'
  BY DEF RecordInv
<1>1. ASSUME NEW h \in Handler, NEW e \in Event, Push(h, e)
      PROVE  Served' /\ AckedIsRecorded'
  <2>1. /\ received' = received /\ acked' = acked
        /\ \A g \in Handler \ {h} : handler'[g] = handler[g]
        /\ handler'[h].at \notin {"dispatch", "ok"}
    BY <1>1, PushType DEF Push
  <2>2. QED
    BY <2>1, ServedKept DEF AckedIsRecorded
<1>2. ASSUME NEW h \in Handler, NEW at \in At \ {"idle"}, Goto(h, at),
             handler[h].at # "idle", UNCHANGED <<received, acked>>,
             at \in {"dispatch", "ok"} => received[Of(h)] > 0
      PROVE  Served' /\ AckedIsRecorded'
  <2>1. /\ \A g \in Handler \ {h} : handler'[g] = handler[g]
        /\ handler'[h] = [at |-> at, event |-> Of(h)]
    BY <1>2, GotoType, Zenon
  <2>2. handler'[h].at = at /\ handler'[h].event = Of(h)
    BY <2>1
  <2>3. QED
    BY <1>2, <2>1, <2>2, ServedKept DEF AckedIsRecorded
<1>3. ASSUME NEW h \in Handler, Duplicate(h)
      PROVE  Served' /\ AckedIsRecorded'
  BY <1>3, <1>2 DEF Duplicate, At
<1>4. ASSUME NEW h \in Handler, FirstSeen(h)
      PROVE  Served' /\ AckedIsRecorded'
  BY <1>4, <1>2 DEF FirstSeen, At
<1>5. ASSUME NEW h \in Handler, LookupFails(h)
      PROVE  Served' /\ AckedIsRecorded'
  BY <1>5, <1>2 DEF LookupFails, At
<1>6. ASSUME NEW h \in Handler, RecordFails(h)
      PROVE  Served' /\ AckedIsRecorded'
  BY <1>6, <1>2 DEF RecordFails, At
<1>7. ASSUME NEW h \in Handler, StartDispatch(h)
      PROVE  Served' /\ AckedIsRecorded'
  BY <1>7, <1>2 DEF StartDispatch, At, Served, Of
<1>8. ASSUME NEW h \in Handler, Record(h)
      PROVE  Served' /\ AckedIsRecorded'
  <2>1. handler[h].at # "idle" /\ Goto(h, "dispatch") /\ "dispatch" \in At \ {"idle"}
    BY <1>8 DEF Record, At
  <2>2. /\ \A g \in Handler \ {h} : handler'[g] = handler[g]
        /\ handler'[h] = [at |-> "dispatch", event |-> Of(h)] /\ Of(h) \in Event
    BY <2>1, GotoType, Zenon
  <2>3. /\ \A e \in Event : received[e] > 0 => received'[e] > 0
        /\ received'[Of(h)] > 0
    BY <1>8, <2>2 DEF TypeOK, Record
  <2>4. Served'
    BY <2>2, <2>3, ServedKept
  <2>5. AckedIsRecorded'
    BY <1>8, <2>3 DEF AckedIsRecorded, TypeOK, Record
  <2>6. QED
    BY <2>4, <2>5
<1>9. ASSUME NEW h \in Handler, Done(h), UNCHANGED received
      PROVE  Served'
  <2>1. /\ \A g \in Handler \ {h} : handler'[g] = handler[g]
        /\ handler'[h].at \notin {"dispatch", "ok"}
    BY <1>9, DoneType DEF Idle
  <2>2. QED
    BY <1>9, <2>1, ServedKept
<1>10. ASSUME NEW h \in Handler, Answer(h)
       PROVE  Served' /\ AckedIsRecorded'
  <2>1. Served'
    BY <1>10, <1>9 DEF Answer
  <2>2. AckedIsRecorded'
    BY <1>10 DEF AckedIsRecorded, Served, Answer, Of
  <2>3. QED
    BY <2>1, <2>2
<1>11. ASSUME NEW h \in Handler, AnswerLost(h)
       PROVE  Served' /\ AckedIsRecorded'
  BY <1>11, <1>9 DEF AnswerLost, AckedIsRecorded
<1>12. CASE Restart
  BY <1>12 DEF Restart, Idle, Served, AckedIsRecorded
<1>13. CASE UNCHANGED vars
  BY <1>13 DEF vars, Served, AckedIsRecorded
<1>14. QED
  BY StepCases, <1>1, <1>3, <1>4, <1>5, <1>6, <1>7, <1>8, <1>10, <1>11, <1>12, <1>13

(***************************************************************************)
(* What Cross holds an acknowledgement for has a ReceivedEvent record,     *)
(* whatever calls of NotifyEvent fail, answers get lost and restarts       *)
(* happen: the write comes before the answer on every path through it.     *)
(***************************************************************************)
THEOREM AckedRecorded == Spec => []AckedIsRecorded
<1>1. Init => RecordInv
  BY TypeInit DEF Init, RecordInv, Served, AckedIsRecorded, Idle
<1>2. RecordInv /\ [Next]_vars => RecordInv'
  BY TypeStep, RecordInvStep DEF RecordInv
<1>3. RecordInv => AckedIsRecorded
  BY DEF RecordInv
<1>4. QED
  BY <1>1, <1>2, <1>3, PTL DEF Spec
-----------------------------------------------------------------------------
(* The handlers that are about to start a dispatch of e *)
Pending(e) == {h \in Handler : handler[h] = [at |-> "dispatch", event |-> e]}

LEMMA PendingFinite ==
  \A e \in Event : /\ AboutToDispatch(e) = Cardinality(Pending(e))
                   /\ IsFiniteSet(Pending(e))
                   /\ AboutToDispatch(e) \in Nat
                   /\ AboutToDispatch(e) <= Cardinality(Handler)
                   /\ Cardinality(Handler) \in Nat
<1> SUFFICES ASSUME NEW e \in Event
             PROVE  /\ AboutToDispatch(e) = Cardinality(Pending(e))
                    /\ IsFiniteSet(Pending(e))
                    /\ AboutToDispatch(e) \in Nat
                    /\ AboutToDispatch(e) <= Cardinality(Handler)
                    /\ Cardinality(Handler) \in Nat
  OBVIOUS
<1>1. AboutToDispatch(e) = Cardinality(Pending(e))
  BY DEF AboutToDispatch, Pending
<1>2. Pending(e) \subseteq Handler /\ IsFiniteSet(Handler)
  BY ReceiverAssumption DEF Pending
<1>3. IsFiniteSet(Pending(e)) /\ Cardinality(Pending(e)) <= Cardinality(Handler)
  BY <1>2, FS_Subset
<1>4. Cardinality(Pending(e)) \in Nat /\ Cardinality(Handler) \in Nat
  BY <1>2, <1>3, FS_CardinalityType
<1>5. QED
  BY <1>1, <1>3, <1>4

(* A step of one handler that neither reaches nor leaves the dispatch. *)
LEMMA DispatchedKept ==
  ASSUME RecordsAreDispatched, NEW h \in Handler,
         \A g \in Handler \ {h} : handler'[g] = handler[g],
         handler[h].at # "dispatch", handler'[h].at # "dispatch",
         UNCHANGED <<received, dispatched>>, faults'["restart"] = faults["restart"]
  PROVE  RecordsAreDispatched'
<1>1. \A e \in Event : AboutToDispatch(e)' = AboutToDispatch(e)
  <2> SUFFICES ASSUME NEW e \in Event
               PROVE  AboutToDispatch(e)' = AboutToDispatch(e)
    OBVIOUS
  <2>1. \A g \in Handler : handler'[g] = [at |-> "dispatch", event |-> e]
                          <=> handler[g] = [at |-> "dispatch", event |-> e]
    <3>1. handler[h] # [at |-> "dispatch", event |-> e]
      OBVIOUS
    <3>2. handler'[h] # [at |-> "dispatch", event |-> e]
      OBVIOUS
    <3>3. QED
      BY <3>1, <3>2
  <2>2. {g \in Handler : handler'[g] = [at |-> "dispatch", event |-> e]}
          = {g \in Handler : handler[g] = [at |-> "dispatch", event |-> e]}
    BY <2>1
  <2>3. QED
    BY <2>2 DEF AboutToDispatch
<1>2. QED
  BY <1>1 DEF RecordsAreDispatched

LEMMA DispatchedStep ==
  TypeOK /\ RecordsAreDispatched /\ [Next]_vars => RecordsAreDispatched'
<1> SUFFICES ASSUME TypeOK, RecordsAreDispatched, [Next]_vars
             PROVE  RecordsAreDispatched'
  OBVIOUS
<1>1. ASSUME NEW h \in Handler, NEW e \in Event, Push(h, e)
      PROVE  RecordsAreDispatched'
  <2>1. \A g \in Handler \ {h} : handler'[g] = handler[g]
    BY <1>1, PushType
  <2>2. handler[h].at # "dispatch" /\ handler'[h].at # "dispatch"
    BY <1>1, PushType DEF Push, Idle
  <2>3. QED
    BY <1>1, <2>1, <2>2, DispatchedKept DEF Push
<1>2. ASSUME NEW h \in Handler, NEW at \in At \ {"idle", "dispatch"}, Goto(h, at),
             handler[h].at \notin {"idle", "dispatch"},
             UNCHANGED <<received, dispatched>>, faults'["restart"] = faults["restart"]
      PROVE  RecordsAreDispatched'
  <2>1. /\ \A g \in Handler \ {h} : handler'[g] = handler[g]
        /\ handler'[h] = [at |-> at, event |-> Of(h)]
    BY <1>2, GotoType, Zenon
  <2>2. handler'[h].at # "dispatch"
    BY <2>1
  <2>3. QED
    BY <1>2, <2>1, <2>2, DispatchedKept
<1>3. ASSUME NEW k \in FaultKind \ {"restart"}, Fault(k)
      PROVE  faults'["restart"] = faults["restart"]
  BY <1>3 DEF TypeOK, Fault, FaultKind
<1>4. ASSUME NEW h \in Handler, Duplicate(h)
      PROVE  RecordsAreDispatched'
  BY <1>4, <1>2 DEF Duplicate, At
<1>5. ASSUME NEW h \in Handler, FirstSeen(h)
      PROVE  RecordsAreDispatched'
  BY <1>5, <1>2 DEF FirstSeen, At
<1>6. ASSUME NEW h \in Handler, LookupFails(h)
      PROVE  RecordsAreDispatched'
  <2>1. faults'["restart"] = faults["restart"]
    BY <1>6, <1>3 DEF LookupFails, FaultKind
  <2>2. QED
    BY <1>6, <1>2, <2>1 DEF LookupFails, At
<1>7. ASSUME NEW h \in Handler, RecordFails(h)
      PROVE  RecordsAreDispatched'
  <2>1. faults'["restart"] = faults["restart"]
    BY <1>7, <1>3 DEF RecordFails, FaultKind
  <2>2. QED
    BY <1>7, <1>2, <2>1 DEF RecordFails, At
<1>8. ASSUME NEW h \in Handler, Record(h)
      PROVE  RecordsAreDispatched'
  <2>1. handler[h].at = "record" /\ Goto(h, "dispatch") /\ "dispatch" \in At \ {"idle"}
    BY <1>8 DEF Record, At
  <2>2. /\ \A g \in Handler \ {h} : handler'[g] = handler[g]
        /\ handler'[h] = [at |-> "dispatch", event |-> Of(h)] /\ Of(h) \in Event
    BY <2>1, GotoType, Zenon
  <2>3. ASSUME NEW e \in Event
        PROVE  AboutToDispatch(e)' = AboutToDispatch(e) + (IF e = Of(h) THEN 1 ELSE 0)
    <3>1. h \notin Pending(e)
      BY <2>1 DEF Pending
    <3>2. CASE e = Of(h)
      <4>1. Pending(e)' = Pending(e) \cup {h}
        BY <3>2, <2>2 DEF Pending
      <4>2. Cardinality(Pending(e) \cup {h}) = Cardinality(Pending(e)) + 1
        BY <3>1, PendingFinite, FS_AddElement
      <4>3. AboutToDispatch(e)' = Cardinality(Pending(e)')
        BY DEF AboutToDispatch, Pending
      <4>4. QED
        BY <3>2, <4>1, <4>2, <4>3, PendingFinite
    <3>3. CASE e # Of(h)
      <4>1. handler'[h] # [at |-> "dispatch", event |-> e]
        BY <3>3, <2>2
      <4>2. Pending(e)' = Pending(e)
        BY <3>1, <4>1, <2>2 DEF Pending
      <4>3. AboutToDispatch(e)' = Cardinality(Pending(e)')
        BY DEF AboutToDispatch, Pending
      <4>4. QED
        BY <3>3, <4>2, <4>3, PendingFinite
    <3>4. QED
      BY <3>2, <3>3
  <2>4. ASSUME NEW e \in Event
        PROVE  /\ received'[e] = received[e] + (IF e = Of(h) THEN 1 ELSE 0)
               /\ dispatched'[e] = dispatched[e] /\ faults' = faults
    BY <1>8, <2>2 DEF TypeOK, Record
  <2>5. QED
    <3> SUFFICES ASSUME NEW e \in Event
                 PROVE  /\ dispatched'[e] + AboutToDispatch(e)' <= received'[e]
                        /\ received'[e] <= dispatched'[e] + AboutToDispatch(e)'
                                             + faults'["restart"] * Cardinality(Handler)
      BY DEF RecordsAreDispatched
    <3> DEFINE lost == faults["restart"] * Cardinality(Handler)
    <3>1. faults["restart"] \in Nat /\ Cardinality(Handler) \in Nat
      BY ReceiverAssumption, PendingFinite DEF TypeOK, FaultKind
    <3>2. lost \in Nat /\ faults'["restart"] * Cardinality(Handler) = lost
      BY <2>4, <3>1
    <3> HIDE DEF lost
    <3>3. /\ dispatched[e] + AboutToDispatch(e) <= received[e]
          /\ received[e] <= dispatched[e] + AboutToDispatch(e) + lost
      BY DEF RecordsAreDispatched, lost
    <3>4. dispatched[e] \in Nat /\ received[e] \in Nat /\ AboutToDispatch(e) \in Nat
      BY PendingFinite DEF TypeOK
    <3>5. QED
      BY <2>3, <2>4, <3>2, <3>3, <3>4
<1>9. ASSUME NEW h \in Handler, StartDispatch(h)
      PROVE  RecordsAreDispatched'
  <2>1. handler[h].at = "dispatch" /\ Goto(h, "ok") /\ "ok" \in At \ {"idle"}
    BY <1>9 DEF StartDispatch, At
  <2>2. /\ \A g \in Handler \ {h} : handler'[g] = handler[g]
        /\ handler'[h] = [at |-> "ok", event |-> Of(h)] /\ Of(h) \in Event
    BY <2>1, GotoType, Zenon
  <2>3. handler[h] = [at |-> "dispatch", event |-> Of(h)]
    BY <2>1 DEF TypeOK, Of
  <2>4. ASSUME NEW e \in Event
        PROVE  AboutToDispatch(e) = AboutToDispatch(e)' + (IF e = Of(h) THEN 1 ELSE 0)
    <3>1. handler'[h] # [at |-> "dispatch", event |-> e]
      BY <2>2
    <3>2. AboutToDispatch(e)' = Cardinality(Pending(e)')
      BY DEF AboutToDispatch, Pending
    <3>3. CASE e = Of(h)
      <4>1. h \in Pending(e) /\ Pending(e)' = Pending(e) \ {h}
        BY <3>1, <3>3, <2>2, <2>3 DEF Pending
      <4>2. Cardinality(Pending(e) \ {h}) = Cardinality(Pending(e)) - 1
        BY <4>1, PendingFinite, FS_RemoveElement
      <4>3. QED
        BY <3>2, <3>3, <4>1, <4>2, PendingFinite
    <3>4. CASE e # Of(h)
      <4>1. handler[h] # [at |-> "dispatch", event |-> e]
        BY <3>4, <2>3
      <4>2. Pending(e)' = Pending(e)
        BY <3>1, <4>1, <2>2 DEF Pending
      <4>3. QED
        BY <3>2, <3>4, <4>2, PendingFinite
    <3>5. QED
      BY <3>3, <3>4
  <2>5. ASSUME NEW e \in Event
        PROVE  /\ dispatched'[e] = dispatched[e] + (IF e = Of(h) THEN 1 ELSE 0)
               /\ received'[e] = received[e] /\ faults' = faults
    BY <1>9, <2>2 DEF TypeOK, StartDispatch
  <2>6. QED
    <3> SUFFICES ASSUME NEW e \in Event
                 PROVE  /\ dispatched'[e] + AboutToDispatch(e)' <= received'[e]
                        /\ received'[e] <= dispatched'[e] + AboutToDispatch(e)'
                                             + faults'["restart"] * Cardinality(Handler)
      BY DEF RecordsAreDispatched
    <3> DEFINE before == AboutToDispatch(e)
               after == AboutToDispatch(e)'
               lost == faults["restart"] * Cardinality(Handler)
    <3>1. before = after + (IF e = Of(h) THEN 1 ELSE 0)
      BY <2>4
    <3>2. /\ dispatched[e] + before <= received[e]
          /\ received[e] <= dispatched[e] + before + lost
      BY DEF RecordsAreDispatched
    <3>3. lost \in Nat /\ faults'["restart"] * Cardinality(Handler) = lost
      <4>1. faults["restart"] \in Nat /\ Cardinality(Handler) \in Nat
        BY ReceiverAssumption, PendingFinite DEF TypeOK, FaultKind
      <4>2. QED
        BY <4>1, <2>5
    <3>4. dispatched[e] \in Nat /\ received[e] \in Nat /\ before \in Nat
      BY PendingFinite DEF TypeOK
    <3>5. after \in Nat
      <4>1. IsFiniteSet(Pending(e)')
        <5>1. Pending(e)' \subseteq Handler /\ IsFiniteSet(Handler)
          BY ReceiverAssumption DEF Pending
        <5>2. QED
          BY <5>1, FS_Subset
      <4>2. after = Cardinality(Pending(e)')
        BY DEF AboutToDispatch, Pending
      <4>3. QED
        BY <4>1, <4>2, FS_CardinalityType
    <3> HIDE DEF before, after, lost
    <3>6. /\ dispatched'[e] + after <= received'[e]
          /\ received'[e] <= dispatched'[e] + after + lost
      BY <2>5, <3>1, <3>2, <3>3, <3>4, <3>5
    <3>7. QED
      BY <3>3, <3>6 DEF after
<1>10. ASSUME NEW h \in Handler, Done(h), handler[h].at # "dispatch",
              UNCHANGED <<received, dispatched>>, faults'["restart"] = faults["restart"]
       PROVE  RecordsAreDispatched'
  <2>1. \A g \in Handler \ {h} : handler'[g] = handler[g]
    BY <1>10, DoneType
  <2>2. handler'[h].at # "dispatch"
    BY <1>10, DoneType DEF Idle
  <2>3. QED
    BY <1>10, <2>1, <2>2, DispatchedKept
<1>11. ASSUME NEW h \in Handler, Answer(h)
       PROVE  RecordsAreDispatched'
  BY <1>11, <1>10 DEF Answer
<1>12. ASSUME NEW h \in Handler, AnswerLost(h)
       PROVE  RecordsAreDispatched'
  <2>1. faults'["restart"] = faults["restart"]
    BY <1>12, <1>3 DEF AnswerLost, FaultKind
  <2>2. QED
    BY <1>12, <1>10, <2>1 DEF AnswerLost
<1>13. CASE Restart
  <2> SUFFICES ASSUME NEW e \in Event
               PROVE  /\ dispatched'[e] + AboutToDispatch(e)' <= received'[e]
                      /\ received'[e] <= dispatched'[e] + AboutToDispatch(e)'
                                           + faults'["restart"] * Cardinality(Handler)
    BY DEF RecordsAreDispatched
  <2>1. AboutToDispatch(e)' = 0
    <3>1. Pending(e)' = {}
      BY <1>13 DEF Restart, Pending, Idle
    <3>2. AboutToDispatch(e)' = Cardinality(Pending(e)')
      BY DEF AboutToDispatch, Pending
    <3>3. QED
      BY <3>1, <3>2, FS_EmptySet
  <2>2. /\ faults["restart"] \in Nat
        /\ faults'["restart"] = faults["restart"] + 1
        /\ received' = received /\ dispatched' = dispatched
    <3>1. faults["restart"] \in Nat
      BY ReceiverAssumption DEF TypeOK, FaultKind
    <3>2. faults'["restart"] = faults["restart"] + 1
      BY <1>13, FaultType DEF Restart, FaultKind
    <3>3. QED
      BY <1>13, <3>1, <3>2 DEF Restart
  <2>3. /\ dispatched[e] \in Nat /\ received[e] \in Nat
        /\ AboutToDispatch(e) \in Nat /\ Cardinality(Handler) \in Nat
        /\ AboutToDispatch(e) <= Cardinality(Handler)
    BY PendingFinite DEF TypeOK
  <2> DEFINE lost == faults["restart"] * Cardinality(Handler)
  <2>4. lost \in Nat /\ (faults["restart"] + 1) * Cardinality(Handler) = lost + Cardinality(Handler)
    <3>1. \A m, n \in Nat : m * n \in Nat /\ (m + 1) * n = m * n + n
      OBVIOUS
    <3>2. QED
      BY <2>2, <2>3, <3>1
  <2>5. /\ dispatched[e] + AboutToDispatch(e) <= received[e]
        /\ received[e] <= dispatched[e] + AboutToDispatch(e) + lost
    BY DEF RecordsAreDispatched
  <2>6. faults'["restart"] * Cardinality(Handler) = lost + Cardinality(Handler)
    BY <2>2, <2>4
  <2> HIDE DEF lost
  <2>7. QED
    BY <2>1, <2>2, <2>3, <2>4, <2>5, <2>6
<1>14. CASE UNCHANGED vars
  BY <1>14 DEF vars, RecordsAreDispatched, AboutToDispatch
<1>15. QED
  BY StepCases, <1>1, <1>4, <1>5, <1>6, <1>7, <1>8, <1>9, <1>11, <1>12, <1>13, <1>14

(***************************************************************************)
(* Every ReceivedEvent record leads to exactly one call of Dispatch, but   *)
(* for what a restart cuts off between NotifyEvent's write and its go      *)
(* statement: at most one dispatch per handler and restart.                *)
(***************************************************************************)
THEOREM RecordsDispatched == Spec => []RecordsAreDispatched
<1>1. Init => RecordsAreDispatched
  <2> SUFFICES ASSUME Init, NEW e \in Event
               PROVE  /\ dispatched[e] + AboutToDispatch(e) <= received[e]
                      /\ received[e] <= dispatched[e] + AboutToDispatch(e)
                                          + faults["restart"] * Cardinality(Handler)
    BY DEF RecordsAreDispatched
  <2>1. Pending(e) = {}
    BY DEF Init, Pending, Idle
  <2>2. AboutToDispatch(e) = 0
    BY <2>1, PendingFinite, FS_EmptySet
  <2>3. received[e] = 0 /\ dispatched[e] = 0 /\ faults["restart"] = 0
    BY DEF Init, FaultKind
  <2>4. Cardinality(Handler) \in Nat
    BY PendingFinite
  <2>5. QED
    BY <2>2, <2>3, <2>4
<1>2. QED
  BY <1>1, TypeInit, TypeStep, DispatchedStep, PTL DEF Spec
-----------------------------------------------------------------------------
(* The handlers that are about to record e.  Once there is a record nobody joins them
   but by a search that fails, which is why DuplicatesAreBounded needs to count them. *)
Recording(e) == {h \in Handler : handler[h] = [at |-> "record", event |-> e]}
Bounded(e) ==
    received[e] > 0 =>
        received[e] + Cardinality(Recording(e)) <= Cardinality(Handler) + faults["lookup"]

LEMMA RecordingFinite ==
  \A e \in Event : /\ IsFiniteSet(Recording(e)) /\ Cardinality(Recording(e)) \in Nat
                   /\ Cardinality(Recording(e)) <= Cardinality(Handler)
                   /\ Cardinality(Handler) \in Nat
<1> SUFFICES ASSUME NEW e \in Event
             PROVE  /\ IsFiniteSet(Recording(e)) /\ Cardinality(Recording(e)) \in Nat
                    /\ Cardinality(Recording(e)) <= Cardinality(Handler)
                    /\ Cardinality(Handler) \in Nat
  OBVIOUS
<1>1. Recording(e) \subseteq Handler /\ IsFiniteSet(Handler)
  BY ReceiverAssumption DEF Recording
<1>2. QED
  BY <1>1, FS_Subset, FS_CardinalityType

LEMMA CountsType ==
  ASSUME TypeOK
  PROVE  /\ \A e \in Event : received[e] \in Nat
         /\ faults["lookup"] \in Nat
  BY ReceiverAssumption DEF TypeOK, FaultKind

(* A step of one handler that does not come to record e. *)
LEMMA BoundKept ==
  ASSUME TypeOK, NEW h \in Handler, NEW e \in EventId, Bounded(e),
         \A g \in Handler \ {h} : handler'[g] = handler[g],
         handler'[h] # [at |-> "record", event |-> e],
         received'[e] = received[e],
         faults'["lookup"] \in Nat, faults["lookup"] <= faults'["lookup"]
  PROVE  Bounded(e)'
<1>1. Recording(e)' \subseteq Recording(e)
  BY DEF Recording
<1>2. e \in Event
  BY DEF Event
<1>3. /\ Cardinality(Recording(e)') \in Nat
      /\ Cardinality(Recording(e)') <= Cardinality(Recording(e))
  BY <1>1, <1>2, RecordingFinite, FS_Subset, FS_CardinalityType
<1> DEFINE before == Cardinality(Recording(e))
           after == Cardinality(Recording(e)')
<1>4. before \in Nat /\ after \in Nat /\ after <= before /\ Cardinality(Handler) \in Nat
  BY <1>2, <1>3, RecordingFinite
<1>5. received[e] > 0 => received[e] + before <= Cardinality(Handler) + faults["lookup"]
  BY DEF Bounded
<1>6. received[e] \in Nat /\ faults["lookup"] \in Nat
  BY <1>2, CountsType
<1> HIDE DEF before, after
<1>7. received'[e] > 0 => received'[e] + after <= Cardinality(Handler) + faults'["lookup"]
  BY <1>4, <1>5, <1>6
<1>8. QED
  BY <1>7 DEF Bounded, after

LEMMA BoundStep ==
  TypeOK /\ [Next]_vars /\ (\A e \in EventId : Bounded(e)) => \A e \in EventId : Bounded(e)'
<1> SUFFICES ASSUME TypeOK, [Next]_vars, NEW e \in EventId, Bounded(e)
             PROVE  Bounded(e)'
  OBVIOUS
<1>1. e \in Event /\ e \notin Anonymous /\ faults["lookup"] \in Nat
  BY ReceiverAssumption, CountsType DEF Event
<1>2. ASSUME NEW h \in Handler, NEW a \in Event, Push(h, a)
      PROVE  Bounded(e)'
  <2>1. \A g \in Handler \ {h} : handler'[g] = handler[g]
    BY <1>2, PushType
  <2>2. handler'[h] = [at |-> IF a \in EventId THEN "lookup" ELSE "record", event |-> a]
    BY <1>2 DEF Push, TypeOK
  <2>3. handler'[h] # [at |-> "record", event |-> e]
    BY <2>2
  <2>4. received' = received /\ faults' = faults
    BY <1>2 DEF Push
  <2>5. QED
    BY <1>1, <2>1, <2>3, <2>4, BoundKept
<1>3. ASSUME NEW h \in Handler, NEW at \in At \ {"idle"}, Goto(h, at), handler[h].at # "idle",
             at = "record" => Of(h) # e,
             received' = received, faults'["lookup"] \in Nat,
             faults["lookup"] <= faults'["lookup"]
      PROVE  Bounded(e)'
  <2>1. /\ \A g \in Handler \ {h} : handler'[g] = handler[g]
        /\ handler'[h] = [at |-> at, event |-> Of(h)]
    BY <1>3, GotoType, Zenon
  <2>2. handler'[h] # [at |-> "record", event |-> e]
    BY <1>3, <2>1
  <2>3. received'[e] = received[e]
    BY <1>3
  <2>4. QED
    BY <1>3, <2>1, <2>2, <2>3, BoundKept
<1>4. ASSUME NEW k \in FaultKind, Fault(k)
      PROVE  /\ faults'["lookup"] \in Nat /\ faults["lookup"] <= faults'["lookup"]
             /\ k = "lookup" => faults'["lookup"] = faults["lookup"] + 1
  <2>1. faults'[k] = faults[k] + 1 /\ \A i \in FaultKind \ {k} : faults'[i] = faults[i]
    BY <1>4, FaultType
  <2>2. "lookup" \in FaultKind
    BY DEF FaultKind
  <2>3. QED
    BY <1>1, <2>1, <2>2
<1>5. ASSUME NEW h \in Handler, Duplicate(h)
      PROVE  Bounded(e)'
  BY <1>1, <1>5, <1>3 DEF Duplicate, At
<1>6. ASSUME NEW h \in Handler, RecordFails(h)
      PROVE  Bounded(e)'
  <2>1. faults'["lookup"] \in Nat /\ faults["lookup"] <= faults'["lookup"]
    BY <1>6, <1>4 DEF RecordFails, FaultKind
  <2>2. QED
    BY <1>6, <1>3, <2>1 DEF RecordFails, At
<1>7. ASSUME NEW h \in Handler, StartDispatch(h)
      PROVE  Bounded(e)'
  BY <1>1, <1>7, <1>3 DEF StartDispatch, At
<1>8. ASSUME NEW h \in Handler, FirstSeen(h)
      PROVE  Bounded(e)'
  <2>1. CASE Of(h) = e
    BY <1>8, <2>1 DEF FirstSeen, Bounded
  <2>2. CASE Of(h) # e
    BY <1>1, <1>8, <1>3, <2>2 DEF FirstSeen, At
  <2>3. QED
    BY <2>1, <2>2
<1>9. ASSUME NEW h \in Handler, LookupFails(h)
      PROVE  Bounded(e)'
  <2>1. faults'["lookup"] = faults["lookup"] + 1 /\ faults'["lookup"] \in Nat
    BY <1>1, <1>9, <1>4 DEF LookupFails, FaultKind
  <2>2. /\ handler[h].at = "lookup" /\ Goto(h, "record") /\ "record" \in At \ {"idle"}
        /\ received' = received
    BY <1>9 DEF LookupFails, At
  <2>3. CASE Of(h) # e
    BY <1>1, <1>3, <2>1, <2>2, <2>3
  <2>4. CASE Of(h) = e
    <3>1. /\ \A g \in Handler \ {h} : handler'[g] = handler[g]
          /\ handler'[h] = [at |-> "record", event |-> e]
      BY <2>2, <2>4, GotoType
    <3>2. h \notin Recording(e)
      BY <2>2 DEF Recording
    <3>3. Recording(e)' = Recording(e) \cup {h}
      BY <3>1 DEF Recording
    <3>4. Cardinality(Recording(e)') = Cardinality(Recording(e)) + 1
      BY <1>1, <3>2, <3>3, RecordingFinite, FS_AddElement
    <3>5. received[e] \in Nat /\ Cardinality(Recording(e)) \in Nat /\ Cardinality(Handler) \in Nat
      BY <1>1, CountsType, RecordingFinite
    <3> DEFINE before == Cardinality(Recording(e))
               after == Cardinality(Recording(e)')
    <3>6. received[e] > 0 => received[e] + before <= Cardinality(Handler) + faults["lookup"]
      BY DEF Bounded
    <3>7. after = before + 1 /\ before \in Nat
      BY <3>4, <3>5
    <3> HIDE DEF before, after
    <3>8. received'[e] > 0 => received'[e] + after <= Cardinality(Handler) + faults'["lookup"]
      BY <1>1, <2>1, <2>2, <3>5, <3>6, <3>7
    <3>9. QED
      BY <3>8 DEF Bounded, after
  <2>5. QED
    BY <2>3, <2>4
<1>10. ASSUME NEW h \in Handler, Record(h)
       PROVE  Bounded(e)'
  <2>1. /\ handler[h].at = "record" /\ Goto(h, "dispatch") /\ "dispatch" \in At \ {"idle"}
        /\ faults' = faults
    BY <1>10 DEF Record, At
  <2>2. /\ \A g \in Handler \ {h} : handler'[g] = handler[g]
        /\ handler'[h] = [at |-> "dispatch", event |-> Of(h)] /\ Of(h) \in Event
    BY <2>1, GotoType, Zenon
  <2>3. handler'[h] # [at |-> "record", event |-> e]
    BY <2>2
  <2>4. CASE Of(h) # e
    <3>1. received'[e] = received[e]
      BY <1>1, <1>10, <2>4 DEF Record, TypeOK
    <3>2. QED
      BY <1>1, <2>1, <2>2, <2>3, <3>1, BoundKept
  <2>5. CASE Of(h) = e
    <3>1. handler[h] = [at |-> "record", event |-> e]
      BY <2>1, <2>5 DEF TypeOK, Of
    <3>2. h \in Recording(e) /\ Recording(e)' = Recording(e) \ {h}
      BY <2>2, <2>3, <3>1 DEF Recording
    <3>3. Cardinality(Recording(e)') = Cardinality(Recording(e)) - 1
      BY <1>1, <3>2, RecordingFinite, FS_RemoveElement
    <3>4. received'[e] = received[e] + 1
      BY <1>1, <1>10, <2>5 DEF Record, TypeOK
    <3>5. /\ received[e] \in Nat /\ Cardinality(Recording(e)) \in Nat
          /\ Cardinality(Handler) \in Nat /\ Cardinality(Recording(e)) <= Cardinality(Handler)
      BY <1>1, CountsType, RecordingFinite
    <3> DEFINE before == Cardinality(Recording(e))
               after == Cardinality(Recording(e)')
    <3>6. received[e] > 0 => received[e] + before <= Cardinality(Handler) + faults["lookup"]
      BY DEF Bounded
    <3>7. after = before - 1 /\ before \in Nat /\ before <= Cardinality(Handler)
      BY <3>3, <3>5
    <3> HIDE DEF before, after
    <3>8. received'[e] + after <= Cardinality(Handler) + faults'["lookup"]
      BY <1>1, <2>1, <3>4, <3>5, <3>6, <3>7
    <3>9. QED
      BY <3>8 DEF Bounded, after
  <2>6. QED
    BY <2>4, <2>5
<1>11. ASSUME NEW h \in Handler, Done(h), received' = received,
              faults'["lookup"] \in Nat, faults["lookup"] <= faults'["lookup"]
       PROVE  Bounded(e)'
  <2>1. /\ \A g \in Handler \ {h} : handler'[g] = handler[g]
        /\ handler'[h] # [at |-> "record", event |-> e]
    BY <1>11, DoneType DEF Idle
  <2>2. received'[e] = received[e]
    BY <1>11
  <2>3. QED
    BY <1>11, <2>1, <2>2, BoundKept
<1>12. ASSUME NEW h \in Handler, Answer(h)
       PROVE  Bounded(e)'
  BY <1>1, <1>12, <1>11 DEF Answer
<1>13. ASSUME NEW h \in Handler, AnswerLost(h)
       PROVE  Bounded(e)'
  <2>1. faults'["lookup"] \in Nat /\ faults["lookup"] <= faults'["lookup"]
    BY <1>13, <1>4 DEF AnswerLost, FaultKind
  <2>2. QED
    BY <1>13, <1>11, <2>1 DEF AnswerLost
<1>14. CASE Restart
  <2>1. /\ faults'["lookup"] \in Nat /\ faults["lookup"] <= faults'["lookup"]
        /\ received' = received
    BY <1>14, <1>4 DEF Restart, FaultKind
  <2>2. Recording(e)' = {}
    BY <1>14 DEF Restart, Recording, Idle
  <2>3. Cardinality(Recording(e)') = 0
    BY <2>2, FS_EmptySet
  <2>4. /\ received[e] \in Nat /\ Cardinality(Recording(e)) \in Nat
        /\ Cardinality(Handler) \in Nat
    BY <1>1, CountsType, RecordingFinite
  <2>5. received[e] > 0 =>
           received[e] + Cardinality(Recording(e)) <= Cardinality(Handler) + faults["lookup"]
    BY DEF Bounded
  <2> DEFINE before == Cardinality(Recording(e))
             after == Cardinality(Recording(e)')
  <2>6. after = 0 /\ before \in Nat
    BY <2>3, <2>4
  <2>7. received[e] > 0 => received[e] + before <= Cardinality(Handler) + faults["lookup"]
    BY <2>5
  <2> HIDE DEF before, after
  <2>8. received'[e] > 0 => received'[e] + after <= Cardinality(Handler) + faults'["lookup"]
    BY <1>1, <2>1, <2>4, <2>6, <2>7
  <2>9. QED
    BY <2>8 DEF Bounded, after
<1>15. CASE UNCHANGED vars
  BY <1>15 DEF vars, Bounded, Recording
<1>16. QED
  BY StepCases, <1>2, <1>5, <1>6, <1>7, <1>8, <1>9, <1>10, <1>12, <1>13, <1>14, <1>15

(***************************************************************************)
(* However many pushes of an event overlap, NotifyEvent writes at most one *)
(* ReceivedEvent record for each that can be under way at once and one for *)
(* each search that failed.                                                *)
(***************************************************************************)
THEOREM DuplicatesBounded == Spec => []DuplicatesAreBounded
<1>1. Init => \A e \in EventId : Bounded(e)
  BY DEF Init, Bounded, Event
<1>2. TypeOK /\ (\A e \in EventId : Bounded(e)) => DuplicatesAreBounded
  <2> SUFFICES ASSUME TypeOK, NEW e \in EventId, Bounded(e)
               PROVE  received[e] <= Cardinality(Handler) + faults["lookup"]
    BY DEF DuplicatesAreBounded
  <2>1. /\ received[e] \in Nat /\ faults["lookup"] \in Nat
        /\ Cardinality(Recording(e)) \in Nat /\ Cardinality(Handler) \in Nat
    BY CountsType, RecordingFinite DEF Event
  <2>2. QED
    BY <2>1 DEF Bounded
<1>3. (\A e \in EventId : Bounded(e)) /\ TypeOK /\ [Next]_vars => (\A e \in EventId : Bounded(e))'
  BY BoundStep
<1>4. QED
  BY <1>1, <1>2, <1>3, TypeInit, TypeStep, PTL DEF Spec
===============================================================================
