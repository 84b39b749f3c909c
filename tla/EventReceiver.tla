----------------------------- MODULE EventReceiver -----------------------------
(***************************************************************************)
(* EventReceiverServer.NotifyEvent: Cross pushes an event, the handler     *)
(* looks for a ReceivedEvent record of it, writes one, starts a dispatch   *)
(* goroutine and acknowledges.  gRPC runs every push in a goroutine of its *)
(* own, and the handler holds no lock between looking and writing.         *)
(*                                                                         *)
(* Cross and the store are external.  Cross pushes an event until a push   *)
(* of it is acknowledged, and may push it again while an earlier push is   *)
(* still being handled.  The store's calls are atomic; one that fails has  *)
(* changed nothing.                                                        *)
(***************************************************************************)
EXTENDS Naturals, FiniteSets

CONSTANTS EventId,   \* the events that carry an event_id
          Anonymous, \* the events that carry none
          Handler,   \* the NotifyEvent goroutines that can run at once
          NoEvent,   \* no event
          MaxFaults  \* bound on failing calls, lost answers and restarts

Event == EventId \cup Anonymous

ASSUME ReceiverAssumption == /\ EventId \cap Anonymous = {}
                             /\ NoEvent \notin Event
                             /\ IsFiniteSet(Handler)
                             /\ MaxFaults \in Nat

VARIABLES received,   \* received[e]: the number of ReceivedEvent records of e
          dispatched, \* dispatched[e]: the number of dispatches started for e
          acked,      \* the events of which Cross has an acknowledgement
          handler,    \* handler[h]: the push h is handling
          faults      \* faults[k]: the number of faults of kind k so far

vars == <<received, dispatched, acked, handler, faults>>
-----------------------------------------------------------------------------
\* Where a handler is: the call it makes next.
At == {"idle", "lookup", "record", "dispatch", "ok", "error"}

\* A search or a write that fails, an answer that gets lost, the process dying.
FaultKind == {"lookup", "record", "answer", "restart"}

Idle == [at |-> "idle", event |-> NoEvent]

Init ==
    /\ received = [e \in Event |-> 0]
    /\ dispatched = [e \in Event |-> 0]
    /\ acked = {}
    /\ handler = [h \in Handler |-> Idle]
    /\ faults = [k \in FaultKind |-> 0]

Goto(h, at) == handler' = [handler EXCEPT ![h].at = at]
Done(h) == handler' = [handler EXCEPT ![h] = Idle]
Fault(k) ==
    /\ faults["lookup"] + faults["record"] + faults["answer"] + faults["restart"] < MaxFaults
    /\ faults' = [faults EXCEPT ![k] = @ + 1]

\* Cross pushes an event: an event without an ID is not looked for.
Push(h, e) ==
    /\ handler[h] = Idle
    /\ e \notin acked
    /\ handler' = [handler EXCEPT ![h] = [at |-> IF e \in EventId THEN "lookup" ELSE "record",
                                          event |-> e]]
    /\ UNCHANGED <<received, dispatched, acked, faults>>

\* The event of the push h is handling
Of(h) == handler[h].event

\* The record is not what decides.
DuplicateRecorded(h) ==
    /\ handler[h].at = "lookup"
    /\ received[Of(h)] > 0
    /\ Goto(h, "record")
    /\ UNCHANGED <<received, dispatched, acked, faults>>

\* There is a record: the push is answered, and that is all.
Duplicate(h) ==
    /\ handler[h].at = "lookup"
    /\ received[Of(h)] > 0
    /\ Goto(h, "ok")
    /\ UNCHANGED <<received, dispatched, acked, faults>>

FirstSeen(h) ==
    /\ handler[h].at = "lookup"
    /\ received[Of(h)] = 0
    /\ Goto(h, "record")
    /\ UNCHANGED <<received, dispatched, acked, faults>>

\* A search that fails counts as a search that found nothing.
LookupFails(h) ==
    /\ Fault("lookup")
    /\ handler[h].at = "lookup"
    /\ Goto(h, "record")
    /\ UNCHANGED <<received, dispatched, acked>>

\* The push is answered before the record is written.
RecordAnswered(h) ==
    /\ handler[h].at = "record"
    /\ Goto(h, "dispatch")
    /\ acked' = acked \cup {Of(h)}
    /\ UNCHANGED <<received, dispatched, faults>>

\* CreateEntity: the record is written.
Record(h) ==
    /\ handler[h].at = "record"
    /\ received' = [received EXCEPT ![Of(h)] = @ + 1]
    /\ Goto(h, "dispatch")
    /\ UNCHANGED <<dispatched, acked, faults>>

\* The push is acknowledged without a record.
RecordFailsUnnoticed(h) ==
    /\ Fault("record")
    /\ handler[h].at = "record"
    /\ Goto(h, "ok")
    /\ UNCHANGED <<received, dispatched, acked>>

\* The write fails: an Internal error, and nothing is dispatched.
RecordFails(h) ==
    /\ Fault("record")
    /\ handler[h].at = "record"
    /\ Goto(h, "error")
    /\ UNCHANGED <<received, dispatched, acked>>

\* go dispatcher.Dispatch(...)
StartDispatch(h) ==
    /\ handler[h].at = "dispatch"
    /\ dispatched' = [dispatched EXCEPT ![Of(h)] = @ + 1]
    /\ Goto(h, "ok")
    /\ UNCHANGED <<received, acked, faults>>

\* The handler stays with its event.
AnswerAgain(h) ==
    /\ handler[h].at \in {"ok", "error"}
    /\ acked' = IF handler[h].at = "ok" THEN acked \cup {Of(h)} ELSE acked
    /\ Goto(h, "idle")
    /\ UNCHANGED <<received, dispatched, faults>>

\* The answer reaches Cross, or gets lost on its way.
Answer(h) ==
    /\ handler[h].at \in {"ok", "error"}
    /\ acked' = IF handler[h].at = "ok" THEN acked \cup {Of(h)} ELSE acked
    /\ Done(h)
    /\ UNCHANGED <<received, dispatched, faults>>

AnswerLost(h) ==
    /\ Fault("answer")
    /\ handler[h].at = "ok"
    /\ Done(h)
    /\ UNCHANGED <<received, dispatched, acked>>

\* The process dies with its handlers (and with the dispatches it has started).
Restart ==
    /\ Fault("restart")
    /\ handler' = [h \in Handler |-> Idle]
    /\ UNCHANGED <<received, dispatched, acked>>

NotifyEvent(h) ==
    \/ Duplicate(h) \/ FirstSeen(h) \/ LookupFails(h)
    \/ Record(h) \/ RecordFails(h) \/ StartDispatch(h)
    \/ Answer(h) \/ AnswerLost(h)

Next ==
    \/ \E h \in Handler : NotifyEvent(h) \/ \E e \in Event : Push(h, e)
    \/ Restart

Spec == Init /\ [][Next]_vars

(***************************************************************************)
(* A handler that is not waiting runs, and the calls it waits for end.     *)
(* Cross keeps pushing what is not acknowledged.                           *)
(***************************************************************************)
FairSpec ==
    /\ Spec
    /\ \A h \in Handler : WF_vars(NotifyEvent(h))
    /\ \A e \in Event : SF_vars(\E h \in Handler : Push(h, e))
-----------------------------------------------------------------------------
TypeOK ==
    /\ received \in [Event -> Nat]
    /\ dispatched \in [Event -> Nat]
    /\ acked \subseteq Event
    /\ handler \in [Handler -> [at : At, event : Event \cup {NoEvent}]]
    /\ \A h \in Handler : handler[h].at = "idle" <=> handler[h].event = NoEvent
    /\ faults \in [FaultKind -> 0..MaxFaults]

(***************************************************************************)
(* An acknowledged event has a record, across failing calls, lost answers  *)
(* and restarts: what Cross no longer pushes the service has heard of.     *)
(***************************************************************************)
AckedIsRecorded == \A e \in acked : received[e] > 0

(***************************************************************************)
(* Every record is dispatched exactly once: the dispatches started are the *)
(* records less those whose handler is about to start one, except that     *)
(* each restart can lose one dispatch per handler for good, since the      *)
(* record then passes for a duplicate.                                     *)
(***************************************************************************)
AboutToDispatch(e) == Cardinality({h \in Handler : handler[h] = [at |-> "dispatch", event |-> e]})
RecordsAreDispatched ==
    \A e \in Event :
        /\ dispatched[e] + AboutToDispatch(e) <= received[e]
        /\ received[e] <= dispatched[e] + AboutToDispatch(e) + faults["restart"] * Cardinality(Handler)

(***************************************************************************)
(* "Deduplicates by event_id", and how far: an event with an ID has at most one record *)
(* for each push of it that can be under way at once, and one for each     *)
(* search that failed.  Where Cross pushes one event at a time and the     *)
(* store answers, that is one record, and one dispatch.                    *)
(***************************************************************************)
DuplicatesAreBounded ==
    \A e \in EventId : received[e] <= Cardinality(Handler) + faults["lookup"]

(***************************************************************************)
(* Unless the process dies every event is dispatched in the end, whatever  *)
(* calls fail and answers get lost before.                                 *)
(***************************************************************************)
EventuallyDispatched ==
    \A e \in Event : <>(dispatched[e] > 0 \/ faults["restart"] > 0)
===============================================================================
