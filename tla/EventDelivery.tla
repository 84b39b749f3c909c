---------------------------- MODULE EventDelivery -----------------------------
(***************************************************************************)
(* What the service promises for the events that are pushed to it: an      *)
(* event it has heard of is owed a dispatch until the dispatch has dealt   *)
(* with it, and only trouble (the process ending, a call of the store      *)
(* failing) can make the service forget it.  A forgotten event is owed     *)
(* again if it is pushed again.                                            *)
(***************************************************************************)
EXTENDS Naturals

CONSTANT Event  \* the events

VARIABLES fate,    \* fate[e]: "unheard", "owed", "dealt" or "forgotten"
          acked,   \* the events of which Cross has an acknowledgement
          trouble  \* how often something has gone wrong

Init ==
    /\ fate = [e \in Event |-> "unheard"]
    /\ acked = {}
    /\ trouble = 0

Hear(e) ==
    /\ fate' = [fate EXCEPT ![e] = IF @ = "dealt" THEN "dealt" ELSE "owed"]
    /\ UNCHANGED <<acked, trouble>>

DealWith(e) ==
    /\ fate[e] = "owed"
    /\ fate' = [fate EXCEPT ![e] = "dealt"]
    /\ UNCHANGED <<acked, trouble>>

Forget(events) ==
    /\ \A e \in events : fate[e] = "owed"
    /\ fate' = [e \in Event |-> IF e \in events THEN "forgotten" ELSE fate[e]]
    /\ trouble' = trouble + 1
    /\ UNCHANGED acked

Acknowledge(e) ==
    /\ fate[e] # "unheard"
    /\ acked' = acked \cup {e}
    /\ UNCHANGED <<fate, trouble>>

Next ==
    \/ \E e \in Event : Hear(e) \/ DealWith(e) \/ Acknowledge(e)
    \/ \E events \in SUBSET Event : Forget(events)

Spec == Init /\ [][Next]_<<fate, acked, trouble>>
===============================================================================
