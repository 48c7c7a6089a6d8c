----------------------------- MODULE Delivery -----------------------------
(***************************************************************************)
(* What the event bus promises: delivery at least once, but only of the    *)
(* messages that are accepted.  Nothing tells the sender whether one was:  *)
(* a message that is sent may be lost.  Once it is accepted, it is owed to *)
(* every queue whose consumer wants it until that consumer has handled it. *)
(* It may be handled more than once, but only while it is owed.  EventBus  *)
(* implements it with an exchange, unacknowledged messages and redelivery. *)
(***************************************************************************)
EXTENDS Naturals, Sequences, Functions

CONSTANTS
    Queues,
    Facts,      \* what a message can say
    Wanted      \* pairs <<queue, fact>>

VARIABLES
    fact,       \* what each message says, in the order of sending
    accepted,   \* the ids of the messages that will not be lost any more
    owed,       \* for each queue, those its consumer has still to be given
    handled     \* for each queue, those handled, in order

deliveryVars == <<fact, accepted, owed, handled>>

Init ==
    /\ fact = <<>>
    /\ accepted = {}
    /\ owed = [q \in Queues |-> {}]
    /\ handled = [q \in Queues |-> <<>>]

Send(f) ==
    /\ fact' = Append(fact, f)
    /\ UNCHANGED <<accepted, owed, handled>>

(* Messages are accepted in the order in which they were sent, each once.  *)
Accept(id) ==
    /\ \A a \in accepted : a < id
    /\ accepted' = accepted \cup {id}
    /\ owed' = [q \in Queues |->
                  IF <<q, fact[id]>> \in Wanted THEN owed[q] \cup {id} ELSE owed[q]]
    /\ UNCHANGED <<fact, handled>>

Handle(q, id) ==
    /\ id \in owed[q]
    /\ handled' = [handled EXCEPT ![q] = Append(@, id)]
    /\ UNCHANGED <<fact, accepted, owed>>

Discharge(q, id) ==
    /\ id \in owed[q] \cap Range(handled[q])
    /\ owed' = [owed EXCEPT ![q] = @ \ {id}]
    /\ UNCHANGED <<fact, accepted, handled>>

Next ==
    \/ \E f \in Facts : Send(f)
    \/ \E id \in DOMAIN fact : Accept(id)
    \/ \E q \in Queues, id \in DOMAIN fact : Handle(q, id) \/ Discharge(q, id)

Spec == Init /\ [][Next]_deliveryVars
=============================================================================
