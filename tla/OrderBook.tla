---------------------------- MODULE OrderBook ----------------------------
(***************************************************************************)
(* What the order-service promises of the orders: an order belongs for     *)
(* ever to the client that opened it; services are only ever added, one    *)
(* request at a time, by the owner, and only under ids that are vouched    *)
(* for when they are added.  If the book does not last, all of it may be   *)
(* lost at once, but no part of it.  Orders implements it in several steps *)
(* per request.                                                            *)
(***************************************************************************)
CONSTANTS Tasks, Clients, OrderIds, ServiceIds, None

VARIABLES
    lasting,    \* do the orders outlive the process?
    owner,      \* whose each order is; None while it is not open
    lines,      \* which services each order has: pairs <<order, service_id>>
    vouched,    \* the ids that somebody vouches for
    ask         \* for each task, the <<client, order, service_id>> it is to add

bookVars == <<lasting, owner, lines, vouched, ask>>

NoAsk == <<>>

Init ==
    /\ lasting \in BOOLEAN
    /\ owner = [o \in OrderIds |-> None]
    /\ lines = {}
    /\ vouched \in SUBSET ServiceIds
    /\ ask = [t \in Tasks |-> NoAsk]

Ask(t) ==
    /\ ask[t] = NoAsk
    /\ \E c \in Clients, o \in OrderIds, s \in ServiceIds :
        ask' = [ask EXCEPT ![t] = <<c, o, s>>]
    /\ UNCHANGED <<lasting, owner, lines, vouched>>

(* Requests may be refused or die without any effect.                      *)
Withdraw(T) ==
    /\ ask' = [t \in Tasks |-> IF t \in T THEN NoAsk ELSE ask[t]]
    /\ UNCHANGED <<lasting, owner, lines, vouched>>

Open(o, c) ==
    /\ owner[o] = None
    /\ owner' = [owner EXCEPT ![o] = c]
    /\ UNCHANGED <<lasting, lines, vouched, ask>>

Add(t) ==
    /\ \E o \in OrderIds, s \in vouched :
        /\ ask[t] = <<owner[o], o, s>>
        /\ lines' = lines \cup {<<o, s>>}
    /\ ask' = [ask EXCEPT ![t] = NoAsk]
    /\ UNCHANGED <<lasting, owner, vouched>>

Vouch(ids) ==
    /\ vouched' = vouched \cup ids
    /\ UNCHANGED <<lasting, owner, lines, ask>>

Forget ==
    /\ ~lasting
    /\ owner' = [o \in OrderIds |-> None]
    /\ lines' = {}
    /\ ask' = [t \in Tasks |-> NoAsk]
    /\ UNCHANGED <<lasting, vouched>>

Next ==
    \/ Forget
    \/ \E t \in Tasks : Ask(t) \/ Add(t)
    \/ \E T \in SUBSET Tasks : Withdraw(T)
    \/ \E o \in OrderIds, c \in Clients : Open(o, c)
    \/ \E ids \in SUBSET ServiceIds : Vouch(ids)

Spec == Init /\ [][Next]_bookVars
=============================================================================
