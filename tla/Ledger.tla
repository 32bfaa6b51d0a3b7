------------------------------- MODULE Ledger -------------------------------
(***************************************************************************)
(* The ledger of simulated orders and of the two-stage stake credits, as a *)
(* value: what AccountSimulator keeps in memory and what the tables orders *)
(* and stake_progression_credits keep on disk are both such a value.       *)
(*                                                                         *)
(* A ledger is a record [orders, credits].  orders[i] is the order with id *)
(* i; credits[i] is the credit that the order i earned, for a credit is    *)
(* keyed by (version, source_order_id) and its id is made of these.        *)
(*                                                                         *)
(* Time is counted in closed one-minute klines.  A credit's created_at is  *)
(* the settlement time of its source, hence the source's expiry, so it is  *)
(* derived and not stored.  The second stage is "source # 0", because      *)
(* OrderTerms gives step 2 exactly to the orders with a source.            *)
(***************************************************************************)
EXTENDS Integers, FiniteSets

CONSTANTS
    Directions,     \* the directions traded, {"LONG", "SHORT"} in the code
    MaxOrders,      \* bound: order ids are 1..MaxOrders
    Lifetime,       \* an order expires Lifetime minutes after it is opened
    MaxTime         \* bound: minutes are 1..MaxTime

ASSUME LedgerAssumption ==
    /\ Directions \subseteq {"LONG", "SHORT"}
    /\ MaxOrders \in Nat
    /\ Lifetime \in Nat \ {0}
    /\ MaxTime \in Nat

OrderIds == 1..MaxOrders
Results == {"WIN", "LOSS"}

\* grants is the allow_credit argument that settling the order will pass.
Order == [st      : {"OPEN"} \cup Results,
          dir     : Directions,
          opened  : 1..MaxTime,
          source  : OrderIds \cup {0},
          grants  : BOOLEAN]
NoOrder == [st |-> "NONE"]

Credit == [st : {"NONE", "PENDING", "CONSUMED", "CANCELLED"},
           by : OrderIds \cup {0}]
NoCredit == [st |-> "NONE", by |-> 0]
Held(status) == [st |-> status, by |-> 0]

LedgerType == [orders  : [OrderIds -> Order \cup {NoOrder}],
               credits : [OrderIds -> Credit]]

EmptyLedger == [orders  |-> [i \in OrderIds |-> NoOrder],
                credits |-> [i \in OrderIds |-> NoCredit]]

-----------------------------------------------------------------------------
Exists(L) == {i \in OrderIds : L.orders[i].st # "NONE"}
Open(L) == {i \in OrderIds : L.orders[i].st = "OPEN"}
OpenIn(L, d) == {i \in Open(L) : L.orders[i].dir = d}
Expiry(L, i) == L.orders[i].opened + Lifetime

\* The id AccountSimulator gives next: one more than the largest it holds.
IsNextId(L, i) ==
    /\ i \in OrderIds
    /\ \A j \in Exists(L) : j < i
    /\ i = 1 \/ i - 1 \in Exists(L)

-----------------------------------------------------------------------------
(* Credits *)

Pending(L, d) ==
    {s \in Exists(L) : L.credits[s].st = "PENDING" /\ L.orders[s].dir = d}
AllPending(L) == {s \in OrderIds : L.credits[s].st = "PENDING"}

\* The consumed credits whose second-stage order is still open.
Active(L, d) ==
    {s \in Exists(L) : /\ L.credits[s].st = "CONSUMED"
                       /\ L.credits[s].by \in Open(L)
                       /\ L.orders[s].dir = d}

Reserved(L, d) == Pending(L, d) \cup Active(L, d)

\* Ordered by (created_at, credit_id).
Older(L, s, r) == Expiry(L, s) < Expiry(L, r) \/ (Expiry(L, s) = Expiry(L, r) /\ s < r)

EligibleAnyDirection(L, d, t) == {s \in AllPending(L) : Expiry(L, s) <= t}
Eligible(L, d, t) == {s \in Pending(L, d) : Expiry(L, s) <= t}

\* The definitions whose name says what they forget (EligibleAnyDirection,
\* EarnedAnyStage, ...) are deliberate mistakes, kept to show that the
\* properties notice them; nothing uses them.

\* The credit that assign consumes for an order opened at t: the oldest one
\* of the order's direction, 0 (the base stake) when there is none.
Assign(L, enabled, d, t) ==
    IF ~enabled \/ Eligible(L, d, t) = {} THEN 0
    ELSE CHOOSE s \in Eligible(L, d, t) :
            \A r \in Eligible(L, d, t) \ {s} : Older(L, s, r)

Consume(credits, s, i) ==
    IF s = 0 THEN credits
    ELSE [credits EXCEPT ![s] = [st |-> "CONSUMED", by |-> i]]

AddOrder(L, i, order) ==
    [orders  |-> [L.orders EXCEPT ![i] = order],
     credits |-> Consume(L.credits, order.source, i)]

\* rollback_open_order: the order is popped and its credit is pending again.
RemoveOrderKeepCredit(L, i) == [L EXCEPT !.orders[i] = NoOrder]
RemoveOrder(L, i) ==
    LET s == L.orders[i].source IN
    [orders  |-> [L.orders EXCEPT ![i] = NoOrder],
     credits |-> IF s = 0 THEN L.credits
                 ELSE [L.credits EXCEPT ![s] = Held("PENDING")]]

CancelCredits(L, S) ==
    [L EXCEPT !.credits =
        [s \in OrderIds |-> IF s \in S THEN Held("CANCELLED") ELSE L.credits[s]]]

\* The credit that settling order i with result leaves behind.  capacity is
\* max_active; activated is the minute the progression was last switched on.
EarnedAnyStage(L, i, result, enabled, activated, capacity) ==
    IF /\ L.orders[i].grants
       /\ enabled
       /\ L.orders[i].opened >= activated
       /\ result = "WIN"
    THEN Held("PENDING") ELSE L.credits[i]
EarnedDespiteRecovery(L, i, result, enabled, activated, capacity) ==
    IF L.orders[i].source = 0 /\ enabled /\ result = "WIN"
    THEN Held("PENDING") ELSE L.credits[i]
Earned(L, i, result, enabled, activated, capacity) ==
    LET o == L.orders[i]
        earns == /\ o.source = 0 /\ o.grants /\ L.credits[i].st = "NONE"
                 /\ enabled /\ o.opened >= activated /\ result = "WIN"
        full == Cardinality(Reserved(L, o.dir)) >= capacity
        withdrawn == o.source = 0 /\ ~o.grants /\ L.credits[i].st = "PENDING"
    IN  IF earns THEN Held(IF full THEN "CANCELLED" ELSE "PENDING")
        ELSE IF withdrawn THEN Held("CANCELLED")
        ELSE L.credits[i]

SettleOrder(L, i, result, credit) ==
    [orders  |-> [L.orders EXCEPT ![i].st = result],
     credits |-> [L.credits EXCEPT ![i] = credit]]

\* The pending credits that reconcile cancels: all of them when the
\* progression is off, otherwise the newest ones above the capacity.
NewerOrSame(L, d, s) == {r \in Pending(L, d) : r = s \/ Older(L, s, r)}
ExcessIgnoringActive(L, enabled, capacity) ==
    IF ~enabled THEN AllPending(L)
    ELSE UNION {{s \in Pending(L, d) :
                    Cardinality(NewerOrSame(L, d, s)) <= Cardinality(Pending(L, d)) - capacity}
                 : d \in Directions}
Excess(L, enabled, capacity) ==
    IF ~enabled THEN AllPending(L)
    ELSE UNION {{s \in Pending(L, d) :
                    Cardinality(NewerOrSame(L, d, s)) <= Cardinality(Reserved(L, d)) - capacity}
                 : d \in Directions}
=============================================================================
