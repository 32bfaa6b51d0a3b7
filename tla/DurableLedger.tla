--------------------------- MODULE DurableLedger ---------------------------
(***************************************************************************)
(* What the SQLite ledger of one symbol promises, whatever the process     *)
(* above it does: the transactions it can commit, and nothing about the    *)
(* memory, the queue, the crashes or the retries between two of them.      *)
(* MonitorLedger shows that the service only ever commits these.           *)
(***************************************************************************)
EXTENDS Ledger

CONSTANTS
    MaxOpen,        \* OrderPolicy.max_open_orders
    MaxOpenLong,    \* OrderPolicy.max_open_long_orders
    MaxOpenShort,   \* OrderPolicy.max_open_short_orders
    MaxActive       \* the largest max_active the service is ever run with

ASSUME DurableAssumption ==
    /\ MaxOpen \in Nat /\ MaxOpenLong \in Nat /\ MaxOpenShort \in Nat
    /\ MaxActive \in Nat

VARIABLES orders, credits
vars == <<orders, credits>>

ledger == [orders |-> orders, credits |-> credits]

DirLimit(d) == IF d = "LONG" THEN MaxOpenLong ELSE MaxOpenShort

Init == orders = EmptyLedger.orders /\ credits = EmptyLedger.credits

-----------------------------------------------------------------------------
(* What a transaction may do; as in Ledger, the definitions whose name says  *)
(* what they forget are deliberate mistakes that nothing uses                *)

HasRoomInAll(d) == Cardinality(Open(ledger)) < MaxOpen
HasRoom(d) ==
    /\ Cardinality(Open(ledger)) < MaxOpen
    /\ Cardinality(OpenIn(ledger, d)) < DirLimit(d)

MayWaitBesideActive(d) == Cardinality(Pending(ledger, d)) < MaxActive
MayWait(d) == Cardinality(Reserved(ledger, d)) < MaxActive

CancellableIfKnown(s) == credits[s].st # "NONE"
Cancellable(s) == credits[s].st = "PENDING"

-----------------------------------------------------------------------------
(* One action per transaction *)

\* save_open_order_decision: a new order, and with it the consumption of the
\* credit that pays for its second stage.
OpenOrder(i, d, t, s, g) ==
    /\ orders[i].st = "NONE"
    /\ orders' = [orders EXCEPT ![i] =
            [st |-> "OPEN", dir |-> d, opened |-> t, source |-> s, grants |-> g]]
    /\ credits' = Consume(credits, s, i)
    /\ s # 0 => s \in Eligible(ledger, d, t)
    /\ HasRoom(d)

\* save_settled_order_with_credit: the result, and the credit it earned.
SettleOnly(i, result) ==
    /\ orders[i].st = "OPEN"
    /\ orders' = [orders EXCEPT ![i].st = result]
    /\ UNCHANGED credits

SettleEarning(i, status) ==
    /\ orders[i].st = "OPEN"
    /\ orders[i].source = 0
    /\ orders[i].grants
    /\ credits[i].st = "NONE"
    /\ status = "PENDING" => MayWait(orders[i].dir)
    /\ orders' = [orders EXCEPT ![i].st = "WIN"]
    /\ credits' = [credits EXCEPT ![i] = Held(status)]

\* cancel_stake_progression_credits and prepare_stake_progression.
Cancel(S) ==
    /\ \A s \in S : Cancellable(s)
    /\ credits' = CancelCredits(ledger, S).credits
    /\ UNCHANGED orders

Next ==
    \/ \E i \in OrderIds, d \in Directions, t \in 1..MaxTime,
          s \in OrderIds \cup {0}, g \in BOOLEAN : OpenOrder(i, d, t, s, g)
    \/ \E i \in OrderIds, result \in Results : SettleOnly(i, result)
    \/ \E i \in OrderIds, status \in {"PENDING", "CANCELLED"} : SettleEarning(i, status)
    \/ \E S \in SUBSET OrderIds : Cancel(S)

Spec == Init /\ [][Next]_vars

-----------------------------------------------------------------------------
(* Properties *)

\* Every row is one the schema and the code's validation admit.
TypeOK ==
    /\ orders \in [OrderIds -> Order \cup {NoOrder}]
    /\ credits \in [OrderIds -> Credit]

\* Stake provenance (the 10U -> 18U -> 10U rule, docs/current-strategy.md
\* section on capital management): a second-stage order was paid for by
\* exactly one credit, which it alone consumed, which a first-stage order of
\* the same direction earned by winning; no credit comes from a second-stage
\* order, so there is no third stage.
SourceIsWonBaseOrder(s) ==
    /\ orders[s].st = "WIN"
    /\ orders[s].source = 0
    /\ orders[s].grants
ConsumedByItsOrder(s) ==
    LET i == credits[s].by IN
    /\ i \in Exists(ledger)
    /\ orders[i].source = s
    /\ orders[i].dir = orders[s].dir
    /\ Expiry(ledger, s) <= orders[i].opened
StakeProvenance ==
    /\ \A s \in OrderIds : credits[s].st # "NONE" => SourceIsWonBaseOrder(s)
    /\ \A s \in OrderIds : credits[s].st = "CONSUMED" => ConsumedByItsOrder(s)
    /\ \A i \in Exists(ledger) : orders[i].source # 0 =>
            /\ credits[orders[i].source].st = "CONSUMED"
            /\ credits[orders[i].source].by = i

\* Per direction, the credits that wait and the second-stage orders in
\* flight never exceed max_active together.
ReservationBound ==
    \A d \in Directions : Cardinality(Reserved(ledger, d)) <= MaxActive

\* No more orders are open than the policy allows, in all and per direction.
Capacity ==
    /\ Cardinality(Open(ledger)) <= MaxOpen
    /\ \A d \in Directions : Cardinality(OpenIn(ledger, d)) <= DirLimit(d)

\* A row is never taken back: an order keeps its identity and a result stands
\* once it is given; a consumed or a cancelled credit stays what it is.
Settled(i) == orders[i].st \in Results
TerminalRowsStand ==
    [][ /\ \A i \in OrderIds : Settled(i) => orders'[i] = orders[i]
        /\ \A i \in OrderIds : orders[i].st # "NONE" =>
               orders'[i] = [orders[i] EXCEPT !.st = orders'[i].st]
        /\ \A s \in OrderIds : credits[s].st \in {"CONSUMED", "CANCELLED"} =>
               credits'[s] = credits[s] ]_vars
=============================================================================
