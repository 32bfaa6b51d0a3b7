-------------------------- MODULE GuardedLedgerProofs --------------------------
(***************************************************************************)
(* What is proved of the durable ledger, for every number of orders, every *)
(* life of an order and every limit; and of the ledger under the monitor's *)
(* guards, for any services, profiles, raw states, windows and cooldowns.  *)
(*                                                                         *)
(* Of DurableLedger, TypeOK /\ StakeProvenance is inductive.  The bounds   *)
(* on cardinalities follow from it, because a step adds at most one order  *)
(* to Open and at most one credit to Reserved, and only when the guard     *)
(* finds room.                                                             *)
(*                                                                         *)
(* Every guarded step is a transaction of DurableLedger or none, so that   *)
(* what is proved of these holds under the guards.  Beyond it: no second   *)
(* stage is paid for with a credit of another wave or selection; and after *)
(* losses the monitor tries one order at a time.                           *)
(***************************************************************************)
EXTENDS GuardedLedger, CommonLemmas, FiniteSetTheorems

-----------------------------------------------------------------------------
(* Sets of order ids are finite *)

\* Every set of order ids is finite, for there are MaxOrders ids.
LEMMA IdsFinite == \A S \in SUBSET OrderIds : IsFiniteSet(S)
<1>1. IsFiniteSet(OrderIds)
  BY LedgerAssumption, FS_Interval DEF OrderIds
<1>2. QED
  BY <1>1, FS_Subset

\* A set of ids contained in another one has no more elements.
LEMMA FewerIds ==
  ASSUME NEW S \in SUBSET OrderIds, NEW T \in SUBSET S
  PROVE  /\ Cardinality(T) \in Nat /\ Cardinality(S) \in Nat
         /\ Cardinality(T) <= Cardinality(S)
<1>1. IsFiniteSet(S) /\ IsFiniteSet(T)
  BY IdsFinite
<1>2. QED
  BY <1>1, FS_Subset, FS_CardinalityType

\* One id more is at most one element more.
LEMMA OneIdMore ==
  ASSUME NEW S \in SUBSET OrderIds, NEW i \in OrderIds, NEW T \in SUBSET (S \cup {i})
  PROVE  Cardinality(T) <= Cardinality(S) + 1
<1>1. IsFiniteSet(S)
  BY IdsFinite
<1>2. Cardinality(S) \in Nat
  BY <1>1, FS_CardinalityType
<1>3. Cardinality(S \cup {i}) = IF i \in S THEN Cardinality(S) ELSE Cardinality(S) + 1
  BY <1>1, FS_AddElement
<1>4. Cardinality(T) <= Cardinality(S \cup {i}) /\ Cardinality(T) \in Nat
  <2>1. S \cup {i} \in SUBSET OrderIds
    OBVIOUS
  <2>2. QED
    BY <2>1, FewerIds
<1>5. QED
  BY <1>2, <1>3, <1>4

-----------------------------------------------------------------------------
(* Type correctness *)

\* The empty tables are well typed.
LEMMA InitTypeOK == Init => TypeOK
  BY DEF Init, TypeOK, EmptyLedger, NoCredit, NoOrder, Credit

\* Every transaction writes well-typed rows, action by action.
LEMMA StepTypeOK == TypeOK /\ [Next]_vars => TypeOK'
<1> SUFFICES ASSUME TypeOK, [Next]_vars
             PROVE  TypeOK'
  OBVIOUS
<1> USE DEF TypeOK
<1>1. ASSUME NEW i \in OrderIds, NEW d \in Directions, NEW t \in 1..MaxTime,
             NEW s \in OrderIds \cup {0}, NEW g \in BOOLEAN, OpenOrder(i, d, t, s, g)
      PROVE  TypeOK'
  <2>1. [st |-> "OPEN", dir |-> d, opened |-> t, source |-> s, grants |-> g] \in Order
    BY DEF Order, Results
  <2>2. orders' \in [OrderIds -> Order \cup {NoOrder}]
    BY <1>1, <2>1 DEF OpenOrder
  <2>3. credits' \in [OrderIds -> Credit]
    BY <1>1 DEF OpenOrder, Consume, Credit
  <2>4. QED
    BY <2>2, <2>3
<1>2. ASSUME NEW i \in OrderIds, NEW result \in Results, SettleOnly(i, result)
      PROVE  TypeOK'
  <2>1. orders[i] \in Order
    BY <1>2 DEF SettleOnly, NoOrder
  <2>2. [orders[i] EXCEPT !.st = result] \in Order
    BY <2>1 DEF Order
  <2>3. QED
    BY <1>2, <2>2 DEF SettleOnly
<1>3. ASSUME NEW i \in OrderIds, NEW status \in {"PENDING", "CANCELLED"},
             SettleEarning(i, status)
      PROVE  TypeOK'
  <2>1. orders[i] \in Order
    BY <1>3 DEF SettleEarning, NoOrder
  <2>2. [orders[i] EXCEPT !.st = "WIN"] \in Order
    BY <2>1 DEF Order, Results
  <2>3. Held(status) \in Credit
    BY DEF Held, Credit
  <2>4. QED
    BY <1>3, <2>2, <2>3 DEF SettleEarning
<1>4. ASSUME NEW S \in SUBSET OrderIds, Cancel(S)
      PROVE  TypeOK'
  <2>1. Held("CANCELLED") \in Credit
    BY DEF Held, Credit
  <2>2. credits' = [s \in OrderIds |-> IF s \in S THEN Held("CANCELLED") ELSE credits[s]]
    BY <1>4 DEF Cancel, CancelCredits, ledger
  <2>3. QED
    BY <1>4, <2>1, <2>2 DEF Cancel
<1>5. CASE UNCHANGED vars
  BY <1>5 DEF vars
<1>6. QED
  BY <1>1, <1>2, <1>3, <1>4, <1>5 DEF Next

\* Every committed row is one the schema and the validation admit.
THEOREM TypeCorrect == Spec => []TypeOK
  BY InitTypeOK, StepTypeOK, PTL DEF Spec

-----------------------------------------------------------------------------
(* Stake provenance *)

\* The transactions, as Next enumerates them.
Opens(i) == \E d \in Directions, t \in 1..MaxTime, s \in OrderIds \cup {0}, g \in BOOLEAN :
                OpenOrder(i, d, t, s, g)
Settles(i) == \/ \E result \in Results : SettleOnly(i, result)
              \/ \E status \in {"PENDING", "CANCELLED"} : SettleEarning(i, status)

\* A step opens one order, settles one order, cancels credits, or does nothing.
LEMMA StepCases ==
  [Next]_vars => \/ \E i \in OrderIds : Opens(i)
                 \/ \E i \in OrderIds : Settles(i)
                 \/ \E S \in SUBSET OrderIds : Cancel(S)
                 \/ UNCHANGED <<orders, credits>>
  BY DEF Next, vars, Opens, Settles

\* What opening does, with the definitions of the ledger unfolded.
LEMMA OpenEffect ==
  ASSUME TypeOK, NEW i \in OrderIds, NEW d \in Directions, NEW t \in 1..MaxTime,
         NEW s \in OrderIds \cup {0}, NEW g \in BOOLEAN, OpenOrder(i, d, t, s, g)
  PROVE  /\ orders[i].st = "NONE"
         /\ \A j \in OrderIds \ {i} : orders'[j] = orders[j]
         /\ orders'[i] = [st |-> "OPEN", dir |-> d, opened |-> t, source |-> s, grants |-> g]
         /\ \A r \in OrderIds \ {s} : credits'[r] = credits[r]
         /\ s \in OrderIds =>
                    /\ s # i
                     /\ orders[s].st # "NONE" /\ orders[s].dir = d
                     /\ orders[s].opened + Lifetime <= t
                     /\ credits[s].st = "PENDING"
                     /\ credits'[s] = [st |-> "CONSUMED", by |-> i]
  BY DEF OpenOrder, TypeOK, Consume, Eligible, Pending, Exists, Expiry, ledger, OrderIds

\* What settling does: the order was open, its result stands after, and its
\* credit changes only when it is earned.
LEMMA SettleEffect ==
  ASSUME TypeOK, NEW i \in OrderIds, Settles(i)
  PROVE  /\ orders[i].st = "OPEN" /\ orders[i] \in Order
         /\ \A j \in OrderIds \ {i} : orders'[j] = orders[j] /\ credits'[j] = credits[j]
         /\ orders'[i] \in Order /\ orders'[i].st \in Results
         /\ orders'[i].dir = orders[i].dir
         /\ orders'[i].opened = orders[i].opened
         /\ orders'[i].source = orders[i].source
         /\ orders'[i].grants = orders[i].grants
         /\ \/ credits'[i] = credits[i]
            \/ /\ orders'[i].st = "WIN" /\ orders[i].source = 0 /\ orders[i].grants
               /\ credits[i].st = "NONE"
               /\ credits'[i].st = "CANCELLED"
            \/ /\ orders'[i].st = "WIN" /\ orders[i].source = 0 /\ orders[i].grants
               /\ credits[i].st = "NONE"
               /\ credits'[i].st = "PENDING"
               /\ MayWait(orders[i].dir)
<1>1. orders[i].st = "OPEN" /\ orders[i] \in Order
  BY DEF Settles, SettleOnly, SettleEarning, TypeOK, NoOrder
<1>2. PICK result \in Results : orders' = [orders EXCEPT ![i] = [orders[i] EXCEPT !.st = result]]
  BY DEF Settles, SettleOnly, SettleEarning, Results
<1>3. /\ orders'[i] = [orders[i] EXCEPT !.st = result]
      /\ \A j \in OrderIds \ {i} : orders'[j] = orders[j]
  BY <1>2 DEF TypeOK
<1>4. /\ orders'[i] \in Order /\ orders'[i].st \in Results
      /\ orders'[i].dir = orders[i].dir
      /\ orders'[i].opened = orders[i].opened
      /\ orders'[i].source = orders[i].source
      /\ orders'[i].grants = orders[i].grants
  BY <1>1, <1>3 DEF Order
<1>5. \A j \in OrderIds \ {i} : credits'[j] = credits[j]
  BY DEF Settles, SettleOnly, SettleEarning, TypeOK
<1>6. CASE \E r \in Results : SettleOnly(i, r)
  BY <1>1, <1>3, <1>4, <1>5, <1>6 DEF SettleOnly
<1>7. CASE \E status \in {"PENDING", "CANCELLED"} : SettleEarning(i, status)
  <2>1. PICK status \in {"PENDING", "CANCELLED"} : SettleEarning(i, status)
    BY <1>7
  <2>2. credits'[i].st = status
    BY <2>1 DEF SettleEarning, Held, TypeOK
  <2>3. orders'[i].st = "WIN"
    BY <2>1, <1>1 DEF SettleEarning, TypeOK, Order
  <2>4. QED
    BY <2>1, <2>2, <2>3, <1>1, <1>4, <1>3, <1>5 DEF SettleEarning
<1>8. QED
  BY <1>6, <1>7 DEF Settles

\* What cancelling does: pending credits are cancelled.
LEMMA CancelEffect ==
  ASSUME TypeOK, NEW S \in SUBSET OrderIds, Cancel(S)
  PROVE  /\ orders' = orders
         /\ \A s \in OrderIds \ S : credits'[s] = credits[s]
         /\ \A s \in S : credits[s].st = "PENDING" /\ credits'[s].st = "CANCELLED"
  BY DEF Cancel, Cancellable, CancelCredits, Held, ledger, TypeOK

\* StakeProvenance with the definitions of the ledger unfolded.
LEMMA ProvenanceUnfolded ==
  StakeProvenance <=>
    /\ \A s \in OrderIds : credits[s].st # "NONE" =>
         orders[s].st = "WIN" /\ orders[s].source = 0 /\ orders[s].grants
    /\ \A s \in OrderIds : credits[s].st = "CONSUMED" =>
         /\ credits[s].by \in OrderIds
         /\ orders[credits[s].by].st # "NONE"
         /\ orders[credits[s].by].source = s
         /\ orders[credits[s].by].dir = orders[s].dir
         /\ orders[s].opened + Lifetime <= orders[credits[s].by].opened
    /\ \A i \in OrderIds : orders[i].st # "NONE" /\ orders[i].source # 0 =>
         /\ credits[orders[i].source].st = "CONSUMED"
         /\ credits[orders[i].source].by = i
  BY DEF StakeProvenance, SourceIsWonBaseOrder, ConsumedByItsOrder, Exists, Expiry, ledger

\* The inductive invariant.  Provenance needs no strengthening but the types:
\* it speaks of both directions of the link between a credit and its order.
IInv == TypeOK /\ StakeProvenance

\* The empty tables satisfy the inductive invariant.
LEMMA InitIInv == Init => IInv
<1>1. ASSUME Init PROVE StakeProvenance
  BY <1>1, ProvenanceUnfolded DEF Init, EmptyLedger, NoCredit, NoOrder
<1>2. QED
  BY <1>1, InitTypeOK DEF IInv

\* Every transaction keeps the provenance.  What the cases rest on: an order
\* that is not won has no credit row, so neither a fresh id nor an open order
\* is the source of a credit, and a consumed credit is never touched.
LEMMA StepIInv == IInv /\ [Next]_vars => IInv'
<1> SUFFICES ASSUME TypeOK, StakeProvenance, [Next]_vars
             PROVE  StakeProvenance'
  BY StepTypeOK DEF IInv
<1> DEFINE
      Earned1 == \A s \in OrderIds : credits'[s].st # "NONE" =>
         orders'[s].st = "WIN" /\ orders'[s].source = 0 /\ orders'[s].grants
      Consumed1 == \A s \in OrderIds : credits'[s].st = "CONSUMED" =>
         /\ credits'[s].by \in OrderIds
         /\ orders'[credits'[s].by].st # "NONE"
         /\ orders'[credits'[s].by].source = s
         /\ orders'[credits'[s].by].dir = orders'[s].dir
         /\ orders'[s].opened + Lifetime <= orders'[credits'[s].by].opened
      Paid1 == \A i \in OrderIds : orders'[i].st # "NONE" /\ orders'[i].source # 0 =>
         /\ credits'[orders'[i].source].st = "CONSUMED"
         /\ credits'[orders'[i].source].by = i
<1>0. ASSUME Earned1, Consumed1, Paid1 PROVE StakeProvenance'
  BY <1>0 DEF StakeProvenance, SourceIsWonBaseOrder, ConsumedByItsOrder, Exists, Expiry, ledger
<1>1. ASSUME NEW i \in OrderIds, Opens(i)
      PROVE  Earned1 /\ Consumed1 /\ Paid1
  <2>1. PICK d \in Directions, t \in 1..MaxTime, s \in OrderIds \cup {0}, g \in BOOLEAN :
          OpenOrder(i, d, t, s, g)
    BY <1>1 DEF Opens
  <2>2. /\ orders[i].st = "NONE"
        /\ \A j \in OrderIds \ {i} : orders'[j] = orders[j]
        /\ orders'[i] = [st |-> "OPEN", dir |-> d, opened |-> t, source |-> s, grants |-> g]
        /\ \A r \in OrderIds \ {s} : credits'[r] = credits[r]
        /\ s \in OrderIds =>
                    /\ s # i
                    /\ orders[s].st # "NONE" /\ orders[s].dir = d
                    /\ orders[s].opened + Lifetime <= t
                    /\ credits[s].st = "PENDING"
                    /\ credits'[s] = [st |-> "CONSUMED", by |-> i]
    BY <2>1, OpenEffect
  <2>3. credits[i].st = "NONE"
    BY <2>2, ProvenanceUnfolded
  <2>4. Earned1
    <3>1. \A r \in OrderIds : credits'[r].st # "NONE" => credits[r].st # "NONE" /\ r # i
      BY <2>2, <2>3
    <3>2. \A r \in OrderIds : credits'[r].st # "NONE" => orders'[r] = orders[r]
      BY <2>2, <3>1
    <3>3. QED
      BY <3>1, <3>2, ProvenanceUnfolded
  <2>5. Consumed1
    <3> SUFFICES ASSUME NEW r \in OrderIds, credits'[r].st = "CONSUMED"
                 PROVE  /\ credits'[r].by \in OrderIds
                        /\ orders'[credits'[r].by].st # "NONE"
                        /\ orders'[credits'[r].by].source = r
                        /\ orders'[credits'[r].by].dir = orders'[r].dir
                        /\ orders'[r].opened + Lifetime <= orders'[credits'[r].by].opened
      OBVIOUS
    <3>1. CASE r = s
      <4>1. credits'[r].by = i /\ orders'[r] = orders[r]
        BY <2>2, <3>1
      <4>2. QED
        BY <2>2, <3>1, <4>1
    <3>2. CASE r # s
      <4>1. /\ credits'[r] = credits[r]
            /\ credits[r].by \in OrderIds \ {i} /\ r # i
        BY <2>2, <2>3, <3>2, ProvenanceUnfolded
      <4>2. orders'[r] = orders[r] /\ orders'[credits[r].by] = orders[credits[r].by]
        BY <2>2, <4>1
      <4>3. credits[r].st = "CONSUMED"
        BY <4>1
      <4>4. QED
        BY <4>1, <4>2, <4>3, ProvenanceUnfolded
    <3>3. QED
      BY <3>1, <3>2
  <2>6. Paid1
    <3> SUFFICES ASSUME NEW j \in OrderIds, orders'[j].st # "NONE", orders'[j].source # 0
                 PROVE  /\ credits'[orders'[j].source].st = "CONSUMED"
                        /\ credits'[orders'[j].source].by = j
      OBVIOUS
    <3>1. CASE j = i
      BY <2>2, <3>1
    <3>2. CASE j # i
      <4>1. /\ orders'[j] = orders[j]
            /\ credits[orders[j].source].st = "CONSUMED"
            /\ credits[orders[j].source].by = j
        BY <2>2, <3>2, ProvenanceUnfolded
      <4>2. orders[j].source \in OrderIds \ {s}
        BY <4>1, <2>2, ProvenanceUnfolded DEF TypeOK, Order, NoOrder
      <4>3. QED
        BY <2>2, <4>1, <4>2
    <3>3. QED
      BY <3>1, <3>2
  <2>7. QED
    BY <2>4, <2>5, <2>6
<1>2. ASSUME NEW i \in OrderIds, Settles(i)
      PROVE  Earned1 /\ Consumed1 /\ Paid1
  <2>1. /\ orders[i].st = "OPEN"
        /\ \A j \in OrderIds \ {i} : orders'[j] = orders[j] /\ credits'[j] = credits[j]
        /\ orders'[i].st # "NONE"
        /\ orders'[i].dir = orders[i].dir
        /\ orders'[i].opened = orders[i].opened
        /\ orders'[i].source = orders[i].source
        /\ orders'[i].grants = orders[i].grants
        /\ \/ credits'[i] = credits[i]
           \/ /\ orders'[i].st = "WIN" /\ orders[i].source = 0 /\ orders[i].grants
              /\ credits'[i].st \in {"PENDING", "CANCELLED"}
    BY <1>2, SettleEffect DEF Results
  <2>2. credits[i].st = "NONE"
    BY <2>1, ProvenanceUnfolded
  <2>3. Earned1
    BY <2>1, <2>2, ProvenanceUnfolded
  <2>4. Consumed1
    BY <2>1, <2>2, ProvenanceUnfolded
  <2>5. Paid1
    <3> SUFFICES ASSUME NEW j \in OrderIds, orders'[j].st # "NONE", orders'[j].source # 0
                 PROVE  /\ credits'[orders'[j].source].st = "CONSUMED"
                        /\ credits'[orders'[j].source].by = j
      OBVIOUS
    <3>1. /\ orders'[j].source = orders[j].source
          /\ orders[j].st # "NONE"
          /\ credits[orders[j].source].st = "CONSUMED"
          /\ credits[orders[j].source].by = j
      BY <2>1, ProvenanceUnfolded
    <3>2. orders[j].source \in OrderIds \ {i}
      BY <3>1, <2>1, <2>2 DEF TypeOK, Order, NoOrder
    <3>3. QED
      BY <2>1, <3>1, <3>2
  <2>6. QED
    BY <2>3, <2>4, <2>5
<1>3. ASSUME NEW S \in SUBSET OrderIds, Cancel(S)
      PROVE  Earned1 /\ Consumed1 /\ Paid1
  <2>1. /\ orders' = orders
        /\ \A s \in OrderIds \ S : credits'[s] = credits[s]
        /\ \A s \in S : credits[s].st = "PENDING" /\ credits'[s].st = "CANCELLED"
    BY <1>3, CancelEffect
  <2>2. Earned1 /\ Consumed1
    BY <2>1, ProvenanceUnfolded
  <2>3. Paid1
    BY <2>1, ProvenanceUnfolded DEF TypeOK, Order, NoOrder
  <2>4. QED
    BY <2>2, <2>3
<1>4. CASE UNCHANGED <<orders, credits>>
  BY <1>4 DEF StakeProvenance, SourceIsWonBaseOrder, ConsumedByItsOrder, Exists, Expiry, ledger
<1>5. QED
  BY <1>0, <1>1, <1>2, <1>3, <1>4, StepCases

\* A second-stage order was paid for by exactly one credit, which a winning
\* first-stage order of its direction earned before, and there is no third
\* stage.
THEOREM StakesAreEarned == Spec => []StakeProvenance
<1>1. IInv => StakeProvenance
  BY DEF IInv
<1>2. QED
  BY <1>1, InitIInv, StepIInv, PTL DEF Spec

-----------------------------------------------------------------------------
(* The bounds *)

\* Reserved with the definitions of the ledger unfolded.
LEMMA ReservedUnfolded ==
  \A d \in Directions :
    Reserved(ledger, d) =
      {s \in OrderIds : /\ orders[s].st # "NONE" /\ orders[s].dir = d
                        /\ \/ credits[s].st = "PENDING"
                           \/ /\ credits[s].st = "CONSUMED"
                              /\ credits[s].by \in OrderIds
                              /\ orders[credits[s].by].st = "OPEN"}
  BY DEF Reserved, Pending, Active, Exists, Open, ledger

\* No step adds a reservation, but a settlement that earns one where
\* max_active leaves room.
LEMMA ReservedGrows ==
  ASSUME IInv, [Next]_vars, NEW d \in Directions
  PROVE  \/ Reserved(ledger, d)' \subseteq Reserved(ledger, d)
         \/ \E i \in OrderIds : /\ Reserved(ledger, d)' \subseteq Reserved(ledger, d) \cup {i}
                                /\ MayWait(d)
<1> TypeOK /\ StakeProvenance
  BY DEF IInv
<1> DEFINE Reserved1 ==
      {s \in OrderIds : /\ orders'[s].st # "NONE" /\ orders'[s].dir = d
                        /\ \/ credits'[s].st = "PENDING"
                           \/ /\ credits'[s].st = "CONSUMED"
                              /\ credits'[s].by \in OrderIds
                              /\ orders'[credits'[s].by].st = "OPEN"}
<1>0. Reserved(ledger, d)' = Reserved1
  BY DEF Reserved, Pending, Active, Exists, Open, ledger
<1>1. ASSUME NEW i \in OrderIds, Opens(i)
      PROVE  Reserved1 \subseteq Reserved(ledger, d)
  <2>1. PICK e \in Directions, t \in 1..MaxTime, s \in OrderIds \cup {0}, g \in BOOLEAN :
          OpenOrder(i, e, t, s, g)
    BY <1>1 DEF Opens
  <2>2. /\ orders[i].st = "NONE"
        /\ \A j \in OrderIds \ {i} : orders'[j] = orders[j]
        /\ orders'[i] = [st |-> "OPEN", dir |-> e, opened |-> t, source |-> s, grants |-> g]
        /\ \A r \in OrderIds \ {s} : credits'[r] = credits[r]
        /\ s \in OrderIds =>
                    /\ s # i
                    /\ orders[s].st # "NONE" /\ orders[s].dir = e
                    /\ orders[s].opened + Lifetime <= t
                    /\ credits[s].st = "PENDING"
                    /\ credits'[s] = [st |-> "CONSUMED", by |-> i]
    BY <2>1, OpenEffect
  <2>3. credits[i].st = "NONE"
    BY <2>2, ProvenanceUnfolded
  <2>4. ASSUME NEW r \in Reserved1 PROVE r \in Reserved(ledger, d)
    <3>1. r # i
      BY <2>2, <2>3
    <3>2. orders'[r] = orders[r]
      BY <2>2, <3>1
    <3>3. CASE r = s
      BY <2>2, <3>2, <3>3, ReservedUnfolded
    <3>4. CASE r # s
      <4>1. credits'[r] = credits[r]
        BY <2>2, <3>4
      <4>2. credits[r].st = "CONSUMED" =>
              orders'[credits[r].by] = orders[credits[r].by]
        BY <2>2, ProvenanceUnfolded
      <4>3. QED
        BY <3>2, <4>1, <4>2, ReservedUnfolded
    <3>5. QED
      BY <3>3, <3>4
  <2>5. QED
    BY <2>4
<1>2. ASSUME NEW i \in OrderIds, Settles(i)
      PROVE  \/ Reserved1 \subseteq Reserved(ledger, d)
             \/ Reserved1 \subseteq Reserved(ledger, d) \cup {i} /\ MayWait(d)
  <2>1. /\ orders[i].st = "OPEN"
        /\ \A j \in OrderIds \ {i} : orders'[j] = orders[j] /\ credits'[j] = credits[j]
        /\ orders'[i].st \in Results /\ orders'[i].dir = orders[i].dir
        /\ \/ credits'[i] = credits[i]
           \/ credits'[i].st = "CANCELLED"
           \/ credits'[i].st = "PENDING" /\ MayWait(orders[i].dir)
    BY <1>2, SettleEffect
  <2>2. credits[i].st = "NONE"
    BY <2>1, ProvenanceUnfolded
  <2>3. Reserved1 \ {i} \subseteq Reserved(ledger, d)
    BY <2>1, ReservedUnfolded DEF Results
  <2>4. i \in Reserved1 => orders[i].dir = d /\ credits'[i].st = "PENDING"
                           /\ MayWait(orders[i].dir)
    BY <2>1, <2>2
  <2>5. QED
    BY <2>3, <2>4
<1>3. ASSUME NEW S \in SUBSET OrderIds, Cancel(S)
      PROVE  Reserved1 \subseteq Reserved(ledger, d)
  <2>1. /\ orders' = orders
        /\ \A s \in OrderIds \ S : credits'[s] = credits[s]
        /\ \A s \in S : credits[s].st = "PENDING" /\ credits'[s].st = "CANCELLED"
    BY <1>3, CancelEffect
  <2>2. QED
    BY <2>1, ReservedUnfolded
<1>4. ASSUME UNCHANGED <<orders, credits>> PROVE Reserved1 \subseteq Reserved(ledger, d)
  <2>1. orders' = orders /\ credits' = credits
    BY <1>4
  <2>2. QED
    BY <2>1, ReservedUnfolded
<1>5. QED
  BY <1>0, <1>1, <1>2, <1>3, <1>4, StepCases

\* No transaction lifts the reservations of a direction above max_active:
\* ReservedGrows adds at most one, where there is room.
LEMMA StepReservationBound ==
  IInv /\ ReservationBound /\ [Next]_vars => ReservationBound'
<1> SUFFICES ASSUME IInv, ReservationBound, [Next]_vars, NEW d \in Directions
             PROVE  Cardinality(Reserved(ledger, d)') <= MaxActive
  BY DEF ReservationBound
<1>1. Reserved(ledger, d) \in SUBSET OrderIds
  BY ReservedUnfolded
<1>2. Cardinality(Reserved(ledger, d)) <= MaxActive
  BY DEF ReservationBound
<1>3. CASE Reserved(ledger, d)' \subseteq Reserved(ledger, d)
  BY <1>1, <1>2, <1>3, FewerIds, DurableAssumption
<1>4. CASE \E i \in OrderIds : Reserved(ledger, d)' \subseteq Reserved(ledger, d) \cup {i}
                               /\ MayWait(d)
  <2>1. /\ Cardinality(Reserved(ledger, d)) < MaxActive
        /\ Cardinality(Reserved(ledger, d)) \in Nat
    BY <1>1, <1>4, FewerIds DEF MayWait
  <2>2. PICK i \in OrderIds : Reserved(ledger, d)' \in SUBSET (Reserved(ledger, d) \cup {i})
    BY <1>4
  <2>3. Cardinality(Reserved(ledger, d)') <= Cardinality(Reserved(ledger, d)) + 1
    BY <1>1, <2>2, OneIdMore
  <2>4. Reserved(ledger, d)' \in SUBSET OrderIds
    BY <1>1, <2>2
  <2>5. Cardinality(Reserved(ledger, d)') \in Nat
    BY <2>4, FewerIds
  <2>6. QED
    BY <2>1, <2>3, <2>5, DurableAssumption
<1>5. QED
  BY <1>3, <1>4, ReservedGrows

\* Per direction, the waiting credits and the second-stage orders in flight
\* never exceed max_active together.
THEOREM ReservationsAreBounded == Spec => []ReservationBound
<1>1. Init => ReservationBound
  <2>1. ASSUME Init, NEW d \in Directions PROVE Reserved(ledger, d) = {}
    BY <2>1, ReservedUnfolded DEF Init, EmptyLedger, NoOrder
  <2>2. QED
    BY <2>1, FS_EmptySet, DurableAssumption DEF ReservationBound
<1>2. QED
  BY <1>1, InitIInv, StepIInv, StepReservationBound, PTL DEF Spec

\* The sets Capacity counts, with the definitions of the ledger unfolded.
LEMMA OpenUnfolded ==
  /\ Open(ledger) = {i \in OrderIds : orders[i].st = "OPEN"}
  /\ \A d \in Directions :
       OpenIn(ledger, d) = {i \in OrderIds : orders[i].st = "OPEN" /\ orders[i].dir = d}
  BY DEF Open, OpenIn, ledger

\* The limit of a direction is a number.
LEMMA DirLimitIsNat == \A d \in Directions : DirLimit(d) \in Nat
  BY DurableAssumption DEF DirLimit

\* A set of open orders grows by at most the order opened, and only where
\* the limit leaves room.
LEMMA StepCapacity == TypeOK /\ Capacity /\ [Next]_vars => Capacity'
<1> SUFFICES ASSUME TypeOK, Capacity, [Next]_vars PROVE Capacity'
  OBVIOUS
<1> DEFINE Open1 == {i \in OrderIds : orders'[i].st = "OPEN"}
           OpenIn1(d) == {i \in OrderIds : orders'[i].st = "OPEN" /\ orders'[i].dir = d}
<1>0. Open(ledger)' = Open1 /\ \A d \in Directions : OpenIn(ledger, d)' = OpenIn1(d)
  BY DEF Open, OpenIn, ledger
<1>1. /\ Open(ledger) \in SUBSET OrderIds
      /\ Cardinality(Open(ledger)) <= MaxOpen
      /\ \A d \in Directions : /\ OpenIn(ledger, d) \in SUBSET OrderIds
                               /\ Cardinality(OpenIn(ledger, d)) <= DirLimit(d)
  BY OpenUnfolded DEF Capacity
<1>2. ASSUME Open1 \subseteq Open(ledger),
             \A d \in Directions : OpenIn1(d) \subseteq OpenIn(ledger, d)
      PROVE  Capacity'
  <2>1. Cardinality(Open1) <= MaxOpen
    BY <1>1, <1>2, FewerIds, DurableAssumption
  <2>2. ASSUME NEW d \in Directions PROVE Cardinality(OpenIn1(d)) <= DirLimit(d)
    <3>1. OpenIn1(d) \in SUBSET OpenIn(ledger, d) /\ OpenIn(ledger, d) \in SUBSET OrderIds
      BY <1>1, <1>2
    <3>2. /\ Cardinality(OpenIn1(d)) <= Cardinality(OpenIn(ledger, d))
          /\ Cardinality(OpenIn1(d)) \in Nat /\ Cardinality(OpenIn(ledger, d)) \in Nat
      BY <3>1, FewerIds
    <3>3. QED
      BY <1>1, <3>2, DirLimitIsNat
  <2>3. QED
    BY <1>0, <2>1, <2>2 DEF Capacity, DirLimit
<1>3. ASSUME NEW i \in OrderIds, Opens(i)
      PROVE  Capacity'
  <2>1. PICK e \in Directions, t \in 1..MaxTime, s \in OrderIds \cup {0}, g \in BOOLEAN :
          OpenOrder(i, e, t, s, g)
    BY <1>3 DEF Opens
  <2>2. /\ \A j \in OrderIds \ {i} : orders'[j] = orders[j]
        /\ orders'[i].dir = e
    <3>1. orders' = [orders EXCEPT ![i] =
            [st |-> "OPEN", dir |-> e, opened |-> t, source |-> s, grants |-> g]]
      BY <2>1 DEF OpenOrder
    <3>2. QED
      BY <3>1 DEF TypeOK
  <2>3. /\ Cardinality(Open(ledger)) < MaxOpen
        /\ Cardinality(OpenIn(ledger, e)) < DirLimit(e)
    BY <2>1 DEF OpenOrder, HasRoom
  <2>4. /\ Open1 \in SUBSET (Open(ledger) \cup {i})
        /\ OpenIn1(e) \in SUBSET (OpenIn(ledger, e) \cup {i})
        /\ \A d \in Directions \ {e} : OpenIn1(d) \in SUBSET OpenIn(ledger, d)
    BY <2>2, OpenUnfolded
  <2>5. Cardinality(Open1) <= MaxOpen
    <3>1. Cardinality(Open1) <= Cardinality(Open(ledger)) + 1
      BY <1>1, <2>4, OneIdMore
    <3>2. Cardinality(Open1) \in Nat /\ Cardinality(Open(ledger)) \in Nat
      BY <1>1, FewerIds
    <3>3. QED
      BY <2>3, <3>1, <3>2, DurableAssumption
  <2>6. Cardinality(OpenIn1(e)) <= DirLimit(e)
    <3>1. Cardinality(OpenIn1(e)) <= Cardinality(OpenIn(ledger, e)) + 1
      BY <1>1, <2>4, OneIdMore
    <3>2. OpenIn1(e) \in SUBSET OrderIds
      OBVIOUS
    <3>3. Cardinality(OpenIn1(e)) \in Nat /\ Cardinality(OpenIn(ledger, e)) \in Nat
      BY <1>1, <3>2, FewerIds
    <3>4. QED
      BY <2>3, <3>1, <3>3, DirLimitIsNat
  <2>7. ASSUME NEW d \in Directions \ {e} PROVE Cardinality(OpenIn1(d)) <= DirLimit(d)
    <3>1. /\ Cardinality(OpenIn1(d)) <= Cardinality(OpenIn(ledger, d))
          /\ Cardinality(OpenIn1(d)) \in Nat /\ Cardinality(OpenIn(ledger, d)) \in Nat
      BY <1>1, <2>4, FewerIds
    <3>2. QED
      BY <1>1, <3>1, DirLimitIsNat
  <2>8. QED
    BY <1>0, <2>5, <2>6, <2>7 DEF Capacity, DirLimit
<1>4. ASSUME NEW i \in OrderIds, Settles(i)
      PROVE  Capacity'
  <2>1. /\ \A j \in OrderIds \ {i} : orders'[j] = orders[j]
        /\ orders'[i].st # "OPEN"
    BY <1>4, SettleEffect DEF Results
  <2>2. QED
    BY <1>2, <2>1, OpenUnfolded
<1>5. ASSUME orders' = orders PROVE Capacity'
  BY <1>2, <1>5, OpenUnfolded
<1>6. QED
  BY <1>3, <1>4, <1>5, CancelEffect, StepCases

\* No more orders are open than the policy allows.
THEOREM OpenOrdersAreBounded == Spec => []Capacity
<1>1. Init => Capacity
  <2> SUFFICES ASSUME Init PROVE Capacity
    OBVIOUS
  <2>1. Open(ledger) = {} /\ \A d \in Directions : OpenIn(ledger, d) = {}
    BY OpenUnfolded DEF Init, EmptyLedger, NoOrder
  <2>2. QED
    BY <2>1, FS_EmptySet, DurableAssumption, DirLimitIsNat DEF Capacity
<1>2. QED
  BY <1>1, InitTypeOK, StepTypeOK, StepCapacity, PTL DEF Spec

-----------------------------------------------------------------------------
(* Terminal rows *)

\* No transaction rewrites a settled order, the identity of an order or a
\* spent credit.
LEMMA StepTerminal ==
  ASSUME IInv, [Next]_vars
  PROVE  /\ \A i \in OrderIds : Settled(i) => orders'[i] = orders[i]
         /\ \A i \in OrderIds : orders[i].st # "NONE" =>
               orders'[i] = [orders[i] EXCEPT !.st = orders'[i].st]
         /\ \A s \in OrderIds : credits[s].st \in {"CONSUMED", "CANCELLED"} =>
               credits'[s] = credits[s]
<1> TypeOK /\ StakeProvenance
  BY DEF IInv
<1>1. ASSUME NEW j \in OrderIds, orders[j].st # "NONE", orders'[j] = orders[j]
      PROVE  orders'[j] = [orders[j] EXCEPT !.st = orders'[j].st]
  <2>1. orders[j] \in Order
    BY <1>1 DEF TypeOK, NoOrder
  <2>2. QED
    BY <1>1, <2>1 DEF Order
<1>2. ASSUME NEW i \in OrderIds, Opens(i)
      PROVE  /\ \A j \in OrderIds : orders[j].st # "NONE" => orders'[j] = orders[j]
             /\ \A r \in OrderIds : credits[r].st # "PENDING" => credits'[r] = credits[r]
  BY <1>2, OpenEffect DEF Opens
<1>3. ASSUME NEW i \in OrderIds, Settles(i)
      PROVE  /\ orders[i].st = "OPEN"
             /\ \A j \in OrderIds \ {i} : orders'[j] = orders[j]
             /\ orders'[i] = [orders[i] EXCEPT !.st = orders'[i].st]
             /\ \A r \in OrderIds : credits[r].st # "NONE" => credits'[r] = credits[r]
  <2>1. /\ orders[i].st = "OPEN" /\ orders[i] \in Order
        /\ \A j \in OrderIds \ {i} : orders'[j] = orders[j] /\ credits'[j] = credits[j]
        /\ orders'[i] \in Order
        /\ orders'[i].dir = orders[i].dir
        /\ orders'[i].opened = orders[i].opened
        /\ orders'[i].source = orders[i].source
        /\ orders'[i].grants = orders[i].grants
    BY <1>3, SettleEffect
  <2>2. orders'[i] = [orders[i] EXCEPT !.st = orders'[i].st]
    BY <2>1 DEF Order
  <2>3. credits[i].st = "NONE"
    BY <2>1, ProvenanceUnfolded
  <2>4. QED
    BY <2>1, <2>2, <2>3
<1>4. ASSUME NEW S \in SUBSET OrderIds, Cancel(S)
      PROVE  /\ orders' = orders
             /\ \A r \in OrderIds : credits[r].st # "PENDING" => credits'[r] = credits[r]
  BY <1>4, CancelEffect
<1>5. QED
  BY <1>1, <1>2, <1>3, <1>4, StepCases DEF Settled, Results

\* A settled order and a spent credit are never rewritten.
THEOREM TerminalRowsAreKept == Spec => TerminalRowsStand
<1>1. IInv /\ [Next]_vars =>
        [ /\ \A i \in OrderIds : Settled(i) => orders'[i] = orders[i]
          /\ \A i \in OrderIds : orders[i].st # "NONE" =>
               orders'[i] = [orders[i] EXCEPT !.st = orders'[i].st]
          /\ \A s \in OrderIds : credits[s].st \in {"CONSUMED", "CANCELLED"} =>
               credits'[s] = credits[s] ]_vars
  BY StepTerminal
<1>2. QED
  BY <1>1, InitIInv, StepIInv, PTL DEF Spec, TerminalRowsStand

-----------------------------------------------------------------------------
(* The guards only restrict *)

\* What a service is, and where the minute stands.
GuardTypes ==
    /\ service \in Services
    /\ pc \in {"idle", "settle", "gate", "down"}
    /\ now \in 0..MaxTime /\ now <= service.until
    /\ pc \in {"settle", "gate"} => now \in 1..MaxTime
    /\ pc = "gate" => cand \in Profiles
    /\ note = [i \in OrderIds |-> note[i]]

LEMMA ServiceFacts ==
  ASSUME NEW s \in Services
  PROVE  /\ s.until \in 0..MaxTime /\ s.orders \in 0..MaxOrders
         /\ s.batch \in Nat \ {0} /\ s.life \in Nat \ {0}
         /\ s.kind \in {"MONITOR", "ANY"} /\ MaxTime \in Nat
BY GuardAssumption, LedgerAssumption

LEMMA InitGuardTypes == GuardedInit => GuardTypes
BY ServiceFacts DEF GuardedInit, GuardTypes

LEMMA StepGuardTypes == GuardTypes /\ [GuardedNext]_<<vars, guards>> => GuardTypes'
<1> SUFFICES ASSUME GuardTypes, [GuardedNext]_<<vars, guards>> PROVE GuardTypes'
  OBVIOUS
<1>1. /\ service \in Services /\ service.until \in 0..MaxTime /\ MaxTime \in Nat
      /\ now \in 0..MaxTime
  BY ServiceFacts DEF GuardTypes
<1>2. CASE Minute \/ Pass
  <2>1. now' = now + 1 /\ now < service.until /\ service' = service
    BY <1>2 DEF Minute, Pass
  <2>2. now' \in 1..MaxTime /\ now' <= service'.until
    BY <1>1, <2>1
  <2>3. QED
    BY <1>1, <1>2, <2>1, <2>2 DEF GuardTypes, Minute, Pass
<1>3. CASE Settle \/ Anyone \/ UNCHANGED <<vars, guards>>
  BY <1>3 DEF Settle, Anyone, guards, GuardTypes
<1>4. CASE Wait \/ Refuse \/ Crash \/ Restart
  BY <1>4 DEF Wait, Refuse, Crash, Restart, GuardTypes
<1>5. ASSUME NEW k \in Profiles, Judge(k) PROVE GuardTypes'
  BY <1>5 DEF Judge, GuardTypes
<1>6. CASE Admit
  <2>1. pc = "gate" /\ pc' = "idle" /\ UNCHANGED <<service, now>>
    BY <1>6 DEF Admit, AdmitIn
  <2>2. \E i, n : note' = [note EXCEPT ![i] = n]
    BY <1>6 DEF Admit, AdmitIn
  <2>3. note' = [i \in OrderIds |-> note'[i]]
    BY <2>2 DEF GuardTypes
  <2>4. QED
    BY <2>1, <2>3 DEF GuardTypes
<1>7. QED
  BY <1>2, <1>3, <1>4, <1>5, <1>6 DEF GuardedNext, Monitor

\* The credits that may be withdrawn are credits of orders.
LEMMA WithdrawnAreIds == \A k : Withdrawn(k) \in SUBSET OrderIds
<1>1. \A d : Pending(ledger, d) \subseteq OrderIds
  BY DEF Pending, Exists
<1>2. \A d : StaleCredits(d) \subseteq Pending(ledger, d)
  BY DEF StaleCredits
<1>3. \A batch, mode, d : WithdrawnIn(batch, mode, d) \in SUBSET OrderIds
  BY <1>1, <1>2 DEF WithdrawnIn
<1>4. QED
  BY <1>3 DEF Withdrawn

LEMMA DirectionOf == \A k \in Profiles : DirOf(k) \in Directions
BY GuardAssumption DEF Profiles, DirOf

\* A set of ids that is not empty has a least one.
LEMMA LeastId ==
  ASSUME NEW S \in SUBSET OrderIds, S # {}
  PROVE  Min(S) \in S /\ \A j \in S : Min(S) <= j
<1>1. S \subseteq Nat
  BY LedgerAssumption DEF OrderIds
<1>2. \E x \in S : \A y \in S : x <= y
  BY <1>1, LeastExists
<1>3. QED
  BY <1>2 DEF Min

LEMMA GreatestId ==
  ASSUME NEW S \in SUBSET OrderIds, S # {}
  PROVE  Max(S) \in S /\ \A j \in S : j <= Max(S)
<1>1. S \subseteq 0..MaxOrders /\ MaxOrders \in Nat
  BY LedgerAssumption DEF OrderIds
<1>2. \E x \in S : \A y \in S : y <= x
  BY <1>1, GreatestExists
<1>3. QED
  BY <1>2 DEF Max

\* assign takes the eligible credit that is older than all others: there is
\* one, for credits are ordered by their expiry and then by their id.
LEMMA OldestExists ==
  ASSUME TypeOK, NEW S \in SUBSET OrderIds, S # {}, \A s \in S : orders[s].st # "NONE"
  PROVE  \E s \in S : \A r \in S \ {s} : Older(ledger, s, r)
<1> DEFINE E == {Expiry(ledger, s) : s \in S}
<1>1. \A s \in S : Expiry(ledger, s) \in Nat
  BY LedgerAssumption DEF TypeOK, Expiry, ledger, Order, NoOrder
<1>2. E \subseteq Nat /\ E # {}
  BY <1>1
<1>3. PICK e \in E : \A x \in E : e <= x
  <2> HIDE DEF E
  <2>1. QED
    BY <1>2, LeastExists
<1> DEFINE T == {s \in S : Expiry(ledger, s) = e}
<1>4. T \in SUBSET OrderIds /\ T # {}
  BY <1>3
<1>5. PICK s \in T : \A r \in T : s <= r
  <2> HIDE DEF T
  <2>1. Min(T) \in T /\ \A j \in T : Min(T) <= j
    BY <1>4, LeastId
  <2>2. QED
    BY <2>1
<1>6. ASSUME NEW r \in S \ {s} PROVE Older(ledger, s, r)
  <2>1. Expiry(ledger, r) \in E /\ Expiry(ledger, s) = e /\ e <= Expiry(ledger, r)
    BY <1>3, <1>5
  <2>2. Expiry(ledger, r) \in Nat /\ e \in Nat /\ r \in Nat /\ s \in Nat
    BY <1>1, <1>2, <1>3, LedgerAssumption DEF OrderIds
  <2>3. CASE Expiry(ledger, r) = e
    BY <1>5, <1>6, <2>1, <2>2, <2>3 DEF Older
  <2>4. CASE Expiry(ledger, r) # e
    BY <2>1, <2>2, <2>4 DEF Older
  <2>5. QED
    BY <2>3, <2>4
<1>7. QED
  BY <1>5, <1>6

LEMMA AssignFacts ==
  ASSUME TypeOK, NEW enabled \in BOOLEAN, NEW d, NEW t
  PROVE  /\ Assign(ledger, enabled, d, t) \in {0} \cup Eligible(ledger, d, t)
         /\ ~enabled => Assign(ledger, enabled, d, t) = 0
<1>1. CASE ~enabled \/ Eligible(ledger, d, t) = {}
  BY <1>1 DEF Assign
<1>2. CASE enabled /\ Eligible(ledger, d, t) # {}
  <2> DEFINE S == Eligible(ledger, d, t)
  <2>1. S \in SUBSET OrderIds /\ \A s \in S : orders[s].st # "NONE"
    BY DEF Eligible, Pending, Exists, ledger
  <2>2. \E s \in S : \A r \in S \ {s} : Older(ledger, s, r)
    <3> HIDE DEF S
    <3>1. QED
      BY <1>2, <2>1, OldestExists DEF S
  <2>3. Assign(ledger, enabled, d, t) = CHOOSE s \in S : \A r \in S \ {s} : Older(ledger, s, r)
    BY <1>2 DEF Assign
  <2> HIDE DEF S
  <2>4. Assign(ledger, enabled, d, t) \in S
    BY <2>2, <2>3
  <2>5. QED
    BY <1>2, <2>4 DEF S
<1>3. QED
  BY <1>1, <1>2

\* Every step of the service is one of the transactions of DurableLedger, or
\* it leaves the tables alone.
LEMMA StepRefines ==
  TypeOK /\ GuardTypes /\ [GuardedNext]_<<vars, guards>> => [Next]_vars
<1> SUFFICES ASSUME TypeOK, GuardTypes, [GuardedNext]_<<vars, guards>> PROVE [Next]_vars
  OBVIOUS
<1>1. CASE Minute \/ Wait \/ Refuse \/ Crash \/ Pass \/ Restart \/ UNCHANGED <<vars, guards>>
  BY <1>1 DEF Minute, Wait, Refuse, Crash, Pass, Restart
<1>2. CASE Anyone
  BY <1>2 DEF Anyone
<1>3. CASE Settle
  <2> DEFINE i == Min(Due)
  <2>1. PICK result \in Results :
           LET credit == Earned(ledger, i, result, TRUE, 1, MaxActive)
           IN  IF credit = credits[i] THEN SettleOnly(i, result)
               ELSE SettleEarning(i, credit.st)
    BY <1>3 DEF Settle
  <2>2. Due \in SUBSET OrderIds /\ Due # {}
    BY <1>3 DEF Settle, Due, Open
  <2>3. i \in OrderIds
    BY <2>2, LeastId
  <2>4. Earned(ledger, i, result, TRUE, 1, MaxActive)
          \in {Held("PENDING"), Held("CANCELLED"), credits[i]}
    BY DEF Earned, ledger
  <2>5. Held("PENDING").st = "PENDING" /\ Held("CANCELLED").st = "CANCELLED"
    BY DEF Held
  <2> HIDE DEF i
  <2>6. (\E r \in Results : SettleOnly(i, r))
           \/ (\E status \in {"PENDING", "CANCELLED"} : SettleEarning(i, status))
    BY <2>1, <2>4, <2>5
  <2>7. QED
    BY <2>3, <2>6 DEF Next
<1>4. ASSUME NEW k \in Profiles, Judge(k) PROVE [Next]_vars
  <2>1. Cancel(Withdrawn(k)) /\ Withdrawn(k) \in SUBSET OrderIds
    BY <1>4, WithdrawnAreIds DEF Judge
  <2>2. QED
    BY <2>1 DEF Next
<1>5. CASE Admit
  <2> DEFINE d == DirOf(cand)
             batch == BatchMode(d)
             probe == ProfileMode(cand) = "READY"
             source == Assign(ledger, batch = "NORMAL" /\ ~probe, d, now)
             grants == batch = "NORMAL" \/ probe
  <2>1. PICK i \in OrderIds : OpenOrder(i, d, now, source, grants)
    BY <1>5 DEF Admit, AdmitIn
  <2>2. d \in Directions /\ now \in 1..MaxTime
    BY <1>5, DirectionOf DEF Admit, GuardTypes
  <2>3. source \in {0} \cup Eligible(ledger, d, now)
    <3> HIDE DEF batch, probe, d
    <3>1. (batch = "NORMAL" /\ ~probe) \in BOOLEAN
      OBVIOUS
    <3>2. QED
      BY <3>1, AssignFacts
  <2>4. Eligible(ledger, d, now) \subseteq OrderIds
    BY DEF Eligible, Pending, Exists
  <2>5. grants \in BOOLEAN
    OBVIOUS
  <2> HIDE DEF d, source, grants
  <2>6. QED
    BY <2>1, <2>2, <2>3, <2>4, <2>5 DEF Next
<1>6. QED
  BY <1>1, <1>2, <1>3, <1>4, <1>5 DEF GuardedNext, Monitor

\* What the inductive invariant of the ledger becomes under the guards.
GInv == IInv /\ GuardTypes

LEMMA InitGInv == GuardedInit => GInv
BY InitIInv, InitGuardTypes DEF GInv, GuardedInit

LEMMA StepGInv == GInv /\ [GuardedNext]_<<vars, guards>> => GInv'
BY StepRefines, StepIInv, StepGuardTypes DEF GInv, IInv

\* The guards of the monitor only restrict what the ledger would do: under
\* them, as under any use of the ledger, only transactions of DurableLedger
\* are committed, so every theorem about it is one about the guarded service.
THEOREM GuardsOnlyRestrict == GuardedSpec => Spec
<1>1. GuardedInit => GInv
  BY InitGInv
<1>2. GInv /\ [GuardedNext]_<<vars, guards>> => GInv'
  BY StepGInv
<1>3. GInv /\ [GuardedNext]_<<vars, guards>> => [Next]_vars
  BY StepRefines DEF GInv, IInv
<1>4. GuardedInit => Init
  BY DEF GuardedInit
<1>5. QED
  BY <1>1, <1>2, <1>3, <1>4, PTL DEF Spec, GuardedSpec
\* What TLC checks of DurableLedger on its own states holds of the guarded
\* service: its second stages are earned, its reservations and its open
\* orders bounded, and its results final.
THEOREM GuardedStakesAreEarned == GuardedSpec => []StakeProvenance
  BY GuardsOnlyRestrict, StakesAreEarned, PTL

THEOREM GuardedReservationsAreBounded == GuardedSpec => []ReservationBound
  BY GuardsOnlyRestrict, ReservationsAreBounded, PTL

THEOREM GuardedOpenOrdersAreBounded == GuardedSpec => []Capacity
  BY GuardsOnlyRestrict, OpenOrdersAreBounded, PTL

THEOREM GuardedRowsAreKept == GuardedSpec => TerminalRowsStand
  BY GuardsOnlyRestrict, TerminalRowsAreKept, PTL

-----------------------------------------------------------------------------
(* A second stage belongs to its wave *)

\* Order s was opened in wave w under the selection v.
InWave(s, w, v) ==
    <<note[s].state, note[s].since, note[s].version>> = <<w.state, w.since, v>>

\* Once the candidate of the minute is judged, every credit it could use was
\* earned in the wave and under the selection it would be opened in.
JudgedInWave ==
    service.kind = "MONITOR" =>
        \A d \in Directions :
            pc = "gate" /\ DirOf(cand) = d /\ BatchMode(d) = "NORMAL" =>
                \A s \in Pending(ledger, d) : InWave(s, wave, Version)

\* What evaluate_wave_batch_guard finds depends on the orders, their notes,
\* the wave, the minute and the service, and on nothing else.
LEMMA ModeStands ==
  ASSUME UNCHANGED <<orders, note, wave, now, service>>
  PROVE  \A d : BatchMode(d)' = BatchMode(d)
<1>1. \A i : Expiry(ledger, i)' = Expiry(ledger, i)
  BY DEF Expiry, ledger
<1>2. SettledOrders' = SettledOrders /\ Exists(ledger)' = Exists(ledger) /\ Version' = Version
  BY DEF SettledOrders, Settled, Exists, ledger, Version
<1>3. \A i, j : SettledEarlier(i, j)' = SettledEarlier(i, j)
  BY <1>1 DEF SettledEarlier
<1>4. \A S : Losses(S)' = Losses(S) /\ InBatches(S)' = InBatches(S)
  BY DEF Losses, InBatches
<1>5. \A S : LastExpiry(S)' = LastExpiry(S)
  BY <1>1 DEF LastExpiry
<1>6. \A i : BatchOf(i)' = BatchOf(i)
  BY DEF BatchOf
<1>7. \A b, S : FirstOf(b, S)' = FirstOf(b, S)
  BY <1>3, <1>4, <1>6 DEF FirstOf
<1>8. \A S : FailedBatches(S)' = FailedBatches(S)
  BY <1>4, <1>6, <1>7 DEF FailedBatches
<1>9. \A S : Trigger(S)' = Trigger(S)
  BY <1>5, <1>7, <1>8 DEF Trigger
<1>10. \A t : RestedSince(t)' = RestedSince(t)
  BY DEF RestedSince
<1>11. \A t, S : RecoveryDecision(t, S)' = RecoveryDecision(t, S)
  BY <1>1, <1>10 DEF RecoveryDecision
<1>12. \A t : Recoveries(t)' = Recoveries(t)
  BY <1>2 DEF Recoveries
<1>13. RecoveryMode' = RecoveryMode
  BY <1>2, <1>9, <1>11, <1>12 DEF RecoveryMode
<1>14. \A r, S : BatchDecision(r, S)' = BatchDecision(r, S)
  BY <1>4 DEF BatchDecision
<1>15. QED
  BY <1>2, <1>4, <1>6, <1>13, <1>14 DEF BatchMode
\* The steps of the monitor that open no order leave the notes alone, and of
\* an order they change no more than its state.
LEMMA QuietEffect ==
  ASSUME TypeOK, GuardTypes,
         \/ Minute \/ Settle \/ Wait \/ Refuse \/ Crash \/ Pass \/ Restart
         \/ (\E k \in Profiles : Judge(k)) \/ UNCHANGED <<vars, guards>>
  PROVE  /\ note' = note
         /\ Exists(ledger)' = Exists(ledger)
         /\ \A i \in OrderIds : orders'[i].source = orders[i].source
<1>1. CASE Settle
  <2>1. Due \in SUBSET OrderIds /\ Due # {}
    BY <1>1 DEF Settle, Due, Open
  <2>2. Min(Due) \in OrderIds
    BY <2>1, LeastId
  <2>3. PICK i \in OrderIds, result \in Results :
           SettleOnly(i, result) \/ \E status : SettleEarning(i, status)
    BY <1>1, <2>2 DEF Settle
  <2>4. PICK r \in Results : orders' = [orders EXCEPT ![i].st = r]
    BY <2>3 DEF SettleOnly, SettleEarning, Results
  <2>5. orders[i].st = "OPEN" /\ orders[i] \in Order
    BY <2>3 DEF SettleOnly, SettleEarning, TypeOK, NoOrder
  <2>6. orders'[i].st # "NONE" /\ orders'[i].source = orders[i].source
    BY <2>4, <2>5 DEF TypeOK, Results, Order
  <2>7. \A j \in OrderIds \ {i} : orders'[j] = orders[j]
    BY <2>4 DEF TypeOK
  <2>8. QED
    BY <1>1, <2>5, <2>6, <2>7 DEF Settle, guards, Exists, ledger
<1>2. CASE Minute \/ Wait \/ Refuse \/ Crash \/ Pass \/ Restart \/ UNCHANGED <<vars, guards>>
  <2>1. note' = note /\ orders' = orders
    BY <1>2 DEF Minute, Wait, Refuse, Crash, Pass, Restart, guards, vars
  <2>2. QED
    BY <2>1 DEF Exists, ledger
<1>3. ASSUME NEW k \in Profiles, Judge(k)
      PROVE  /\ note' = note
             /\ Exists(ledger)' = Exists(ledger)
             /\ \A i \in OrderIds : orders'[i].source = orders[i].source
  <2>1. note' = note /\ orders' = orders
    BY <1>3 DEF Judge, Cancel
  <2>2. QED
    BY <2>1 DEF Exists, ledger
<1>4. QED
  BY <1>1, <1>2, <1>3

\* Judging leaves pending none but the credits that are not withdrawn.
LEMMA JudgeWithdraws ==
  ASSUME TypeOK, NEW k, Judge(k)
  PROVE  Pending(ledger, DirOf(k))' \cap Withdrawn(k) = {}
         /\ Pending(ledger, DirOf(k))' \subseteq Pending(ledger, DirOf(k))
<1>1. Cancel(Withdrawn(k))
  BY DEF Judge
<1>2. credits' = [s \in OrderIds |-> IF s \in Withdrawn(k) THEN Held("CANCELLED") ELSE credits[s]]
  BY <1>1 DEF Cancel, CancelCredits, ledger
<1>3. orders' = orders
  BY <1>1 DEF Cancel
<1>4. \A s \in OrderIds : s \in Withdrawn(k) => credits'[s].st = "CANCELLED"
  BY <1>2 DEF Held
<1>5. \A s \in OrderIds : s \notin Withdrawn(k) => credits'[s] = credits[s]
  BY <1>2
<1>6. QED
  BY <1>3, <1>4, <1>5 DEF Pending, Exists, ledger

LEMMA StepJudgedInWave ==
  GInv /\ JudgedInWave /\ [GuardedNext]_<<vars, guards>> => JudgedInWave'
<1> SUFFICES ASSUME GInv, JudgedInWave, [GuardedNext]_<<vars, guards>>,
                    (service.kind = "MONITOR")', NEW d \in Directions,
                    (pc = "gate" /\ DirOf(cand) = d /\ BatchMode(d) = "NORMAL")'
             PROVE  (\A s \in Pending(ledger, d) : InWave(s, wave, Version))'
  BY DEF JudgedInWave
<1>1. TypeOK
  BY DEF GInv, IInv
<1>2. CASE UNCHANGED <<vars, guards>>
  <2>1. UNCHANGED <<orders, credits, note, wave, now, service, pc, cand>>
    BY <1>2 DEF vars, guards
  <2>2. BatchMode(d)' = BatchMode(d)
    BY <2>1, ModeStands
  <2>3. \A s \in Pending(ledger, d) : InWave(s, wave, Version)
    BY <2>1, <2>2 DEF JudgedInWave
  <2>4. Pending(ledger, d)' = Pending(ledger, d) /\ Version' = Version
    BY <2>1 DEF Pending, Exists, ledger, Version
  <2>5. QED
    BY <2>1, <2>3, <2>4 DEF InWave
<1>3. CASE Anyone
  BY <1>3 DEF Anyone, guards
<1>4. CASE Minute \/ Settle \/ Wait \/ Refuse \/ Admit \/ Crash \/ Pass \/ Restart
  <2>1. pc' # "gate"
    BY <1>4 DEF Minute, Settle, Wait, Refuse, Admit, AdmitIn, Crash, Pass, Restart, guards
  <2>2. QED
    BY <2>1
<1>5. ASSUME NEW k \in Profiles, Judge(k)
      PROVE  (\A s \in Pending(ledger, d) : InWave(s, wave, Version))'
  <2>1. UNCHANGED <<orders, note, wave, now, service>> /\ cand' = k
    BY <1>5 DEF Judge, Cancel
  <2>2. d = DirOf(k) /\ BatchMode(d)' = "NORMAL"
    BY <2>1
  <2>3. BatchMode(d) = "NORMAL"
    BY <2>1, <2>2, ModeStands
  <2>4. Withdrawn(k) = StaleCredits(d)
    BY <2>2, <2>3 DEF Withdrawn, WithdrawnIn
  <2>5. \A s : s \in Pending(ledger, d)' => s \in Pending(ledger, d) /\ s \notin StaleCredits(d)
    BY <1>1, <1>5, <2>2, <2>4, JudgeWithdraws
  <2>6. \A s : s \in Pending(ledger, d)' => InWave(s, wave, Version)
    BY <2>5 DEF StaleCredits, InWave
  <2>7. Version' = Version
    BY <2>1 DEF Version
  <2>8. QED
    BY <2>1, <2>6, <2>7 DEF InWave
<1>6. QED
  BY <1>2, <1>3, <1>4, <1>5 DEF GuardedNext, Monitor

LEMMA StepSecondStage ==
  GInv /\ JudgedInWave /\ SecondStageInItsWave /\ [GuardedNext]_<<vars, guards>>
    => SecondStageInItsWave'
<1> SUFFICES ASSUME GInv, JudgedInWave, SecondStageInItsWave,
                    [GuardedNext]_<<vars, guards>>, (service.kind = "MONITOR")'
             PROVE  SecondStageInItsWave'
  BY DEF SecondStageInItsWave
<1>1. TypeOK /\ StakeProvenance /\ GuardTypes
  BY DEF GInv, IInv
<1>2. service' = service
  BY DEF GuardedNext, Monitor, Anyone, guards, Minute, Settle, Wait, Judge, Refuse, Admit,
         AdmitIn, Crash, Pass, Restart
<1>3. \A i \in Exists(ledger) : orders[i].source # 0 =>
         InWave(orders[i].source, note[i], note[i].version)
  BY <1>2 DEF SecondStageInItsWave, InWave
<1> SUFFICES \A i \in Exists(ledger)' : orders'[i].source # 0 =>
                <<note'[orders'[i].source].state, note'[orders'[i].source].since,
                  note'[orders'[i].source].version>>
                  = <<note'[i].state, note'[i].since, note'[i].version>>
  BY DEF SecondStageInItsWave
<1>4. CASE \/ Minute \/ Settle \/ Wait \/ Refuse \/ Crash \/ Pass \/ Restart
           \/ (\E k \in Profiles : Judge(k)) \/ UNCHANGED <<vars, guards>>
  <2>1. /\ note' = note /\ Exists(ledger)' = Exists(ledger)
        /\ \A i \in OrderIds : orders'[i].source = orders[i].source
    BY <1>1, <1>4, QuietEffect
  <2>2. Exists(ledger) \subseteq OrderIds
    BY DEF Exists
  <2>3. QED
    BY <1>3, <2>1, <2>2 DEF InWave
<1>5. CASE Anyone
  BY <1>2, <1>5 DEF Anyone
<1>6. CASE Admit
  <2> DEFINE d == DirOf(cand)
             batch == BatchMode(d)
             probe == ProfileMode(cand) = "READY"
             source == Assign(ledger, batch = "NORMAL" /\ ~probe, d, now)
             written == [key |-> cand, state |-> wave.state, since |-> wave.since,
                         version |-> Version, mode |-> batch,
                         probe |-> IF probe THEN ProfileTrigger(cand) ELSE 0]
  <2>1. PICK i \in OrderIds : /\ OpenOrder(i, d, now, source, batch = "NORMAL" \/ probe)
                              /\ note' = [note EXCEPT ![i] = written]
    BY <1>6 DEF Admit, AdmitIn
  <2>2. d \in Directions /\ pc = "gate"
    BY <1>1, <1>6, DirectionOf DEF Admit, GuardTypes
  <2>3. source # 0 => batch = "NORMAL" /\ source \in Eligible(ledger, d, now)
    <3> HIDE DEF batch, probe, d
    <3>1. (batch = "NORMAL" /\ ~probe) \in BOOLEAN
      OBVIOUS
    <3>2. QED
      BY <1>1, <3>1, AssignFacts
  <2>4. note'[i].state = wave.state /\ note'[i].since = wave.since /\ note'[i].version = Version
    <3>1. note'[i] = written
      BY <1>1, <2>1 DEF GuardTypes
    <3>2. QED
      BY <3>1
  <2>5. \A j \in OrderIds \ {i} : note'[j] = note[j] /\ orders'[j] = orders[j]
    <3> HIDE DEF source, written, batch, probe
    <3>1. QED
      BY <1>1, <2>1 DEF GuardTypes, OpenOrder, TypeOK
  <2>6. orders[i].st = "NONE" /\ orders'[i].source = source
    <3> HIDE DEF source, written, batch, probe
    <3>1. QED
      BY <1>1, <2>1 DEF OpenOrder, TypeOK
  <2> HIDE DEF source, written, probe
  <2>7. source # 0 => source \in OrderIds \ {i} /\ InWave(source, wave, Version)
    <3>1. SUFFICES ASSUME source # 0
                   PROVE  source \in OrderIds \ {i} /\ InWave(source, wave, Version)
      OBVIOUS
    <3>2. source \in Pending(ledger, d)
      BY <2>3, <3>1 DEF Eligible
    <3>3. source \in OrderIds /\ orders[source].st # "NONE"
      BY <3>2 DEF Pending, Exists, ledger
    <3>4. InWave(source, wave, Version)
      BY <1>2, <2>2, <2>3, <3>1, <3>2 DEF JudgedInWave
    <3>5. QED
      BY <2>6, <3>3, <3>4
  <2>8. \A j \in Exists(ledger) : orders[j].source # 0 => orders[j].source \in OrderIds \ {i}
    <3>1. TAKE j \in Exists(ledger)
    <3>2. HAVE orders[j].source # 0
    <3>3. credits[orders[j].source].st = "CONSUMED"
      BY <1>1, <3>2 DEF StakeProvenance
    <3>4. j \in OrderIds /\ orders[j] \in Order
      BY <1>1 DEF TypeOK, Exists, ledger, NoOrder
    <3>5. orders[j].source \in OrderIds
      BY <3>2, <3>4 DEF Order
    <3>6. orders[orders[j].source].st = "WIN"
      BY <1>1, <3>3, <3>5 DEF StakeProvenance, SourceIsWonBaseOrder
    <3>7. QED
      BY <2>6, <3>5, <3>6
  <2>9. ASSUME NEW j \in Exists(ledger)', orders'[j].source # 0
        PROVE  <<note'[orders'[j].source].state, note'[orders'[j].source].since,
                 note'[orders'[j].source].version>>
                 = <<note'[j].state, note'[j].since, note'[j].version>>
    <3>1. CASE j = i
      <4>1. orders'[j].source = source /\ source \in OrderIds \ {i}
            /\ InWave(source, wave, Version)
        BY <2>6, <2>7, <2>9, <3>1
      <4>2. note'[source] = note[source]
        BY <2>5, <4>1
      <4>3. QED
        BY <2>4, <3>1, <4>1, <4>2 DEF InWave
    <3>2. CASE j # i
      <4>1. j \in OrderIds \ {i}
        BY <3>2 DEF Exists
      <4>2. orders'[j] = orders[j] /\ note'[j] = note[j] /\ j \in Exists(ledger)
        BY <2>5, <4>1 DEF Exists, ledger
      <4>3. orders[j].source \in OrderIds \ {i}
        BY <2>8, <2>9, <4>2
      <4>4. note'[orders[j].source] = note[orders[j].source]
        BY <2>5, <4>3
      <4>5. QED
        BY <1>3, <2>9, <4>2, <4>4 DEF InWave
    <3>3. QED
      BY <3>1, <3>2
  <2>10. QED
    BY <2>9
<1>7. QED
  BY <1>4, <1>5, <1>6 DEF GuardedNext, Monitor

\* Every second-stage order was opened in the wave and under the selection in
\* which the credit that pays for it was earned: the credits of other waves
\* are withdrawn when a candidate is judged, the wave and the selection stay
\* what they are until it is opened, and a restart resumes the saved wave
\* before it judges anything.
THEOREM SecondStagesKeepTheirWave == GuardedSpec => []SecondStageInItsWave
<1>1. GuardedInit => GInv
  BY InitGInv
<1>2. GuardedInit => JudgedInWave /\ SecondStageInItsWave
  BY DEF GuardedInit, JudgedInWave, SecondStageInItsWave, Init, EmptyLedger, Exists, ledger,
         NoOrder
<1>3. GInv /\ [GuardedNext]_<<vars, guards>> => GInv'
  BY StepGInv
<1>4. QED
  BY <1>1, <1>2, <1>3, StepJudgedInWave, StepSecondStage, PTL DEF GuardedSpec
-----------------------------------------------------------------------------
(* After losses, one order at a time *)

\* Orders are opened one after the other, and settled once they have expired.
NothingAhead ==
    /\ \A i, j \in Exists(ledger) : i < j => orders[i].opened <= orders[j].opened
    /\ \A i \in Exists(ledger) : orders[i].opened <= now
    /\ \A i \in SettledOrders : Expiry(ledger, i) <= now

\* What is open although it had expired when another order was opened has
\* left the klines, and stays open.
SettledInTime ==
    /\ pc = "gate" => Due = {}
    /\ \A i \in Exists(ledger), j \in Open(ledger) :
          Expiry(ledger, j) <= orders[i].opened => now - Expiry(ledger, j) >= History

\* An order of a profile that had lost LossStreak in a row is its probe.
KnownOfProfile(i) == OfProfile(Known(i), note[i].key, note[i].version)
Probes(i) ==
    Cardinality(Trailing(KnownOfProfile(i))) >= LossStreak =>
       note[i].probe = LastExpiry(KnownOfProfile(i))

\* An order after batches that failed together is a recovery order, unless
\* the last one before it was known to have won.
Rest(i) == Trigger(Known(i))
Tries(i) == {k \in Recoveries(Rest(i) + WaveCooldown) : k < i}
Regained(i) ==
    Tries(i) # {} /\ Max(Tries(i)) \in Known(i) /\ orders[Max(Tries(i))].st = "WIN"
Recovers(i) ==
    Rest(i) # 0 /\ ~Regained(i) =>
       note[i].mode = "RECOVERY" /\ orders[i].opened >= Rest(i) + WaveCooldown

\* What RestAfterLosses says of an order.
WonSince(i) ==
    {j \in Known(i) : /\ note[j].mode = "RECOVERY" /\ orders[j].st = "WIN"
                      /\ orders[j].opened >= Rest(i) + WaveCooldown}
ProbesAlone(i) ==
    Cardinality(Trailing(KnownOfProfile(i))) >= LossStreak =>
       Alone(i, OfProfile(Exists(ledger), note[i].key, note[i].version))
RecoversAlone(i) == Rest(i) # 0 /\ WonSince(i) = {} => Alone(i, Exists(ledger))

RestInv ==
    service.kind = "MONITOR" =>
       /\ NothingAhead /\ SettledInTime
       /\ \A i \in Exists(ledger) :
             Probes(i) /\ Recovers(i) /\ ProbesAlone(i) /\ RecoversAlone(i)

\* The orders that exist are typed, and are open or settled.
LEMMA ExistingOrders ==
  ASSUME TypeOK
  PROVE  /\ Exists(ledger) = SettledOrders \cup Open(ledger)
         /\ SettledOrders \cap Open(ledger) = {}
         /\ \A i \in Exists(ledger) :
               /\ i \in OrderIds /\ i \in Nat
               /\ orders[i] \in Order /\ orders[i].opened \in 1..MaxTime
               /\ Expiry(ledger, i) = orders[i].opened + Lifetime
               /\ Expiry(ledger, i) \in 0..(MaxTime + Lifetime)
               /\ orders[i].opened \in Int /\ Expiry(ledger, i) \in Int
               /\ orders[i].opened < Expiry(ledger, i)
<1>1. MaxOrders \in Nat /\ MaxTime \in Nat /\ Lifetime \in Nat \ {0}
  BY LedgerAssumption
<1>2. \A i \in OrderIds : orders[i] \in Order \cup {NoOrder} /\ i \in Nat
  BY <1>1 DEF TypeOK, OrderIds
<1>3. \A o \in Order : /\ o.st \in {"OPEN", "WIN", "LOSS"} /\ o.opened \in 1..MaxTime
  BY DEF Order, Results
<1>4. NoOrder.st = "NONE"
  BY DEF NoOrder
<1>5. \A i \in OrderIds : orders[i].st # "NONE" => orders[i] \in Order
  BY <1>2, <1>4
<1>6. \A i \in OrderIds : orders[i].st # "NONE" <=> orders[i].st \in Results \/ orders[i].st = "OPEN"
  BY <1>3, <1>5 DEF Results
<1>7. Exists(ledger) = SettledOrders \cup Open(ledger) /\ SettledOrders \cap Open(ledger) = {}
  BY <1>6 DEF Exists, Open, SettledOrders, Settled, ledger, Results
<1>8. ASSUME NEW i \in Exists(ledger)
      PROVE  /\ i \in OrderIds /\ i \in Nat
             /\ orders[i] \in Order /\ orders[i].opened \in 1..MaxTime
             /\ Expiry(ledger, i) = orders[i].opened + Lifetime
             /\ Expiry(ledger, i) \in 0..(MaxTime + Lifetime)
             /\ orders[i].opened \in Int /\ Expiry(ledger, i) \in Int
             /\ orders[i].opened < Expiry(ledger, i)
  <2>1. i \in OrderIds /\ orders[i].st # "NONE"
    BY <1>8 DEF Exists, ledger
  <2>2. i \in Nat /\ orders[i] \in Order /\ orders[i].opened \in 1..MaxTime
    BY <1>2, <1>3, <1>5, <2>1
  <2>3. Expiry(ledger, i) = orders[i].opened + Lifetime
    BY DEF Expiry, ledger
  <2>4. QED
    BY <1>1, <2>1, <2>2, <2>3
<1>9. QED
  BY <1>7, <1>8

\* The last expiry of a set of orders is that of one of them, or 0.
LEMMA LastExpiryFacts ==
  ASSUME TypeOK, NEW S \in SUBSET Exists(ledger)
  PROVE  /\ LastExpiry(S) \in Nat
         /\ \A i \in S : Expiry(ledger, i) <= LastExpiry(S)
         /\ LastExpiry(S) = 0 \/ \E i \in S : LastExpiry(S) = Expiry(ledger, i)
<1> DEFINE E == {0} \cup {Expiry(ledger, i) : i \in S}
<1>1. MaxTime + Lifetime \in Nat
  BY LedgerAssumption
<1>2. \A i \in S : Expiry(ledger, i) \in 0..(MaxTime + Lifetime)
  BY ExistingOrders
<1>3. E \subseteq 0..(MaxTime + Lifetime) /\ E # {}
  BY <1>1, <1>2
<1>4. \E x \in E : \A y \in E : y <= x
  <2> HIDE DEF E
  <2>1. QED
    BY <1>1, <1>3, GreatestExists
<1>5. LastExpiry(S) = CHOOSE x \in E : \A y \in E : x >= y
  BY DEF LastExpiry, Max
<1>6. LastExpiry(S) \in E /\ \A y \in E : y <= LastExpiry(S)
  <2> HIDE DEF E
  <2>1. E \subseteq Int
    BY <1>3
  <2>2. \E x \in E : \A y \in E : x >= y
    BY <1>4, <2>1
  <2>3. LastExpiry(S) \in E /\ \A y \in E : LastExpiry(S) >= y
    BY <1>5, <2>2
  <2>4. QED
    BY <2>1, <2>3
<1>7. \A i \in S : Expiry(ledger, i) <= LastExpiry(S)
  BY <1>6
<1>8. LastExpiry(S) \in Nat
  BY <1>3, <1>6
<1>9. QED
  BY <1>6, <1>7, <1>8

\* What the guards find among the orders S depends on these and on their
\* notes only.
Unchanged(S) ==
    service' = service /\ \A i \in S : orders'[i] = orders[i] /\ note'[i] = note[i]

LEMMA FindingsStand ==
  \A S : Unchanged(S) =>
     /\ Trigger(S)' = Trigger(S)
     /\ Trailing(S)' = Trailing(S)
     /\ LastExpiry(S)' = LastExpiry(S)
     /\ \A k, v : OfProfile(S, k, v)' = OfProfile(S, k, v)
<1> SUFFICES ASSUME NEW S, Unchanged(S)
             PROVE  /\ Trigger(S)' = Trigger(S)
                    /\ Trailing(S)' = Trailing(S)
                    /\ LastExpiry(S)' = LastExpiry(S)
                    /\ \A k, v : OfProfile(S, k, v)' = OfProfile(S, k, v)
  OBVIOUS
<1>1. \A i \in S : /\ orders'[i] = orders[i] /\ note'[i] = note[i]
                   /\ Expiry(ledger, i)' = Expiry(ledger, i) /\ BatchOf(i)' = BatchOf(i)
  BY DEF Unchanged, Expiry, ledger, BatchOf
<1>2. \A i, j \in S : SettledEarlier(i, j)' <=> SettledEarlier(i, j)
  BY <1>1 DEF SettledEarlier
<1>3. \A T \in SUBSET S : Losses(T)' = Losses(T) /\ LastExpiry(T)' = LastExpiry(T)
  <2>1. TAKE T \in SUBSET S
  <2>2. Losses(T)' = Losses(T)
    BY <1>1 DEF Losses
  <2>3. {Expiry(ledger, i)' : i \in T} = {Expiry(ledger, i) : i \in T}
    BY <1>1
  <2>4. QED
    BY <2>2, <2>3 DEF LastExpiry
<1>4. Trailing(S)' = Trailing(S)
  <2>1. Losses(S)' = Losses(S) /\ Losses(S) \subseteq S
    BY <1>3 DEF Losses
  <2>2. QED
    BY <1>1, <1>2, <2>1 DEF Trailing
<1>5. InBatches(S)' = InBatches(S) /\ InBatches(S) \subseteq S
  BY <1>1 DEF InBatches
<1>6. \A b : FirstOf(b, S)' = FirstOf(b, S) /\ FirstOf(b, S) \subseteq S
  <2>1. TAKE b
  <2> DEFINE in == {i \in InBatches(S) : BatchOf(i) = b}
  <2>2. in' = in /\ in \subseteq S
    BY <1>1, <1>5
  <2>3. \A i \in in : {j \in in : SettledEarlier(j, i)'} = {j \in in : SettledEarlier(j, i)}
    BY <1>2, <2>2
  <2>4. FirstOf(b, S) = {i \in in : Cardinality({j \in in : SettledEarlier(j, i)}) < service.batch}
    BY DEF FirstOf
  <2>5. FirstOf(b, S)' = {i \in in' : Cardinality({j \in in' : SettledEarlier(j, i)'}) < service'.batch}
    BY DEF FirstOf
  <2> HIDE DEF in
  <2>6. service' = service
    BY DEF Unchanged
  <2>7. FirstOf(b, S)' = {i \in in : Cardinality({j \in in : SettledEarlier(j, i)'}) < service.batch}
    BY <2>2, <2>5, <2>6
  <2>8. QED
    BY <2>2, <2>3, <2>4, <2>7
<1>7. FailedBatches(S)' = FailedBatches(S)
  <2>1. {BatchOf(i)' : i \in InBatches(S)'} = {BatchOf(i) : i \in InBatches(S)}
    BY <1>1, <1>5
  <2>2. \A b : Losses(FirstOf(b, S))' = Losses(FirstOf(b, S))
    BY <1>3, <1>6
  <2>3. service' = service
    BY DEF Unchanged
  <2>4. QED
    BY <1>6, <2>1, <2>2, <2>3 DEF FailedBatches
<1>8. \A b : LastExpiry(FirstOf(b, S))' = LastExpiry(FirstOf(b, S))
  BY <1>3, <1>6
<1>9. Trigger(S)' = Trigger(S)
  BY <1>7, <1>8 DEF Trigger
<1>10. \A k, v : OfProfile(S, k, v)' = OfProfile(S, k, v)
  BY <1>1 DEF OfProfile
<1>11. QED
  BY <1>3, <1>4, <1>9, <1>10

\* The orders of a batch, and those of them settled before order i.
In(T, b) == {i \in InBatches(T) : BatchOf(i) = b}
Before(T, b, i) == {j \in In(T, b) : SettledEarlier(j, i)}

\* Among the orders that had expired by t, a batch has failed if it has among
\* all of them and its last order had expired by t.
LEMMA FailedEarlier ==
  ASSUME TypeOK, GuardTypes, NEW S \in SUBSET Exists(ledger), NEW t \in Nat,
         NEW K, K = {i \in S : Expiry(ledger, i) <= t}
  PROVE  /\ FailedBatches(K) = {b \in FailedBatches(S) : LastExpiry(FirstOf(b, S)) <= t}
         /\ \A b \in FailedBatches(K) : FirstOf(b, K) = FirstOf(b, S)
<1>1. service.batch \in Nat \ {0}
  BY ServiceFacts DEF GuardTypes
<1>2. S \subseteq OrderIds /\ K \subseteq S
  BY ExistingOrders
<1>3. \A T, b : FirstOf(b, T) = {i \in In(T, b) : Cardinality(Before(T, b, i)) < service.batch}
  BY DEF FirstOf, In, Before
<1>4. \A b : In(S, b) \subseteq S /\ In(K, b) = In(S, b) \cap K
  BY <1>2 DEF In, InBatches
<1>5. \A i, j \in S : SettledEarlier(j, i) => Expiry(ledger, j) <= Expiry(ledger, i)
  BY ExistingOrders DEF SettledEarlier
<1>6. \A b : \A i \in K : Before(K, b, i) = Before(S, b, i)
  <2>1. TAKE b
  <2>2. TAKE i \in K
  <2>3. ASSUME NEW j \in Before(S, b, i) PROVE j \in K
    <3>1. j \in S /\ SettledEarlier(j, i)
      BY <1>4 DEF Before
    <3>2. Expiry(ledger, j) <= Expiry(ledger, i) /\ Expiry(ledger, i) <= t
      BY <1>2, <1>5, <3>1
    <3>3. Expiry(ledger, j) \in Int /\ Expiry(ledger, i) \in Int
      BY <1>2, <3>1, ExistingOrders
    <3>4. QED
      BY <3>1, <3>2, <3>3
  <2>4. QED
    BY <1>4, <2>3 DEF Before
<1>7. \A b : FirstOf(b, K) = FirstOf(b, S) \cap K
  <2>1. TAKE b
  <2>2. In(K, b) = In(S, b) \cap K /\ \A i \in K : Before(K, b, i) = Before(S, b, i)
    BY <1>4, <1>6
  <2>3. /\ FirstOf(b, K) = {i \in In(K, b) : Cardinality(Before(K, b, i)) < service.batch}
        /\ FirstOf(b, S) = {i \in In(S, b) : Cardinality(Before(S, b, i)) < service.batch}
    BY <1>3
  <2>4. QED
    BY <2>2, <2>3
<1>8. ASSUME NEW b, Cardinality(FirstOf(b, K)) = service.batch
      PROVE  FirstOf(b, S) \subseteq K
  <2> SUFFICES ASSUME NEW i \in FirstOf(b, S), i \notin K PROVE FALSE
    OBVIOUS
  <2>1. i \in S /\ Cardinality(Before(S, b, i)) < service.batch
    BY <1>3, <1>4
  <2>2. ASSUME NEW j \in FirstOf(b, K) PROVE j \in Before(S, b, i)
    <3>1. j \in K /\ j \in In(S, b)
      BY <1>3, <1>7
    <3>2. Expiry(ledger, j) \in Int /\ Expiry(ledger, i) \in Int
      BY <1>2, <2>1, <3>1, ExistingOrders
    <3>3. Expiry(ledger, j) < Expiry(ledger, i)
      BY <2>1, <3>1, <3>2
    <3>4. QED
      BY <3>1, <3>3 DEF SettledEarlier, Before
  <2>3. Before(S, b, i) \in SUBSET OrderIds
    BY <1>2, <1>4 DEF Before
  <2>4. IsFiniteSet(Before(S, b, i))
    BY <2>3, IdsFinite
  <2>5. Cardinality(FirstOf(b, K)) <= Cardinality(Before(S, b, i))
    <3>1. FirstOf(b, K) \in SUBSET Before(S, b, i)
      BY <2>2
    <3>2. QED
      BY <2>4, <3>1, FS_Subset
  <2>6. Cardinality(Before(S, b, i)) \in Nat
    BY <2>4, FS_CardinalityType
  <2>7. QED
    BY <1>1, <1>8, <2>1, <2>5, <2>6
<1>9. \A T, b : b \in FailedBatches(T) <=>
         /\ \E i \in InBatches(T) : BatchOf(i) = b
         /\ Cardinality(FirstOf(b, T)) = service.batch
         /\ FirstOf(b, T) = Losses(FirstOf(b, T))
  BY DEF FailedBatches
<1>10. InBatches(K) = InBatches(S) \cap K
  BY <1>2 DEF InBatches
<1>11. \A b : FirstOf(b, S) \in SUBSET Exists(ledger) /\ FirstOf(b, S) \in SUBSET OrderIds
  BY <1>2, <1>3, <1>4
<1>12. ASSUME NEW b \in FailedBatches(K)
       PROVE  /\ FirstOf(b, K) = FirstOf(b, S)
              /\ b \in FailedBatches(S) /\ LastExpiry(FirstOf(b, S)) <= t
  <2>1. Cardinality(FirstOf(b, K)) = service.batch
    BY <1>9
  <2>2. FirstOf(b, S) \subseteq K
    BY <1>8, <2>1
  <2>3. FirstOf(b, K) = FirstOf(b, S)
    BY <1>7, <2>2
  <2>4. b \in FailedBatches(S)
    BY <1>9, <1>10, <2>3
  <2>5. \A i \in FirstOf(b, S) : Expiry(ledger, i) <= t
    BY <2>2
  <2>6. LastExpiry(FirstOf(b, S)) <= t
    BY <1>11, <2>5, LastExpiryFacts
  <2>7. QED
    BY <2>3, <2>4, <2>6
<1>13. ASSUME NEW b \in FailedBatches(S), LastExpiry(FirstOf(b, S)) <= t
       PROVE  b \in FailedBatches(K)
  <2>1. \A i \in FirstOf(b, S) : i \in S /\ Expiry(ledger, i) <= LastExpiry(FirstOf(b, S))
    BY <1>3, <1>4, <1>11, LastExpiryFacts
  <2>2. LastExpiry(FirstOf(b, S)) \in Nat
    BY <1>11, LastExpiryFacts
  <2>3. \A i \in FirstOf(b, S) : Expiry(ledger, i) \in Int
    BY <1>11, ExistingOrders
  <2>4. \A i \in FirstOf(b, S) : Expiry(ledger, i) <= t
    BY <2>1, <2>2, <2>3, <1>13
  <2>5. FirstOf(b, S) \subseteq K
    BY <2>1, <2>4
  <2>6. FirstOf(b, K) = FirstOf(b, S)
    BY <1>7, <2>5
  <2>7. FirstOf(b, S) # {}
    <3>1. Cardinality(FirstOf(b, S)) = service.batch
      BY <1>9
    <3>2. Cardinality({}) = 0
      BY FS_EmptySet
    <3>3. QED
      BY <1>1, <3>1, <3>2
  <2>8. PICK i \in FirstOf(b, S) : TRUE
    BY <2>7
  <2>9. i \in InBatches(K) /\ BatchOf(i) = b
    <3>1. i \in In(S, b) /\ i \in K
      BY <1>3, <2>5
    <3>2. QED
      BY <1>10, <3>1 DEF In
  <2>10. QED
    BY <1>9, <2>6, <2>9
<1>14. QED
  BY <1>12, <1>13

\* The batches that failed no longer than FailedWindow before b.
Near(times, b) ==
    {c \in DOMAIN times : times[c] <= times[b] /\ times[b] - times[c] <= FailedWindow}

\* g has the times of f up to t.
Until(g, f, t) ==
    /\ \E n \in Nat : f \in [DOMAIN f -> 0..n]
    /\ \A b : b \in DOMAIN g <=> b \in DOMAIN f /\ f[b] <= t
    /\ \A b \in DOMAIN g : g[b] = f[b]

\* The batches that failed after the last trigger do not move it.
LEMMA TriggerOfEarlier ==
  ASSUME NEW f, NEW g, NEW t \in Nat, Until(g, f, t), TriggerOf(f) <= t
  PROVE  TriggerOf(g) = TriggerOf(f)
<1> DEFINE D == DOMAIN f
           C == DOMAIN g
<1>1. PICK n \in Nat : f \in [D -> 0..n]
  BY DEF Until
<1>2. \A b : b \in C <=> b \in D /\ f[b] <= t
  BY DEF Until
<1>3. \A b \in C : g[b] = f[b]
  BY DEF Until
<1> DEFINE F == {f[b] : b \in {c \in D : Cardinality(Near(f, c)) >= FailedToRest}}
           G == {g[b] : b \in {c \in C : Cardinality(Near(g, c)) >= FailedToRest}}
<1>4. TriggerOf(f) = Max({0} \cup F) /\ TriggerOf(g) = Max({0} \cup G)
  BY DEF TriggerOf, Near
<1>5. \A b \in D : f[b] \in 0..n
  BY <1>1
<1>6. {0} \cup F \subseteq 0..n
  BY <1>5
<1>7. \A x \in F : x <= t
  <2> HIDE DEF F
  <2>1. \E x \in {0} \cup F : \A y \in {0} \cup F : y <= x
    BY <1>6, GreatestExists
  <2>2. {0} \cup F \subseteq Int
    BY <1>6
  <2>3. \E x \in {0} \cup F : \A y \in {0} \cup F : x >= y
    BY <2>1, <2>2
  <2>4. Max({0} \cup F) \in {0} \cup F /\ \A y \in {0} \cup F : Max({0} \cup F) >= y
    BY <2>3 DEF Max
  <2>5. QED
    BY <1>4, <2>2, <2>4
<1>8. \A b \in C : Near(g, b) = Near(f, b)
  <2>1. TAKE b \in C
  <2>2. f[b] <= t /\ f[b] \in Int /\ g[b] = f[b]
    BY <1>5, <1>2, <1>3
  <2>3. ASSUME NEW c \in Near(f, b) PROVE c \in C
    <3>1. c \in D /\ f[c] \in Int /\ f[c] <= f[b]
      BY <1>5 DEF Near
    <3>2. QED
      BY <1>2, <2>2, <3>1
  <2>4. QED
    BY <1>2, <1>3, <2>2, <2>3 DEF Near
<1>9. F = G
  <2>1. ASSUME NEW b \in D, Cardinality(Near(f, b)) >= FailedToRest
        PROVE  b \in C /\ Cardinality(Near(g, b)) >= FailedToRest
    <3>1. f[b] \in F
      BY <2>1
    <3>2. b \in C
      BY <1>7, <1>2, <2>1, <3>1
    <3>3. Near(g, b) = Near(f, b)
      BY <1>8, <3>2
    <3>4. QED
      BY <2>1, <3>2, <3>3
  <2>2. ASSUME NEW b \in C, Cardinality(Near(g, b)) >= FailedToRest
        PROVE  b \in D /\ Cardinality(Near(f, b)) >= FailedToRest
    BY <1>8, <1>2, <2>2
  <2>3. QED
    BY <1>3, <2>1, <2>2
<1>10. QED
  BY <1>4, <1>9

\* So what the guard found when the last trigger was past is what it finds now.
LEMMA TriggerEarlier ==
  ASSUME TypeOK, GuardTypes, NEW S \in SUBSET Exists(ledger), NEW t \in Nat,
         NEW K, K = {i \in S : Expiry(ledger, i) <= t}, Trigger(S) <= t
  PROVE  Trigger(K) = Trigger(S)
<1> DEFINE N == MaxTime + Lifetime
           f == [b \in FailedBatches(S) |-> LastExpiry(FirstOf(b, S))]
           g == [b \in FailedBatches(K) |-> LastExpiry(FirstOf(b, K))]
<1>1. N \in Nat
  BY LedgerAssumption
<1>2. \A T \in SUBSET Exists(ledger) : LastExpiry(T) \in 0..N
  <2>1. TAKE T \in SUBSET Exists(ledger)
  <2>2. \A i \in T : Expiry(ledger, i) \in 0..N
    BY ExistingOrders
  <2>3. LastExpiry(T) = 0 \/ \E i \in T : LastExpiry(T) = Expiry(ledger, i)
    BY LastExpiryFacts
  <2>4. QED
    BY <1>1, <2>2, <2>3
<1>3. \A T, b : FirstOf(b, T) \subseteq T
  BY DEF FirstOf, InBatches
<1>4. /\ FailedBatches(K) = {b \in FailedBatches(S) : LastExpiry(FirstOf(b, S)) <= t}
      /\ \A b \in FailedBatches(K) : FirstOf(b, K) = FirstOf(b, S)
  BY FailedEarlier
<1>5. f \in [FailedBatches(S) -> 0..N] /\ g \in [FailedBatches(K) -> 0..N]
  <2>1. \A b : FirstOf(b, S) \in SUBSET Exists(ledger) /\ FirstOf(b, K) \in SUBSET Exists(ledger)
    BY <1>3
  <2>2. QED
    BY <1>2, <2>1
<1>6. \A b : b \in FailedBatches(K) <=> b \in FailedBatches(S) /\ f[b] <= t
  BY <1>4
<1>7. \A b \in FailedBatches(K) : g[b] = f[b]
  BY <1>4
<1>8. Trigger(S) = TriggerOf(f) /\ Trigger(K) = TriggerOf(g)
  BY DEF Trigger
<1>9. TriggerOf(f) <= t
  BY <1>8
<1>10. DOMAIN f = FailedBatches(S) /\ DOMAIN g = FailedBatches(K)
  OBVIOUS
<1> HIDE DEF N, f, g
<1>11. Until(g, f, t)
  BY <1>1, <1>5, <1>6, <1>7, <1>10 DEF Until
<1>12. QED
  BY <1>8, <1>9, <1>11, TriggerOfEarlier

\* The trigger is a time.
LEMMA TriggerIsNat ==
  ASSUME TypeOK, NEW S \in SUBSET Exists(ledger)
  PROVE  Trigger(S) \in Nat
<1> DEFINE f == [b \in FailedBatches(S) |-> LastExpiry(FirstOf(b, S))]
           F == {0} \cup {f[b] : b \in {c \in DOMAIN f : Cardinality(Near(f, c)) >= FailedToRest}}
<1>1. Trigger(S) = Max(F)
  BY DEF Trigger, TriggerOf, Near
<1>2. MaxTime + Lifetime \in Nat
  BY LedgerAssumption
<1>3. \A b \in FailedBatches(S) : f[b] \in 0..(MaxTime + Lifetime)
  <2>1. TAKE b \in FailedBatches(S)
  <2>2. FirstOf(b, S) \in SUBSET Exists(ledger)
    BY DEF FirstOf, InBatches
  <2>3. \A i \in FirstOf(b, S) : Expiry(ledger, i) \in 0..(MaxTime + Lifetime)
    BY <2>2, ExistingOrders
  <2>4. \/ LastExpiry(FirstOf(b, S)) = 0
        \/ \E i \in FirstOf(b, S) : LastExpiry(FirstOf(b, S)) = Expiry(ledger, i)
    BY <2>2, LastExpiryFacts
  <2>5. QED
    BY <1>2, <2>3, <2>4
<1>4. F \subseteq 0..(MaxTime + Lifetime) /\ F # {} /\ F \subseteq Nat
  <2>1. 0 \in 0..(MaxTime + Lifetime)
    BY <1>2
  <2>2. ASSUME NEW x \in F, x # 0 PROVE x \in 0..(MaxTime + Lifetime)
    <3>1. PICK b \in FailedBatches(S) : x = f[b]
      BY <2>2
    <3>2. QED
      BY <1>3, <3>1
  <2>3. F # {}
    OBVIOUS
  <2> HIDE DEF F
  <2>4. QED
    BY <1>2, <2>1, <2>2, <2>3
<1> HIDE DEF F
<1>5. \E x \in F : \A y \in F : y <= x
  BY <1>2, <1>4, GreatestExists
<1>6. \E x \in F : \A y \in F : x >= y
  BY <1>4, <1>5
<1>7. Max(F) \in F
  BY <1>6 DEF Max
<1>8. QED
  BY <1>1, <1>4, <1>7

\* What is known at the time of an order is what was settled of what had expired.
LEMMA KnownUnfolded ==
  \A i : Known(i) = {j \in SettledOrders : Expiry(ledger, j) <= orders[i].opened}
BY DEF Known

\* The trigger and the recovery orders that an order opened after the trigger
\* was judged by are those of now, as far as they precede it.
LEMMA JudgedAlike ==
  ASSUME TypeOK, GuardTypes, NEW j \in Exists(ledger), Trigger(SettledOrders) <= orders[j].opened
  PROVE  /\ Rest(j) = Trigger(SettledOrders)
         /\ Tries(j) = {k \in Recoveries(Trigger(SettledOrders) + WaveCooldown) : k < j}
<1>1. orders[j].opened \in Nat /\ SettledOrders \in SUBSET Exists(ledger)
  BY ExistingOrders
<1>2. Rest(j) = Trigger(SettledOrders)
  BY <1>1, KnownUnfolded, TriggerEarlier DEF Rest
<1>3. QED
  BY <1>2 DEF Tries

\* When the batch guard admits an order after batches that failed together,
\* the last recovery order has won, or the order is a recovery order and
\* all others have expired.
LEMMA AdmittedToRecover ==
  ASSUME TypeOK, GuardTypes, NothingAhead, \A j \in Exists(ledger) : Recovers(j),
         NEW d, BatchMode(d) \in {"NORMAL", "RECOVERY"},
         NEW rest, rest = Trigger(SettledOrders), rest # 0,
         NEW tries, tries = Recoveries(rest + WaveCooldown)
  PROVE  \/ tries # {} /\ Max(tries) \in SettledOrders /\ orders[Max(tries)].st = "WIN"
         \/ /\ BatchMode(d) = "RECOVERY" /\ now >= rest + WaveCooldown
            /\ \A j \in Exists(ledger) : Expiry(ledger, j) <= now
<1>1. /\ WaveCooldown \in Nat /\ Lifetime \in Nat \ {0} /\ WaveCooldown >= Lifetime
      /\ now \in Nat
  BY GuardAssumption, LedgerAssumption DEF GuardTypes
<1>2. SettledOrders \in SUBSET Exists(ledger)
  BY ExistingOrders
<1>3. rest \in Nat
  BY <1>2, TriggerIsNat
<1>4. /\ tries \in SUBSET Exists(ledger) /\ tries \in SUBSET OrderIds
      /\ \A k \in Exists(ledger) : k \in tries <=>
            note[k].mode = "RECOVERY" /\ orders[k].opened >= rest + WaveCooldown
  BY ExistingOrders DEF Recoveries
<1>5. RecoveryMode = RecoveryDecision(rest, tries)
  BY DEF RecoveryMode
<1>6. RecoveryMode \in {"NONE", "RECOVERY"} /\ (RecoveryMode = "RECOVERY" => BatchMode(d) = "RECOVERY")
  <2>1. RecoveryMode # "NONE" => BatchMode(d) = RecoveryMode
    BY DEF BatchMode, BatchDecision
  <2>2. CASE RecoveryMode = "NONE"
    BY <2>2
  <2>3. CASE RecoveryMode # "NONE"
    <3>1. RecoveryMode \in {"COOLDOWN", "RECOVERY", "PENDING"}
      <4>1. tries # {} => orders[Max(tries)].st \in {"OPEN", "WIN", "LOSS"}
        <5>1. ASSUME tries # {} PROVE Max(tries) \in Exists(ledger)
          BY <1>4, <5>1, GreatestId
        <5>2. \A k \in Exists(ledger) : orders[k].st \in {"OPEN", "WIN", "LOSS"}
          BY ExistingOrders DEF Order, Results
        <5>3. QED
          BY <5>1, <5>2
      <4>2. \A t : RestedSince(t) \in {"COOLDOWN", "RECOVERY"}
        BY DEF RestedSince
      <4>3. CASE tries = {}
        <5>1. RecoveryMode = RestedSince(rest)
          BY <1>5, <4>3 DEF RecoveryDecision
        <5>2. QED
          BY <4>2, <5>1
      <4>4. CASE tries # {}
        <5>1. /\ orders[Max(tries)].st = "OPEN" => RecoveryMode = "PENDING"
              /\ orders[Max(tries)].st = "WIN" => RecoveryMode = "NONE"
              /\ orders[Max(tries)].st = "LOSS" =>
                    RecoveryMode = RestedSince(Expiry(ledger, Max(tries)))
          BY <1>5, <4>4 DEF RecoveryDecision
        <5>2. QED
          BY <2>3, <4>1, <4>2, <4>4, <5>1
      <4>5. QED
        BY <4>3, <4>4
    <3>2. QED
      BY <2>1, <2>3, <3>1
  <2>4. QED
    BY <2>2, <2>3
<1>7. ASSUME NEW t \in Int, RestedSince(t) \in {"NONE", "RECOVERY"}
      PROVE  RestedSince(t) = "RECOVERY" /\ now >= t + WaveCooldown
  <2>1. ~(now < t + WaveCooldown)
    BY <1>7 DEF RestedSince
  <2>2. QED
    BY <1>1, <1>7, <2>1 DEF RestedSince
<1>8. CASE tries = {}
  <2>1. RecoveryMode = RestedSince(rest)
    BY <1>5, <1>8 DEF RecoveryDecision
  <2>2. BatchMode(d) = "RECOVERY" /\ now >= rest + WaveCooldown
    BY <1>3, <1>6, <1>7, <2>1
  <2>3. ASSUME NEW j \in Exists(ledger), ~(Expiry(ledger, j) <= now) PROVE FALSE
    <3>1. /\ Expiry(ledger, j) = orders[j].opened + Lifetime
          /\ orders[j].opened \in Int /\ Expiry(ledger, j) \in Int
      BY ExistingOrders
    <3>2. orders[j].opened > rest
      BY <1>1, <1>3, <2>2, <2>3, <3>1
    <3>3. Rest(j) = rest /\ Tries(j) = {k \in tries : k < j}
      BY <1>3, <3>1, <3>2, JudgedAlike
    <3>4. Tries(j) = {}
      BY <1>8, <3>3
    <3>5. note[j].mode = "RECOVERY" /\ orders[j].opened >= rest + WaveCooldown
      BY <3>3, <3>4 DEF Recovers, Regained
    <3>6. QED
      BY <1>4, <1>8, <3>5
  <2>4. QED
    BY <2>2, <2>3
<1>9. CASE tries # {}
  <2> DEFINE m == Max(tries)
  <2>1. m \in tries /\ \A k \in tries : k <= m
    BY <1>4, <1>9, GreatestId
  <2>2. m \in Exists(ledger)
    BY <1>4, <2>1
  <2>3. /\ m \in Nat /\ Expiry(ledger, m) = orders[m].opened + Lifetime
        /\ orders[m].opened \in Int /\ Expiry(ledger, m) \in Int
        /\ orders[m].st \in {"OPEN", "WIN", "LOSS"}
    BY <2>2, ExistingOrders DEF Order, Results
  <2>4. orders[m].opened >= rest + WaveCooldown
    BY <1>4, <2>1, <2>2
  <2>5. /\ orders[m].st = "OPEN" => RecoveryMode = "PENDING"
        /\ orders[m].st = "LOSS" => RecoveryMode = RestedSince(Expiry(ledger, m))
    BY <1>5, <1>9 DEF RecoveryDecision
  <2> HIDE DEF m
  <2>6. CASE orders[m].st = "OPEN"
    BY <1>6, <2>5, <2>6
  <2>7. CASE orders[m].st = "WIN"
    <3>1. m \in SettledOrders
      BY <2>2, <2>7, ExistingOrders DEF SettledOrders, Settled, Results
    <3>2. QED
      BY <1>9, <2>7, <3>1 DEF m
  <2>8. CASE orders[m].st = "LOSS"
    <3>1. BatchMode(d) = "RECOVERY" /\ now >= Expiry(ledger, m) + WaveCooldown
      BY <1>6, <1>7, <2>3, <2>5, <2>8
    <3>2. now >= rest + WaveCooldown
      BY <1>1, <1>3, <2>3, <2>4, <3>1
    <3>3. ASSUME NEW j \in Exists(ledger), ~(Expiry(ledger, j) <= now) PROVE FALSE
      <4>1. /\ Expiry(ledger, j) = orders[j].opened + Lifetime /\ j \in Nat
            /\ orders[j].opened \in Int /\ Expiry(ledger, j) \in Int
        BY ExistingOrders
      <4>2. orders[j].opened > Expiry(ledger, m)
        BY <1>1, <2>3, <3>1, <3>3, <4>1
      <4>3. orders[j].opened > orders[m].opened /\ orders[j].opened > rest
        BY <1>1, <1>3, <2>3, <2>4, <4>1, <4>2
      <4>4. m < j
        <5>1. j < m => orders[j].opened <= orders[m].opened
          BY <2>2 DEF NothingAhead
        <5>2. j # m
          BY <2>3, <4>3
        <5>3. QED
          BY <2>3, <4>1, <4>3, <5>1, <5>2
      <4>5. Rest(j) = rest /\ Tries(j) = {k \in tries : k < j}
        BY <1>3, <4>1, <4>3, JudgedAlike
      <4>6. m \in Tries(j) /\ Tries(j) \subseteq tries
        BY <2>1, <4>4, <4>5
      <4>7. Max(Tries(j)) = m
        <5>1. Tries(j) \in SUBSET OrderIds /\ Tries(j) # {}
          BY <1>4, <4>6
        <5>2. Max(Tries(j)) \in Tries(j) /\ m <= Max(Tries(j))
          BY <4>6, <5>1, GreatestId
        <5>3. Max(Tries(j)) <= m /\ Max(Tries(j)) \in Nat
          BY <1>4, <2>1, <4>6, <5>2, ExistingOrders
        <5>4. QED
          BY <2>3, <5>2, <5>3
      <4>8. note[j].mode = "RECOVERY" /\ orders[j].opened >= rest + WaveCooldown
        BY <2>8, <4>5, <4>7 DEF Recovers, Regained
      <4>9. j \in tries
        BY <1>4, <4>8
      <4>10. QED
        BY <2>1, <2>3, <4>1, <4>4, <4>9
    <3>4. QED
      BY <3>1, <3>2, <3>3
  <2>9. QED
    BY <2>3, <2>6, <2>7, <2>8
<1>10. QED
  BY <1>8, <1>9

\* When the degradation guard admits an order of a profile that has lost
\* LossStreak in a row, it is a probe, and all others of it have expired.
LEMMA AdmittedToProbe ==
  ASSUME TypeOK, GuardTypes, NothingAhead, \A j \in Exists(ledger) : Probes(j),
         NEW k, ProfileMode(k) \in {"NORMAL", "READY"},
         Cardinality(Trailing(OfProfile(SettledOrders, k, Version))) >= LossStreak
  PROVE  /\ ProfileMode(k) = "READY"
         /\ \A j \in OfProfile(Exists(ledger), k, Version) : Expiry(ledger, j) <= now
<1> DEFINE S == OfProfile(SettledOrders, k, Version)
           trigger == ProfileTrigger(k)
<1>1. /\ ProfileCooldown \in Nat /\ Lifetime \in Nat \ {0} /\ ProfileCooldown >= Lifetime
      /\ now \in Nat /\ LossStreak \in Nat
  BY GuardAssumption, LedgerAssumption DEF GuardTypes
<1>2. SettledOrders \in SUBSET Exists(ledger) /\ S \in SUBSET SettledOrders
  BY ExistingOrders DEF OfProfile
<1>3. trigger = LastExpiry(S)
  BY DEF ProfileTrigger
<1>4. trigger \in Nat /\ \A i \in S : Expiry(ledger, i) <= trigger
  BY <1>2, <1>3, LastExpiryFacts
<1>5. Cardinality(Trailing(S)) \in Nat
  <2>1. Trailing(S) \in SUBSET OrderIds
    BY <1>2, ExistingOrders DEF Trailing, Losses
  <2>2. QED
    BY <2>1, IdsFinite, FS_CardinalityType
<1>6. ~(Cardinality(Trailing(S)) < LossStreak)
  BY <1>1, <1>5
<1>7. /\ OpenProbes(k, trigger) # {} => ProfileMode(k) = "PENDING"
      /\ OpenProbes(k, trigger) = {} =>
            ProfileMode(k) = IF now < trigger + ProfileCooldown THEN "COOLDOWN" ELSE "READY"
  BY <1>6 DEF ProfileMode
<1> HIDE DEF S, trigger
<1>8. OpenProbes(k, trigger) = {} /\ ~(now < trigger + ProfileCooldown) /\ ProfileMode(k) = "READY"
  BY <1>7
<1>9. now >= trigger + ProfileCooldown
  BY <1>1, <1>4, <1>8
<1>10. ASSUME NEW j \in OfProfile(Exists(ledger), k, Version), ~(Expiry(ledger, j) <= now)
       PROVE  FALSE
  <2>1. j \in Exists(ledger) /\ note[j].key = k /\ note[j].version = Version
    BY DEF OfProfile
  <2>2. /\ Expiry(ledger, j) = orders[j].opened + Lifetime
        /\ orders[j].opened \in Int /\ Expiry(ledger, j) \in Int
    BY <2>1, ExistingOrders
  <2>3. orders[j].opened > trigger
    BY <1>1, <1>4, <1>9, <1>10, <2>2
  <2>4. j \in Open(ledger)
    BY <1>10, <2>1, ExistingOrders DEF NothingAhead
  <2>5. \A i \in S : Expiry(ledger, i) <= orders[j].opened
    BY <1>2, <1>4, <2>2, <2>3, ExistingOrders
  <2>6. KnownOfProfile(j) = S
    BY <1>2, <2>1, <2>5, KnownUnfolded DEF KnownOfProfile, OfProfile, S
  <2>7. note[j].probe = trigger
    BY <1>3, <2>1, <2>6 DEF Probes, S
  <2>8. j \in OpenProbes(k, trigger)
    BY <2>1, <2>4, <2>7 DEF OpenProbes, OfProfile
  <2>9. QED
    BY <1>8, <2>8
<1>11. QED
  BY <1>8, <1>10

\* What every step of the monitor keeps: a result and a note stand, a new
\* order gets the next id and is open, and only what is due is settled.
Kept ==
    /\ service' = service /\ Exists(ledger) \subseteq Exists(ledger)'
    /\ \A i \in Exists(ledger) :
          note'[i] = note[i] /\ orders'[i].opened = orders[i].opened
    /\ \A i \in SettledOrders : orders'[i] = orders[i] /\ i \in SettledOrders'
    /\ \A i \in SettledOrders' : i \in SettledOrders \/ i \in Due
    /\ \A i \in Exists(ledger), j \in Exists(ledger)' \ Exists(ledger) : i < j

\* What was known when an order was opened does not change.
LEMMA KnownStands ==
  ASSUME TypeOK, GuardTypes, SettledInTime, Kept, NEW i \in Exists(ledger)
  PROVE  Known(i)' = Known(i) /\ Unchanged(Known(i))
<1>1. SettledOrders \subseteq Exists(ledger) /\ Due \subseteq Open(ledger)
      /\ Open(ledger) \subseteq Exists(ledger)
  BY ExistingOrders DEF Due
<1>2. \A j \in Exists(ledger) : Expiry(ledger, j)' = Expiry(ledger, j)
  BY DEF Kept, Expiry, ledger
<1>3. orders'[i].opened = orders[i].opened
  BY DEF Kept
<1>4. Known(i) \subseteq Known(i)'
  BY <1>1, <1>2, <1>3 DEF Kept, Known
<1>5. ASSUME NEW j \in Known(i)' PROVE j \in Known(i)
  <2>1. j \in SettledOrders' /\ Expiry(ledger, j)' <= orders'[i].opened
    BY DEF Known
  <2>2. j \in SettledOrders \/ j \in Due
    BY <2>1 DEF Kept
  <2>3. Expiry(ledger, j) <= orders[i].opened
    BY <1>1, <1>2, <1>3, <2>1, <2>2
  <2>4. j \notin Due
    <3>1. ASSUME j \in Due PROVE FALSE
      <4>1. now - Expiry(ledger, j) >= History
        BY <1>1, <2>3, <3>1 DEF SettledInTime
      <4>2. now - Expiry(ledger, j) < History
        BY <3>1 DEF Due
      <4>3. now \in Int /\ Expiry(ledger, j) \in Int /\ History \in Int
        BY <1>1, <3>1, ExistingOrders, GuardAssumption DEF GuardTypes
      <4>4. QED
        BY <4>1, <4>2, <4>3
    <3>2. QED
      BY <3>1
  <2>5. QED
    BY <2>2, <2>3, <2>4 DEF Known
<1>6. Known(i) \subseteq SettledOrders
  BY DEF Known
<1>7. Unchanged(Known(i))
  BY <1>1, <1>6 DEF Unchanged, Kept
<1>8. QED
  BY <1>4, <1>5, <1>7

\* So what is said of an order stands.
LEMMA OrderStands ==
  ASSUME TypeOK, GuardTypes, SettledInTime, Kept, NEW i \in Exists(ledger),
         Probes(i), Recovers(i), ProbesAlone(i), RecoversAlone(i)
  PROVE  Probes(i)' /\ Recovers(i)' /\ ProbesAlone(i)' /\ RecoversAlone(i)'
<1>1. Known(i)' = Known(i) /\ Unchanged(Known(i))
  BY KnownStands
<1>2. note'[i] = note[i] /\ orders'[i].opened = orders[i].opened /\ i \in Nat
      /\ i \in Exists(ledger)'
  BY ExistingOrders DEF Kept
<1>3. SettledOrders \subseteq Exists(ledger) /\ Known(i) \subseteq SettledOrders
  BY ExistingOrders DEF Known
<1>4. Rest(i)' = Rest(i)
  BY <1>1, FindingsStand DEF Rest
<1>5. KnownOfProfile(i)' = KnownOfProfile(i) /\ KnownOfProfile(i) \subseteq Known(i)
  BY <1>1, <1>2, FindingsStand DEF KnownOfProfile, OfProfile
<1>6. Unchanged(KnownOfProfile(i))
  BY <1>1, <1>5 DEF Unchanged
<1>7. /\ Trailing(KnownOfProfile(i))' = Trailing(KnownOfProfile(i))
      /\ LastExpiry(KnownOfProfile(i))' = LastExpiry(KnownOfProfile(i))
  BY <1>5, <1>6, FindingsStand
<1>8. \A j \in Exists(ledger)' : j < i => j \in Exists(ledger)
  <2>1. TAKE j \in Exists(ledger)'
  <2>2. HAVE j < i
  <2>3. j \notin Exists(ledger) => i < j
    BY DEF Kept
  <2>4. j \in OrderIds
    BY DEF Exists
  <2>5. j \in Nat
    BY <2>4, LedgerAssumption DEF OrderIds
  <2>6. QED
    BY <1>2, <2>2, <2>3, <2>5
<1>9. \A j \in Exists(ledger) : /\ Expiry(ledger, j)' = Expiry(ledger, j)
                                /\ orders'[j].opened = orders[j].opened /\ note'[j] = note[j]
                                /\ j \in Exists(ledger)'
  BY DEF Kept, Expiry, ledger
<1>10. Probes(i)'
  BY <1>2, <1>7 DEF Probes
<1>11. Tries(i)' = Tries(i)
  BY <1>4, <1>8, <1>9 DEF Tries, Recoveries
<1>12. \A j \in Known(i) : orders'[j] = orders[j] /\ note'[j] = note[j]
  BY <1>1 DEF Unchanged
<1>13. Regained(i)' <=> Regained(i)
  <2>1. Max(Tries(i))' = Max(Tries(i))
    BY <1>11 DEF Max
  <2>2. QED
    BY <1>1, <1>11, <1>12, <2>1 DEF Regained
<1>14. Recovers(i)'
  BY <1>2, <1>4, <1>13 DEF Recovers
<1>15. ProbesAlone(i)'
  <2> SUFFICES ASSUME Cardinality(Trailing(KnownOfProfile(i))) >= LossStreak,
                      NEW j \in Exists(ledger)', j < i,
                      note'[j].key = note[i].key, note'[j].version = note[i].version
               PROVE  Expiry(ledger, j)' <= orders[i].opened
    BY <1>2, <1>7 DEF ProbesAlone, Alone, OfProfile
  <2>1. j \in Exists(ledger) /\ Expiry(ledger, j)' = Expiry(ledger, j) /\ note'[j] = note[j]
    BY <1>8, <1>9
  <2>2. j \in OfProfile(Exists(ledger), note[i].key, note[i].version)
    BY <2>1 DEF OfProfile
  <2>3. Expiry(ledger, j) <= orders[i].opened
    BY <2>2 DEF ProbesAlone, Alone
  <2>4. QED
    BY <2>1, <2>3
<1>16. WonSince(i)' = WonSince(i)
  BY <1>1, <1>4, <1>12 DEF WonSince
<1>17. RecoversAlone(i)'
  <2> SUFFICES ASSUME Rest(i) # 0, WonSince(i) = {}, NEW j \in Exists(ledger)', j < i
               PROVE  Expiry(ledger, j)' <= orders[i].opened
    BY <1>2, <1>4, <1>16 DEF RecoversAlone, Alone
  <2>1. j \in Exists(ledger) /\ Expiry(ledger, j)' = Expiry(ledger, j)
    BY <1>8, <1>9
  <2>2. Expiry(ledger, j) <= orders[i].opened
    BY <2>1 DEF RecoversAlone, Alone
  <2>3. QED
    BY <2>1, <2>2
<1>18. QED
  BY <1>10, <1>14, <1>15, <1>17

\* Settling gives the order that is due first its result.
LEMMA SettleGives ==
  ASSUME TypeOK, Settle
  PROVE  \E i \in Due, r \in Results :
            /\ i \in OrderIds /\ orders[i].st = "OPEN"
            /\ orders' = [orders EXCEPT ![i].st = r]
            /\ UNCHANGED guards
<1>1. Due \in SUBSET OrderIds /\ Due # {}
  BY DEF Settle, Due, Open
<1>2. Min(Due) \in Due /\ Min(Due) \in OrderIds
  BY <1>1, LeastId
<1>3. PICK r \in Results :
         SettleOnly(Min(Due), r) \/ \E status : SettleEarning(Min(Due), status)
  BY DEF Settle
<1>4. PICK q \in Results : orders' = [orders EXCEPT ![Min(Due)].st = q]
  BY <1>3 DEF SettleOnly, SettleEarning, Results
<1>5. orders[Min(Due)].st = "OPEN" /\ UNCHANGED guards
  BY <1>3 DEF Settle, SettleOnly, SettleEarning
<1>6. QED
  BY <1>2, <1>4, <1>5

\* Admitting opens the next order, now, with what the guards found in its note.
LEMMA AdmitOpens ==
  ASSUME TypeOK, GuardTypes, Admit
  PROVE  \E i \in OrderIds :
            /\ i \notin Exists(ledger) /\ \A j \in Exists(ledger) : j < i
            /\ orders'[i].st = "OPEN" /\ orders'[i].opened = now
            /\ \A j \in OrderIds \ {i} : orders'[j] = orders[j] /\ note'[j] = note[j]
            /\ note'[i].key = cand /\ note'[i].version = Version
            /\ note'[i].mode = BatchMode(DirOf(cand))
            /\ ProfileMode(cand) = "READY" => note'[i].probe = ProfileTrigger(cand)
            /\ BatchMode(DirOf(cand)) \in {"NORMAL", "RECOVERY"}
            /\ ProfileMode(cand) \in {"NORMAL", "READY"}
            /\ pc = "gate" /\ pc' = "idle" /\ now' = now /\ service' = service
<1> DEFINE d == DirOf(cand)
           batch == BatchMode(d)
           probe == ProfileMode(cand) = "READY"
           source == Assign(ledger, batch = "NORMAL" /\ ~probe, d, now)
           written == [key |-> cand, state |-> wave.state, since |-> wave.since,
                       version |-> Version, mode |-> batch,
                       probe |-> IF probe THEN ProfileTrigger(cand) ELSE 0]
<1>1. PICK i \in OrderIds : /\ IsNextId(ledger, i)
                            /\ OpenOrder(i, d, now, source, batch = "NORMAL" \/ probe)
                            /\ note' = [note EXCEPT ![i] = written]
  BY DEF Admit, AdmitIn
<1>2. /\ batch \in {"NORMAL", "RECOVERY"} /\ ProfileMode(cand) \in {"NORMAL", "READY"}
      /\ pc = "gate" /\ pc' = "idle" /\ now' = now /\ service' = service
  BY DEF Admit, AdmitIn
<1>3. note'[i] = written
  BY <1>1 DEF GuardTypes
<1>4. /\ note'[i].key = cand /\ note'[i].version = Version /\ note'[i].mode = batch
      /\ probe => note'[i].probe = ProfileTrigger(cand)
  BY <1>3
<1> HIDE DEF source, written, batch, probe, d
<1>5. \A j \in OrderIds \ {i} : orders'[j] = orders[j] /\ note'[j] = note[j]
  BY <1>1 DEF GuardTypes, OpenOrder, TypeOK
<1>6. /\ orders[i].st = "NONE" /\ orders'[i].st = "OPEN" /\ orders'[i].opened = now
  BY <1>1 DEF OpenOrder, TypeOK
<1>7. i \notin Exists(ledger) /\ \A j \in Exists(ledger) : j < i
  BY <1>1, <1>6 DEF Exists, IsNextId, ledger
<1>8. QED
  BY <1>2, <1>4, <1>5, <1>6, <1>7 DEF batch, d, probe

\* A step other than settling and admitting leaves the orders as they are.
QuietStep == Minute \/ Wait \/ Refuse \/ Crash \/ Pass \/ Restart \/ \E k \in Profiles : Judge(k)

LEMMA QuietKeeps ==
  ASSUME GuardTypes, QuietStep \/ UNCHANGED <<vars, guards>>
  PROVE  /\ orders' = orders /\ note' = note /\ service' = service
         /\ now' \in {now, now + 1}
         /\ pc' = "gate" => (Due = {} /\ now' = now) \/ UNCHANGED <<vars, guards>>
BY DEF QuietStep, Minute, Wait, Refuse, Crash, Pass, Restart, Judge, Cancel, vars, guards

LEMMA QuietRest ==
  ASSUME TypeOK, GuardTypes, NothingAhead, SettledInTime,
         QuietStep \/ UNCHANGED <<vars, guards>>
  PROVE  Kept /\ NothingAhead' /\ SettledInTime' /\ Exists(ledger)' = Exists(ledger)
<1>1. /\ orders' = orders /\ note' = note /\ service' = service /\ now' \in {now, now + 1}
      /\ pc' = "gate" => (Due = {} /\ now' = now) \/ UNCHANGED <<vars, guards>>
  BY QuietKeeps
<1>2. /\ Exists(ledger)' = Exists(ledger) /\ SettledOrders' = SettledOrders
      /\ Open(ledger)' = Open(ledger) /\ \A i : Expiry(ledger, i)' = Expiry(ledger, i)
  BY <1>1 DEF Exists, SettledOrders, Settled, Open, Expiry, ledger
<1>3. now \in Int /\ now' \in Int /\ now' >= now /\ History \in Int
  BY <1>1, GuardAssumption DEF GuardTypes
<1>4. Kept
  BY <1>1, <1>2 DEF Kept
<1>5. NothingAhead'
  <2>1. ASSUME NEW i \in Exists(ledger) PROVE orders[i].opened <= now'
    BY <1>3, ExistingOrders DEF NothingAhead
  <2>2. ASSUME NEW i \in SettledOrders PROVE Expiry(ledger, i) <= now'
    BY <1>3, ExistingOrders DEF NothingAhead
  <2>3. QED
    BY <1>1, <1>2, <2>1, <2>2 DEF NothingAhead
<1>6. pc' = "gate" => Due' = {}
  <2>1. CASE UNCHANGED <<vars, guards>>
    <3>1. pc' = pc /\ now' = now
      BY <2>1 DEF guards
    <3>2. Due' = Due
      BY <1>2, <3>1 DEF Due
    <3>3. QED
      BY <3>1, <3>2 DEF SettledInTime
  <2>2. CASE Due = {} /\ now' = now
    BY <1>2, <2>2 DEF Due
  <2>3. QED
    BY <1>1, <2>1, <2>2
<1>7. ASSUME NEW i \in Exists(ledger), NEW j \in Open(ledger),
             Expiry(ledger, j) <= orders[i].opened
      PROVE  now' - Expiry(ledger, j) >= History
  <2>1. now - Expiry(ledger, j) >= History
    BY <1>7 DEF SettledInTime
  <2>2. Expiry(ledger, j) \in Int
    BY ExistingOrders
  <2>3. QED
    BY <1>3, <2>1, <2>2
<1>8. SettledInTime'
  BY <1>1, <1>2, <1>6, <1>7 DEF SettledInTime
<1>9. QED
  BY <1>2, <1>4, <1>5, <1>8

LEMMA SettleRest ==
  ASSUME TypeOK, GuardTypes, NothingAhead, SettledInTime, Settle
  PROVE  Kept /\ NothingAhead' /\ SettledInTime' /\ Exists(ledger)' = Exists(ledger)
<1>1. PICK i \in Due, r \in Results :
         /\ i \in OrderIds /\ orders[i].st = "OPEN"
         /\ orders' = [orders EXCEPT ![i].st = r]
         /\ UNCHANGED guards
  BY SettleGives
<1>2. now' = now /\ note' = note /\ service' = service /\ pc' = pc
  BY <1>1 DEF guards
<1>3. \A j \in OrderIds \ {i} : orders'[j] = orders[j]
  BY <1>1 DEF TypeOK
<1>4. orders'[i].st = r /\ orders'[i].opened = orders[i].opened
  <2>1. orders[i] \in Order
    BY <1>1 DEF TypeOK, NoOrder
  <2>2. orders'[i] = [orders[i] EXCEPT !.st = r]
    BY <1>1 DEF TypeOK
  <2>3. QED
    BY <2>1, <2>2 DEF Order
<1>5. /\ Exists(ledger)' = Exists(ledger) /\ Open(ledger)' = Open(ledger) \ {i}
      /\ SettledOrders' = SettledOrders \cup {i} /\ i \notin SettledOrders
  BY <1>1, <1>3, <1>4 DEF Exists, Open, SettledOrders, Settled, Results, ledger
<1>6. \A j \in Exists(ledger) : /\ orders'[j].opened = orders[j].opened
                                /\ Expiry(ledger, j)' = Expiry(ledger, j)
  <2>1. \A j \in OrderIds : orders'[j].opened = orders[j].opened
    BY <1>3, <1>4
  <2>2. QED
    BY <2>1 DEF Exists, Expiry, ledger
<1>7. i \in Exists(ledger) /\ Expiry(ledger, i) <= now
      /\ SettledOrders \subseteq Exists(ledger) /\ Open(ledger) \subseteq Exists(ledger)
      /\ SettledOrders \subseteq OrderIds
  BY ExistingOrders DEF Due, SettledOrders
<1>8. Kept
  BY <1>2, <1>3, <1>5, <1>6, <1>7 DEF Kept
<1>9. NothingAhead'
  BY <1>2, <1>5, <1>6, <1>7 DEF NothingAhead
<1>10. pc' = "gate" => Due' = {}
  <2>1. pc # "gate"
    BY DEF Settle
  <2>2. QED
    BY <1>2, <2>1
<1>11. SettledInTime'
  BY <1>2, <1>5, <1>6, <1>7, <1>10 DEF SettledInTime
<1>12. QED
  BY <1>5, <1>8, <1>9, <1>11

\* With an order that the guards admit, what is said of orders holds of it too.
LEMMA AdmitRest ==
  ASSUME TypeOK, GuardTypes, NothingAhead, SettledInTime, Admit,
         \A j \in Exists(ledger) : Probes(j) /\ Recovers(j)
  PROVE  /\ Kept /\ NothingAhead' /\ SettledInTime'
         /\ \A j \in Exists(ledger)' \ Exists(ledger) :
               Probes(j)' /\ Recovers(j)' /\ ProbesAlone(j)' /\ RecoversAlone(j)'
<1>1. PICK i \in OrderIds :
         /\ i \notin Exists(ledger) /\ \A j \in Exists(ledger) : j < i
         /\ orders'[i].st = "OPEN" /\ orders'[i].opened = now
         /\ \A j \in OrderIds \ {i} : orders'[j] = orders[j] /\ note'[j] = note[j]
         /\ note'[i].key = cand /\ note'[i].version = Version
         /\ note'[i].mode = BatchMode(DirOf(cand))
         /\ ProfileMode(cand) = "READY" => note'[i].probe = ProfileTrigger(cand)
         /\ BatchMode(DirOf(cand)) \in {"NORMAL", "RECOVERY"}
         /\ ProfileMode(cand) \in {"NORMAL", "READY"}
         /\ pc = "gate" /\ pc' = "idle" /\ now' = now /\ service' = service
  BY AdmitOpens
<1>2. /\ Exists(ledger)' = Exists(ledger) \cup {i} /\ Open(ledger)' = Open(ledger) \cup {i}
      /\ SettledOrders' = SettledOrders
  BY <1>1 DEF Exists, Open, SettledOrders, Settled, Results, ledger
<1>3. SettledOrders \subseteq Exists(ledger) /\ Exists(ledger) \subseteq OrderIds \ {i}
      /\ Open(ledger) \subseteq Exists(ledger) /\ i \in Nat
  BY <1>1, ExistingOrders, LedgerAssumption DEF Exists, OrderIds
<1>4. \A j \in Exists(ledger) : /\ orders'[j] = orders[j] /\ note'[j] = note[j]
                                /\ Expiry(ledger, j)' = Expiry(ledger, j)
  BY <1>1, <1>3 DEF Expiry, ledger
<1>5. now \in Int /\ History \in Int /\ Lifetime \in Nat \ {0} /\ WaveCooldown \in Nat
      /\ Expiry(ledger, i)' = now + Lifetime
  BY <1>1, GuardAssumption, LedgerAssumption DEF GuardTypes, Expiry, ledger
<1>6. Kept
  <2>1. \A j \in Exists(ledger) : note'[j] = note[j] /\ orders'[j].opened = orders[j].opened
    BY <1>4
  <2>2. \A j \in SettledOrders : orders'[j] = orders[j] /\ j \in SettledOrders'
    BY <1>2, <1>3, <1>4
  <2>3. QED
    BY <1>1, <1>2, <2>1, <2>2 DEF Kept
<1>7. NothingAhead'
  <2>1. ASSUME NEW j \in Exists(ledger)', NEW k \in Exists(ledger)', j < k
        PROVE  orders'[j].opened <= orders'[k].opened
    <3>1. CASE k = i
      <4>1. orders'[k].opened = now
        BY <1>1, <3>1
      <4>2. orders'[j].opened <= now
        BY <1>1, <1>2, <1>4, <1>5 DEF NothingAhead
      <4>3. QED
        BY <4>1, <4>2
    <3>2. CASE k # i
      <4>1. k \in Exists(ledger) /\ k < i /\ k \in Nat
        BY <1>1, <1>2, <3>2, ExistingOrders
      <4>2. j \in Exists(ledger)
        BY <1>2, <1>3, <2>1, <4>1
      <4>3. QED
        BY <1>4, <2>1, <4>1, <4>2 DEF NothingAhead
    <3>3. QED
      BY <3>1, <3>2
  <2>2. ASSUME NEW j \in Exists(ledger)' PROVE orders'[j].opened <= now
    BY <1>1, <1>2, <1>4, <1>5 DEF NothingAhead
  <2>3. ASSUME NEW j \in SettledOrders' PROVE Expiry(ledger, j)' <= now
    BY <1>2, <1>3, <1>4 DEF NothingAhead
  <2>4. QED
    BY <1>1, <2>1, <2>2, <2>3 DEF NothingAhead
<1>8. SettledInTime'
  <2>1. Due = {}
    BY <1>1 DEF SettledInTime
  <2>2. ASSUME NEW k \in Exists(ledger)', NEW j \in Open(ledger)',
               Expiry(ledger, j)' <= orders'[k].opened
        PROVE  now - Expiry(ledger, j)' >= History
    <3>1. orders'[k].opened <= now
      BY <1>1, <1>2, <1>4, <1>5 DEF NothingAhead
    <3>2. orders'[k].opened \in Int
      BY <1>1, <1>2, <1>4, <1>5, ExistingOrders
    <3>3. j # i
      BY <1>5, <2>2, <3>1, <3>2
    <3>4. j \in Open(ledger) /\ Expiry(ledger, j)' = Expiry(ledger, j)
          /\ Expiry(ledger, j) \in Int
      BY <1>2, <1>3, <1>4, <3>3, ExistingOrders
    <3>5. Expiry(ledger, j) <= now
      BY <1>5, <2>2, <3>1, <3>2, <3>4
    <3>6. ~(now - Expiry(ledger, j) < History)
      BY <2>1, <3>4, <3>5 DEF Due
    <3>7. QED
      BY <1>5, <3>4, <3>6
  <2>3. QED
    BY <1>1, <2>2 DEF SettledInTime
<1>9. Known(i)' = SettledOrders /\ Unchanged(SettledOrders)
  <2>1. \A j \in SettledOrders : Expiry(ledger, j)' <= now
    BY <1>3, <1>4 DEF NothingAhead
  <2>2. QED
    BY <1>1, <1>2, <1>3, <1>4, <2>1 DEF Known, Unchanged
<1> DEFINE S == OfProfile(SettledOrders, cand, Version)
           rest == Trigger(SettledOrders)
           tries == Recoveries(rest + WaveCooldown)
<1>10. KnownOfProfile(i)' = S
  BY <1>1, <1>9, FindingsStand DEF KnownOfProfile
<1>11. Unchanged(S)
  BY <1>9 DEF Unchanged, OfProfile
<1>12. /\ Trailing(KnownOfProfile(i))' = Trailing(S)
       /\ LastExpiry(KnownOfProfile(i))' = LastExpiry(S)
  BY <1>10, <1>11, FindingsStand
<1>13. Cardinality(Trailing(S)) >= LossStreak =>
          /\ ProfileMode(cand) = "READY"
          /\ \A j \in OfProfile(Exists(ledger), cand, Version) : Expiry(ledger, j) <= now
  BY <1>1, AdmittedToProbe
<1>14. Probes(i)'
  <2>1. ProfileTrigger(cand) = LastExpiry(S)
    BY DEF ProfileTrigger
  <2> HIDE DEF S
  <2>2. QED
    BY <1>1, <1>12, <1>13, <2>1 DEF Probes
<1>15. ProbesAlone(i)'
  <2> HIDE DEF S
  <2>1. SUFFICES ASSUME Cardinality(Trailing(S)) >= LossStreak,
                        NEW j \in Exists(ledger)', j < i,
                        note'[j].key = cand, note'[j].version = Version
                 PROVE  Expiry(ledger, j)' <= now
    BY <1>1, <1>12 DEF ProbesAlone, Alone, OfProfile
  <2>2. j \in Exists(ledger)
    BY <1>2, <1>3, <2>1
  <2>3. j \in OfProfile(Exists(ledger), cand, Version)
    BY <1>4, <2>1, <2>2 DEF OfProfile
  <2>4. QED
    BY <1>4, <1>13, <2>1, <2>2, <2>3
<1>16. Rest(i)' = rest
  BY <1>9, FindingsStand DEF Rest
<1>17. Tries(i)' = tries
  <2> HIDE DEF rest
  <2>1. \A k \in Exists(ledger) : k \in Nat /\ k < i
    BY <1>1, ExistingOrders
  <2>2. QED
    BY <1>2, <1>3, <1>4, <1>16, <2>1 DEF Tries, Recoveries
<1>18. rest # 0 =>
          \/ tries # {} /\ Max(tries) \in SettledOrders /\ orders[Max(tries)].st = "WIN"
          \/ /\ BatchMode(DirOf(cand)) = "RECOVERY" /\ now >= rest + WaveCooldown
             /\ \A j \in Exists(ledger) : Expiry(ledger, j) <= now
  BY <1>1, AdmittedToRecover
<1>19. tries \subseteq Exists(ledger) /\ \A k \in tries :
          note[k].mode = "RECOVERY" /\ orders[k].opened >= rest + WaveCooldown
  BY DEF Recoveries
<1> HIDE DEF rest, tries, S
<1>20. Max(Tries(i))' = Max(tries)
  BY <1>17 DEF Max
<1>21. Recovers(i)'
  <2>1. CASE tries # {} /\ Max(tries) \in SettledOrders /\ orders[Max(tries)].st = "WIN"
    <3>1. Regained(i)'
      BY <1>3, <1>4, <1>9, <1>17, <1>20, <2>1 DEF Regained
    <3>2. QED
      BY <3>1 DEF Recovers
  <2>2. CASE BatchMode(DirOf(cand)) = "RECOVERY" /\ now >= rest + WaveCooldown
    BY <1>1, <1>16, <2>2 DEF Recovers
  <2>3. CASE rest = 0
    BY <1>16, <2>3 DEF Recovers
  <2>4. QED
    BY <1>18, <2>1, <2>2, <2>3
<1>22. RecoversAlone(i)'
  <2>1. CASE /\ tries # {} /\ Max(tries) \in SettledOrders /\ orders[Max(tries)].st = "WIN"
             /\ rest # 0
    <3>1. Max(tries) \in tries
      <4>1. tries \in SUBSET OrderIds
        BY <1>3, <1>19
      <4>2. QED
        BY <2>1, <4>1, GreatestId
    <3>2. Max(tries) \in WonSince(i)'
      BY <1>3, <1>4, <1>9, <1>16, <1>19, <2>1, <3>1 DEF WonSince
    <3>3. QED
      BY <3>2 DEF RecoversAlone
  <2>2. CASE \A j \in Exists(ledger) : Expiry(ledger, j) <= now
    <3>1. SUFFICES ASSUME NEW j \in Exists(ledger)', j < i PROVE Expiry(ledger, j)' <= now
      BY <1>1 DEF RecoversAlone, Alone
    <3>2. j \in Exists(ledger)
      BY <1>2, <1>3, <3>1
    <3>3. QED
      BY <1>4, <2>2, <3>2
  <2>3. CASE rest = 0
    BY <1>16, <2>3 DEF RecoversAlone
  <2>4. QED
    BY <1>18, <2>1, <2>2, <2>3
<1>23. QED
  BY <1>2, <1>6, <1>7, <1>8, <1>14, <1>15, <1>21, <1>22

LEMMA StepRestInv == GInv /\ RestInv /\ [GuardedNext]_<<vars, guards>> => RestInv'
<1> SUFFICES ASSUME GInv, RestInv, [GuardedNext]_<<vars, guards>>, (service.kind = "MONITOR")'
             PROVE  /\ NothingAhead' /\ SettledInTime'
                    /\ \A i \in Exists(ledger)' :
                          Probes(i)' /\ Recovers(i)' /\ ProbesAlone(i)' /\ RecoversAlone(i)'
  BY DEF RestInv
<1>1. TypeOK /\ GuardTypes
  BY DEF GInv, IInv
<1>2. service.kind = "MONITOR"
  BY DEF GuardedNext, Monitor, Anyone, guards
<1>3. /\ NothingAhead /\ SettledInTime
      /\ \A i \in Exists(ledger) :
            Probes(i) /\ Recovers(i) /\ ProbesAlone(i) /\ RecoversAlone(i)
  BY <1>2 DEF RestInv
<1>4. \/ QuietStep \/ UNCHANGED <<vars, guards>>
      \/ Settle
      \/ Admit
  BY <1>2 DEF GuardedNext, Monitor, Anyone, QuietStep
<1>5. CASE QuietStep \/ UNCHANGED <<vars, guards>> \/ Settle
  <2>1. Kept /\ NothingAhead' /\ SettledInTime' /\ Exists(ledger)' = Exists(ledger)
    BY <1>1, <1>3, <1>5, QuietRest, SettleRest
  <2>2. \A i \in Exists(ledger) :
           Probes(i)' /\ Recovers(i)' /\ ProbesAlone(i)' /\ RecoversAlone(i)'
    BY <1>1, <1>3, <2>1, OrderStands
  <2>3. QED
    BY <2>1, <2>2
<1>6. CASE Admit
  <2>1. /\ Kept /\ NothingAhead' /\ SettledInTime'
        /\ \A j \in Exists(ledger)' \ Exists(ledger) :
              Probes(j)' /\ Recovers(j)' /\ ProbesAlone(j)' /\ RecoversAlone(j)'
    BY <1>1, <1>3, <1>6, AdmitRest
  <2>2. \A i \in Exists(ledger) :
           Probes(i)' /\ Recovers(i)' /\ ProbesAlone(i)' /\ RecoversAlone(i)'
    BY <1>1, <1>3, <2>1, OrderStands
  <2>3. QED
    BY <2>1, <2>2
<1>7. QED
  BY <1>4, <1>5, <1>6

\* After losses the monitor tries one order at a time until one wins, for any
\* batches, windows, streaks and cooldowns no shorter than an order's life:
\* across crashes, minutes that are not settled and orders that have left the
\* klines.
THEOREM LossesAreRested == GuardedSpec => []RestAfterLosses
<1>1. GuardedInit => GInv
  BY InitGInv
<1>2. GuardedInit => RestInv
  BY DEF GuardedInit, RestInv, Init, EmptyLedger, Exists, Open, SettledOrders, Settled, ledger,
         NoOrder, NothingAhead, SettledInTime, Results
<1>3. GInv /\ [GuardedNext]_<<vars, guards>> => GInv'
  BY StepGInv
<1>4. RestInv => RestAfterLosses
  <2> SUFFICES ASSUME RestInv, service.kind = "MONITOR", NEW i \in Exists(ledger)
               PROVE  LET same == OfProfile(Exists(ledger), note[i].key, note[i].version)
                          rest == Trigger(Known(i))
                          won  == {j \in Known(i) : /\ note[j].mode = "RECOVERY"
                                                    /\ orders[j].opened >= rest + WaveCooldown
                                                    /\ orders[j].st = "WIN"}
                      IN  /\ Cardinality(Trailing(same \cap Known(i))) >= LossStreak
                               => Alone(i, same)
                          /\ rest # 0 /\ won = {} => Alone(i, Exists(ledger))
    BY DEF RestAfterLosses
  <2>1. ProbesAlone(i) /\ RecoversAlone(i)
    BY DEF RestInv
  <2>2. OfProfile(Exists(ledger), note[i].key, note[i].version) \cap Known(i) = KnownOfProfile(i)
    BY DEF OfProfile, KnownOfProfile, Known, SettledOrders, Settled, Results, Exists, ledger
  <2>3. Rest(i) = Trigger(Known(i)) /\
        WonSince(i) = {j \in Known(i) : /\ note[j].mode = "RECOVERY"
                                        /\ orders[j].opened >= Rest(i) + WaveCooldown
                                        /\ orders[j].st = "WIN"}
    BY DEF Rest, WonSince
  <2>4. QED
    BY <2>1, <2>2, <2>3 DEF ProbesAlone, RecoversAlone
<1>5. QED
  BY <1>1, <1>2, <1>3, <1>4, StepRestInv, PTL DEF GuardedSpec

=============================================================================
