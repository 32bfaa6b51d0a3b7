------------------------- MODULE MonitorLedgerProofs -------------------------
(***************************************************************************)
(* What is proved of the ledger of the running service, for any number of  *)
(* orders and minutes, any prices, limits and settings, and any crashes,   *)
(* failed transactions and symbol switches.                                *)
(***************************************************************************)
EXTENDS MonitorLedger, CommonLemmas, TLAPS, SequenceTheorems, FiniteSetTheorems

-----------------------------------------------------------------------------
(* The operations on a ledger keep its type *)

LEMMA CancelTypes ==
  ASSUME NEW L \in LedgerType, NEW S
  PROVE  CancelCredits(L, S) \in LedgerType
BY DEF LedgerType, CancelCredits, Held, Credit

LEMMA AddTypes ==
  ASSUME NEW L \in LedgerType, NEW i \in OrderIds, NEW order \in Order
  PROVE  AddOrder(L, i, order) \in LedgerType
BY DEF LedgerType, AddOrder, Consume, Credit, Order

LEMMA RemoveTypes ==
  ASSUME NEW L \in LedgerType, NEW i \in OrderIds
  PROVE  RemoveOrder(L, i) \in LedgerType
BY DEF LedgerType, RemoveOrder, Held, Credit

LEMMA SettleTypes ==
  ASSUME NEW L \in LedgerType, NEW i \in Exists(L), NEW result \in Results,
         NEW credit \in Credit
  PROVE  SettleOrder(L, i, result, credit) \in LedgerType
<1>1. i \in OrderIds /\ L.orders[i] \in Order
  BY DEF Exists, LedgerType, NoOrder
<1>2. [L.orders[i] EXCEPT !.st = result] \in Order
  BY <1>1 DEF Order
<1>3. QED
  BY <1>1, <1>2 DEF SettleOrder, LedgerType

LEMMA EarnedTypes ==
  ASSUME NEW L \in LedgerType, NEW i \in OrderIds, NEW result, NEW enabled,
         NEW activated, NEW capacity
  PROVE  Earned(L, i, result, enabled, activated, capacity) \in Credit
BY DEF Earned, Held, Credit, LedgerType

LEMMA EmptyTypes == EmptyLedger \in LedgerType /\ Exists(EmptyLedger) = {}
BY DEF EmptyLedger, LedgerType, NoCredit, NoOrder, Credit, Exists

\* The credits that reconcile cancels are waiting.
LEMMA ExcessIsPending ==
  ASSUME NEW L, NEW enabled, NEW capacity
  PROVE  Excess(L, enabled, capacity) \subseteq AllPending(L)
BY DEF Excess, AllPending, Pending, Exists

\* The credit that pays for a second stage is one that waits in its direction
\* and was earned before.
LEMMA OldestCredit ==
  ASSUME NEW L \in LedgerType, NEW S \in SUBSET Exists(L), S # {}
  PROVE  \E s \in S : \A r \in S \ {s} : Older(L, s, r)
<1> DEFINE E == {Expiry(L, s) : s \in S}
<1>1. \A s \in S : Expiry(L, s) \in Nat
  BY LedgerAssumption DEF LedgerType, Expiry, Order, NoOrder, Exists
<1>2. E \subseteq Nat /\ E # {}
  BY <1>1
<1>3. PICK e \in E : \A x \in E : e <= x
  <2> HIDE DEF E
  <2>1. QED
    BY <1>2, LeastExists
<1> DEFINE T == {s \in S : Expiry(L, s) = e}
<1>4. T \subseteq Nat /\ T # {}
  BY <1>3, LedgerAssumption DEF OrderIds, Exists
<1>5. PICK s \in T : \A r \in T : s <= r
  <2> HIDE DEF T
  <2>1. QED
    BY <1>4, LeastExists
<1>6. ASSUME NEW r \in S \ {s} PROVE Older(L, s, r)
  <2>1. Expiry(L, r) \in E /\ Expiry(L, s) = e /\ e <= Expiry(L, r)
    BY <1>3, <1>5
  <2>2. Expiry(L, r) \in Nat /\ e \in Nat /\ r \in Nat /\ s \in Nat
    BY <1>1, <1>2, <1>3, LedgerAssumption DEF OrderIds, Exists
  <2>3. CASE Expiry(L, r) = e
    BY <1>5, <1>6, <2>1, <2>2, <2>3 DEF Older
  <2>4. CASE Expiry(L, r) # e
    BY <2>1, <2>2, <2>4 DEF Older
  <2>5. QED
    BY <2>3, <2>4
<1>7. QED
  BY <1>5, <1>6

LEMMA AssignedIsEligible ==
  ASSUME NEW L \in LedgerType, NEW enabled \in BOOLEAN, NEW d, NEW t
  PROVE  Assign(L, enabled, d, t) \in {0} \cup Eligible(L, d, t)
<1>1. CASE ~enabled \/ Eligible(L, d, t) = {}
  BY <1>1 DEF Assign
<1>2. CASE enabled /\ Eligible(L, d, t) # {}
  <2>1. Eligible(L, d, t) \subseteq Exists(L)
    BY DEF Eligible, Pending
  <2>2. \E s \in Eligible(L, d, t) : \A r \in Eligible(L, d, t) \ {s} : Older(L, s, r)
    BY <1>2, <2>1, OldestCredit
  <2>3. QED
    BY <1>2, <2>2 DEF Assign
<1>3. QED
  BY <1>1, <1>2
LEMMA NewestExists ==
  ASSUME mem \in LedgerType, Exists(mem) # {}
  PROVE  Newest \in Exists(mem) /\ \A j \in Exists(mem) : j <= Newest
<1>1. Exists(mem) \subseteq 0..MaxOrders /\ MaxOrders \in Nat
  BY LedgerAssumption DEF Exists, OrderIds
<1>2. \E n \in Exists(mem) : \A j \in Exists(mem) : j <= n
  BY <1>1, GreatestExists
<1>3. QED
  BY <1>2 DEF Newest

LEMMA LargestIsNat ==
  /\ Largest(MaxActiveChoices) \in Nat \ {0}
  /\ \A m \in MaxActiveChoices : m \in Nat /\ m <= Largest(MaxActiveChoices)
BY MonitorAssumption DEF Largest

-----------------------------------------------------------------------------
(* Where the process stands *)

\* What holds at the points an update goes through: memory is forgotten
\* when no process has this symbol, the queue is written before anything is
\* decided, and there is a minute to decide about.
Stages ==
    /\ pc \in {"down", "loading", "away"} => mem = EmptyLedger
    /\ pc \in {"down", "loading", "decide", "gate", "save", "notify"} => pend = <<>>
    /\ pc \in {"bootstrap", "wave", "flush", "settle", "decide", "gate", "save", "notify"} =>
           now >= 1
    /\ pc = "flush" => pend # <<>>
    /\ pc \in {"gate", "save", "notify"} => cand.dir \in Directions
    /\ pc \in {"save", "notify"} => Exists(mem) # {}
    /\ pc = "save" => mem.orders[Newest].opened = now
    /\ config.maxActive <= Largest(MaxActiveChoices)

\* What a step does to the two ledgers and the queue, and where it leads.
Quiet ==
    /\ UNCHANGED <<tape, db, mem, pend, config, runtime, switches>>
    /\ \/ pc' = pc /\ UNCHANGED <<cand, sent, decided>>
       \/ pc' = "idle" /\ pc \notin {"down", "loading", "away", "save"}
       \/ pc' \in {"bootstrap", "wave"} /\ pc = "idle" /\ now > 0
       \/ pc' = SettlementStage /\ pc \in {"idle", "wave"} /\ (pc = "idle" => now > 0)
       \/ pc' = (IF pend = <<>> THEN "decide" ELSE "flush") /\ pc = "settle" /\ Due = {}
Forgets ==
    /\ mem' = EmptyLedger
    /\ UNCHANGED <<tape, db, config, runtime>>
    /\ \/ pc' = "down" /\ pend' = <<>> /\ UNCHANGED switches
       \/ pc' = "away" /\ pend' = pend /\ pc = "idle" /\ switches' = switches + 1
Prepares ==
    /\ pc = "down" /\ pc' = "loading"
    /\ \E enabled \in EnabledChoices, maxActive \in MaxActiveChoices :
           PrepareStart(enabled, maxActive)
Loads ==
    /\ db' = Restored /\ mem' = Restored
    /\ UNCHANGED <<tape, pend, config, runtime>>
    /\ \/ pc = "loading" /\ pc' = "warmup" /\ UNCHANGED switches
       \/ pc \in {"idle", "away"} /\ pc' = "warmup" /\ switches' = switches + 1
       \/ pc = "decide" /\ pc' = "idle" /\ UNCHANGED switches
Cancels(S) ==
    /\ CancelBoth(S)
    /\ UNCHANGED <<tape, pend, config, runtime, switches>>
    /\ \/ pc = "warmup" /\ pc' = "idle"
       \/ pc = "bootstrap" /\ pc' = "wave"
       \/ /\ pc = "decide" /\ pc' = "gate"
          /\ cand'.dir \in Directions /\ ~Committed(cand'.dir) /\ decided' = decided
Flushes ==
    /\ FlushHead
    /\ UNCHANGED <<tape, mem, config, runtime, switches>>
    /\ \/ pc = "away" /\ pc' = "away" /\ pend # <<>>
       \/ pc = "flush" /\ pc' = (IF Tail(pend) = <<>> THEN "settle" ELSE "flush")
Returns ==
    /\ pc = "save" /\ pc' = "idle"
    /\ mem' = RemoveOrder(mem, Newest)
    /\ UNCHANGED <<tape, db, pend, config, runtime, switches>>

\* Every step is one of these.
LEMMA StepKinds ==
  ASSUME TypeOK, [Next]_vars
  PROVE  \/ Tick \/ Quiet \/ Forgets \/ Prepares \/ Loads
         \/ \E S \in SUBSET AllPending(mem) : Cancels(S)
         \/ Flushes \/ SettleInMemory \/ OpenInMemory \/ SaveOpen \/ Returns
<1> DEFINE Goal == \/ Tick \/ Quiet \/ Forgets \/ Prepares \/ Loads
                   \/ \E S \in SUBSET AllPending(mem) : Cancels(S)
                   \/ Flushes \/ SettleInMemory \/ OpenInMemory \/ SaveOpen \/ Returns
<1>1. CASE UNCHANGED vars
  BY <1>1 DEF Quiet, vars, disk, process, observed
<1>2. CASE WarmupFails \/ BootstrapCancelFails \/ PersistWaveFails \/ FlushFails \/ BlockFails
           \/ (\E d \in Directions : JudgeCreditsFails(d))
  BY <1>2 DEF WarmupFails, BootstrapCancelFails, PersistWaveFails, FlushFails, BlockFails,
              JudgeCreditsFails, GiveUp, Quiet, disk, process, observed
<1>3. CASE SaveOpenFails
  BY <1>3 DEF SaveOpenFails, GiveUp, Returns, disk, observed
<1>4. CASE Crash \/ LeaveSymbol
  BY <1>4 DEF Crash, LeaveSymbol, ForgetProcess, Forgets, disk
<1>5. CASE FinishStart \/ ResetSymbol
  BY <1>5 DEF FinishStart, ResetSymbol, LoadLedger, Loads
<1>6. CASE \E enabled \in EnabledChoices, maxActive \in MaxActiveChoices :
              PrepareStart(enabled, maxActive)
  BY <1>6 DEF Prepares, PrepareStart
<1>7. ASSUME NEW ready \in WaveReadyChoices, Seed(ready) PROVE Goal
  <2> DEFINE due == bootReq /\ ready /\ bootCancel
             S == IF due THEN AllPending(mem) ELSE {}
  <2>1. CASE CancelBoth(S)
    <3>1. S \in SUBSET AllPending(mem)
      OBVIOUS
    <3>2. Cancels(S)
      BY <1>7, <2>1 DEF Seed, Cancels, observed
    <3>3. QED
      BY <3>1, <3>2
  <2>2. CASE UNCHANGED <<db, mem>>
    BY <1>7, <2>2 DEF Seed, Quiet, observed
  <2>3. CancelBoth(S) \/ UNCHANGED <<db, mem>>
    BY <1>7 DEF Seed
  <2>4. QED
    BY <2>1, <2>2, <2>3
<1>8. CASE \E ready \in WaveReadyChoices : BeginUpdate(ready)
  BY <1>8 DEF BeginUpdate, Fresh, Quiet, disk, process, observed
<1>9. CASE BootstrapCancel
  BY <1>9 DEF BootstrapCancel, Cancels, observed
<1>10. CASE PersistWave \/ SettlementDone
  BY <1>10 DEF PersistWave, SettlementDone, Quiet, disk, process, observed
<1>11. CASE Flush \/ FlushWhileAway
  BY <1>11 DEF Flush, FlushWhileAway, Flushes, observed
<1>12. CASE DecideWait \/ Notify \/ (\E recorded \in BOOLEAN : Block(recorded))
            \/ (\E d \in Directions : BlockByRange(d))
  BY <1>12 DEF DecideWait, Notify, Block, BlockByRange, Finish, Quiet, disk, observed
<1>13. ASSUME NEW d \in Directions, Replay(d) PROVE Goal
  <2>1. CASE db' = Restored /\ mem' = Restored
    BY <1>13, <2>1 DEF Replay, Finish, Loads, observed
  <2>2. CASE UNCHANGED <<db, mem>>
    BY <1>13, <2>2 DEF Replay, Finish, Quiet, observed
  <2>3. QED
    BY <1>13, <2>1, <2>2 DEF Replay
<1>14. ASSUME NEW d \in Directions, NEW mode \in Modes, JudgeCredits(d, mode) PROVE Goal
  <2>1. PICK S \in Withdrawn(mode, d) : CancelBoth(S)
    BY <1>14 DEF JudgeCredits
  <2>2. Pending(mem, d) \subseteq AllPending(mem)
    BY DEF Pending, AllPending, Exists
  <2>3. Withdrawn(mode, d) \subseteq SUBSET Pending(mem, d)
    BY <1>14 DEF Withdrawn, Modes
  <2>4. S \in SUBSET AllPending(mem)
    BY <2>1, <2>2, <2>3
  <2>5. Cancels(S)
    BY <1>14, <2>1 DEF JudgeCredits, Cancels, observed
  <2>6. QED
    BY <2>4, <2>5
<1>15. QED
  BY <1>1, <1>2, <1>3, <1>4, <1>5, <1>6, <1>7, <1>8, <1>9, <1>10, <1>11, <1>12, <1>13, <1>14
  DEF Next, Start, Update, Decide, Failures
\* The largest id is the newest order's, after a step too.
LEMMA NewestAfter ==
  ASSUME (mem \in LedgerType)', NEW i, i \in Exists(mem'), \A j \in Exists(mem') : j <= i
  PROVE  Newest' = i
<1>1. Exists(mem') \subseteq Int
  BY LedgerAssumption DEF Exists, OrderIds
<1>2. Newest' = CHOOSE n \in Exists(mem') : \A j \in Exists(mem') : j <= n
  BY DEF Newest
<1>3. Newest' \in Exists(mem') /\ \A j \in Exists(mem') : j <= Newest'
  BY <1>2
<1>4. Newest' <= i /\ i <= Newest' /\ Newest' \in Int /\ i \in Int
  BY <1>1, <1>3
<1>5. QED
  BY <1>4

\* Opening in memory adds one order, the newest.
LEMMA OpenEffect ==
  ASSUME TypeOK, Stages, OpenInMemory
  PROVE  \E i \in OrderIds, grants \in BOOLEAN, source \in {0} \cup Eligible(mem, cand.dir, now) :
           LET order == [st |-> "OPEN", dir |-> cand.dir, opened |-> now, grants |-> grants,
                         source |-> source]
           IN  /\ IsNextId(mem, i) /\ i \notin Exists(mem)
               /\ order \in Order
               /\ mem' = AddOrder(mem, i, order)
               /\ mem' \in LedgerType
               /\ Exists(mem') = Exists(mem) \cup {i} /\ Newest' = i
<1>1. PICK i \in OrderIds, t \in Terms :
        /\ IsNextId(mem, i)
        /\ mem' = AddOrder(mem, i,
                    [st |-> "OPEN", dir |-> cand.dir, opened |-> now, grants |-> t.grants,
                     source |-> Assign(mem, config.enabled /\ t.progression, cand.dir, now)])
  BY DEF OpenInMemory
<1> DEFINE source == Assign(mem, config.enabled /\ t.progression, cand.dir, now)
           order == [st |-> "OPEN", dir |-> cand.dir, opened |-> now, grants |-> t.grants,
                     source |-> source]
<1>2. mem \in LedgerType /\ config.enabled \in BOOLEAN /\ t.grants \in BOOLEAN
      /\ t.progression \in BOOLEAN
  BY DEF TypeOK, Configs, Terms
<1>3. source \in {0} \cup Eligible(mem, cand.dir, now)
  <2>1. (config.enabled /\ t.progression) \in BOOLEAN
    OBVIOUS
  <2>2. QED
    BY <1>2, <2>1, AssignedIsEligible
<1> HIDE DEF source
<1>4. source \in OrderIds \cup {0}
  BY <1>3 DEF Eligible, Pending, Exists
<1>5. now \in 1..MaxTime /\ cand.dir \in Directions
  BY LedgerAssumption DEF OpenInMemory, Stages, TypeOK, now
<1>6. order \in Order
  BY <1>2, <1>4, <1>5 DEF Order
<1>7. mem' = AddOrder(mem, i, order)
  BY <1>1 DEF source
<1>8. i \notin Exists(mem)
  BY <1>1, LedgerAssumption DEF IsNextId, OrderIds
<1> HIDE DEF order
<1>9. mem' \in LedgerType
  BY <1>2, <1>6, <1>7, AddTypes
<1>10. order.st = "OPEN"
  BY DEF order
<1>11. Exists(mem') = Exists(mem) \cup {i}
  BY <1>2, <1>7, <1>10 DEF AddOrder, Exists, LedgerType
<1>12. \A j \in Exists(mem') : j <= i
  BY <1>1, <1>11, LedgerAssumption DEF IsNextId, OrderIds, Exists
<1>13. Newest' = i
  BY <1>9, <1>11, <1>12, NewestAfter
<1>14. QED
  BY <1>1, <1>2, <1>3, <1>6, <1>7, <1>8, <1>9, <1>11, <1>13 DEF order

\* The head of the queue is a settlement of the queue's type.
LEMMA HeadTypes ==
  ASSUME pend \in Seq(Settlements), pend # <<>>
  PROVE  /\ Head(pend) \in Settlements /\ Head(pend) = pend[1]
         /\ Head(pend).id \in OrderIds /\ Head(pend).result \in Results
         /\ Head(pend).credit \in Credit
         /\ Tail(pend) \in Seq(Settlements) /\ Len(Tail(pend)) = Len(pend) - 1
         /\ Len(pend) \in Nat \ {0} /\ DOMAIN pend = 1..Len(pend)
         /\ DOMAIN Tail(pend) = 1..Len(Tail(pend))
         /\ \A k \in 1..Len(Tail(pend)) : k + 1 \in 1..Len(pend) /\ Tail(pend)[k] = pend[k + 1]
<1>1. Head(pend) \in Settlements /\ Head(pend) = pend[1] /\ Tail(pend) \in Seq(Settlements)
  BY TailPlaces
<1>2. QED
  BY <1>1, TailPlaces DEF Settlements

\* A settlement row is typed, for its order is open or has its result.
LEMMA FlushTypes ==
  ASSUME TypeOK, pend # <<>>, FlushHead
  PROVE  db' \in LedgerType /\ pend' \in Seq(Settlements)
<1> DEFINE e == Head(pend)
<1>1. db \in LedgerType /\ e.id \in OrderIds /\ e.result \in Results /\ e.credit \in Credit
      /\ Tail(pend) \in Seq(Settlements)
  BY HeadTypes DEF TypeOK
<1>2. e.id \in Exists(db)
  BY <1>1 DEF FlushHead, Exists, Results
<1>3. Upsert(db.credits[e.id], e.credit) \in Credit
  BY <1>1 DEF Upsert, LedgerType
<1> DEFINE c == Upsert(db.credits[e.id], e.credit)
<1>4. db' = SettleRow(e.id, e.result, e.credit) /\ pend' = Tail(pend)
  BY DEF FlushHead
<1> HIDE DEF e
<1>5. SettleRow(e.id, e.result, e.credit) = SettleOrder(db, e.id, e.result, c)
  BY <1>1 DEF SettleRow, SettleOrder
<1> HIDE DEF c
<1>6. QED
  BY <1>1, <1>2, <1>3, <1>4, <1>5, SettleTypes DEF c

\* Opening on disk writes the order of memory.
LEMMA SaveEffect ==
  ASSUME TypeOK, Stages, SaveOpen
  PROVE  LET i == Newest
             o == mem.orders[Newest]
         IN  /\ i \in OrderIds /\ i \in Exists(mem) /\ o \in Order
             /\ db.orders[i].st = "NONE"
             /\ o.source # 0 => db.credits[o.source].st = "PENDING"
             /\ db' = AddOrder(db, i, o) /\ db' \in LedgerType
             /\ UNCHANGED <<tape, mem, pend, config, runtime, switches>>
             /\ pc = "save" /\ pc' = "notify"
<1>1. Newest \in Exists(mem) /\ mem \in LedgerType /\ db \in LedgerType
  BY NewestExists DEF Stages, TypeOK, SaveOpen
<1>2. Newest \in OrderIds /\ mem.orders[Newest] \in Order
  BY <1>1 DEF Exists, LedgerType, NoOrder
<1>3. db' = AddOrder(db, Newest, mem.orders[Newest])
  BY DEF SaveOpen
<1>4. db' \in LedgerType
  BY <1>1, <1>2, <1>3, AddTypes
<1>5. QED
  BY <1>1, <1>2, <1>3, <1>4 DEF SaveOpen, SaveRefused, process, observed

\* Settling in memory: the oldest due order, its result and its credit.
LEMMA SettleEffect ==
  ASSUME TypeOK, SettleInMemory
  PROVE  \E i \in Due :
           LET result == Result(mem.orders[i])
               credit == Earned(mem, i, result, config.enabled, runtime.activated,
                                config.maxActive)
           IN  /\ \A j \in Due : i <= j
               /\ i \in OrderIds /\ mem.orders[i].st = "OPEN" /\ mem.orders[i] \in Order
               /\ result \in Results /\ credit \in Credit
               /\ mem' = SettleOrder(mem, i, result, credit) /\ mem' \in LedgerType
               /\ pend' = Append(pend, [id |-> i, result |-> result, credit |-> credit])
               /\ [id |-> i, result |-> result, credit |-> credit] \in Settlements
               /\ UNCHANGED <<tape, db, config, runtime, pc, switches>>
               /\ pc = "settle"
<1>1. PICK i \in Due :
        LET result == Result(mem.orders[i])
            credit == Earned(mem, i, result, config.enabled, runtime.activated,
                             config.maxActive)
        IN /\ \A j \in Due : i <= j
           /\ mem' = SettleOrder(mem, i, result, credit)
           /\ pend' = Append(pend, [id |-> i, result |-> result, credit |-> credit])
  BY DEF SettleInMemory
<1> DEFINE result == Result(mem.orders[i])
           credit == Earned(mem, i, result, config.enabled, runtime.activated,
                            config.maxActive)
<1>2. mem \in LedgerType /\ i \in OrderIds /\ mem.orders[i].st = "OPEN"
  BY DEF Due, Open, TypeOK
<1>3. mem.orders[i] \in Order /\ i \in Exists(mem)
  BY <1>2 DEF LedgerType, NoOrder, Exists
<1>4. result \in Results
  BY DEF Result, ResultAt, Results
<1> HIDE DEF result
<1>5. credit \in Credit
  BY <1>2, EarnedTypes
<1> HIDE DEF credit
<1>6. mem' = SettleOrder(mem, i, result, credit)
  BY <1>1 DEF result, credit
<1>7. mem' \in LedgerType
  BY <1>2, <1>3, <1>4, <1>5, <1>6, SettleTypes
<1>8. [id |-> i, result |-> result, credit |-> credit] \in Settlements
  BY <1>2, <1>4, <1>5 DEF Settlements
<1>9. QED
  BY <1>1, <1>2, <1>3, <1>4, <1>5, <1>7, <1>8 DEF result, credit, SettleInMemory, disk, observed
-----------------------------------------------------------------------------
(* Type correctness *)

LedgersTyped == db \in LedgerType /\ mem \in LedgerType /\ pend \in Seq(Settlements)

RestTyped ==
    /\ tape \in Seq(Prices) /\ now <= MaxTime
    /\ runtime \in Runtimes
    /\ waveSaved \in BOOLEAN /\ bootReq \in BOOLEAN /\ bootCancel \in BOOLEAN
    /\ decided \subseteq (Directions \X Verdicts)
    /\ pc \in Points
    /\ config \in Configs
    /\ cursor \in 0..MaxTime
    /\ cand \in Candidates
    /\ sent \in [OrderIds -> Nat] /\ legacy \subseteq OrderIds
    /\ faults \in 0..MaxFaults /\ switches \in 0..MaxSwitches

LEMMA InitTypeOK == Init => TypeOK
<1>1. ASSUME Init PROVE LedgersTyped
  BY <1>1, EmptyTypes DEF Init, LedgersTyped
<1>2. ASSUME Init PROVE RestTyped
  <2>1. tape \in Seq(Prices) /\ now = 0
    BY <1>2 DEF Init, now
  <2>2. cand \in Candidates /\ config \in Configs /\ runtime \in Runtimes /\ pc \in Points
    BY <1>2, LedgerAssumption
    DEF Init, Runtimes, Points, Configs, Candidates, NoCandidate, Modes
  <2>3. sent \in [OrderIds -> Nat] /\ cursor \in 0..MaxTime
    BY <1>2, LedgerAssumption DEF Init
  <2>4. waveSaved \in BOOLEAN /\ bootReq \in BOOLEAN /\ bootCancel \in BOOLEAN
        /\ decided \subseteq (Directions \X Verdicts) /\ legacy \subseteq OrderIds
    BY <1>2, Zenon DEF Init
  <2>5. now <= MaxTime /\ faults \in 0..MaxFaults /\ switches \in 0..MaxSwitches
    BY <1>2, <2>1, LedgerAssumption, MonitorAssumption DEF Init
  <2>6. QED
    BY <2>1, <2>2, <2>3, <2>4, <2>5, Zenon DEF RestTyped
<1>3. QED
  BY <1>1, <1>2 DEF TypeOK, LedgersTyped, RestTyped

LEMMA StepLedgersTyped == TypeOK /\ Stages /\ [Next]_vars => LedgersTyped'
<1> SUFFICES ASSUME TypeOK, Stages, [Next]_vars PROVE LedgersTyped'
  OBVIOUS
<1>1. db \in LedgerType /\ mem \in LedgerType /\ pend \in Seq(Settlements)
  BY DEF TypeOK
<1>2. CASE Tick \/ Quiet
  BY <1>1, <1>2 DEF Tick, Quiet, LedgersTyped, process
<1>3. CASE Forgets
  <2>1. <<>> \in Seq(Settlements)
    OBVIOUS
  <2>2. QED
    BY <1>1, <1>3, <2>1, EmptyTypes DEF Forgets, LedgersTyped
<1>4. CASE Prepares
  <2>1. PICK S : db' = CancelCredits(db, S) /\ UNCHANGED <<mem, pend>>
    BY <1>4 DEF Prepares, PrepareStart
  <2>2. QED
    BY <1>1, <2>1, CancelTypes DEF LedgersTyped
<1>5. CASE Loads
  <2>1. Restored \in LedgerType
    BY <1>1, CancelTypes DEF Restored
  <2>2. QED
    BY <1>1, <1>5, <2>1 DEF Loads, LedgersTyped
<1>6. ASSUME NEW S \in SUBSET AllPending(mem), Cancels(S) PROVE LedgersTyped'
  <2>1. db' = CancelCredits(db, S) /\ mem' = CancelCredits(mem, S) /\ pend' = pend
    BY <1>6 DEF Cancels, CancelBoth
  <2>2. QED
    BY <1>1, <2>1, CancelTypes DEF LedgersTyped
<1>7. CASE Flushes
  <2>1. pend # <<>>
    BY <1>7 DEF Flushes, Stages
  <2>2. QED
    BY <1>1, <1>7, <2>1, FlushTypes DEF Flushes, LedgersTyped
<1>8. CASE SettleInMemory
  <2>1. PICK e \in Settlements : pend' = Append(pend, e) /\ mem' \in LedgerType /\ db' = db
    BY <1>8, SettleEffect
  <2>2. QED
    BY <1>1, <2>1, AppendPlaces DEF LedgersTyped
<1>9. CASE OpenInMemory
  <2>1. mem' \in LedgerType
    BY <1>9, OpenEffect
  <2>2. QED
    BY <1>1, <1>9, <2>1 DEF OpenInMemory, disk, LedgersTyped
<1>10. CASE SaveOpen
  BY <1>1, <1>10, SaveEffect DEF LedgersTyped
<1>11. CASE Returns
  <2>1. Newest \in OrderIds
    BY <1>1, <1>11, NewestExists DEF Returns, Stages, Exists
  <2>2. QED
    BY <1>1, <1>11, <2>1, RemoveTypes DEF Returns, LedgersTyped
<1>12. QED
  BY <1>2, <1>3, <1>4, <1>5, <1>6, <1>7, <1>8, <1>9, <1>10, <1>11, StepKinds

LEMMA StepRestTyped == TypeOK /\ Stages /\ [Next]_vars => RestTyped'
<1> SUFFICES ASSUME TypeOK, Stages, [Next]_vars PROVE RestTyped'
  OBVIOUS
<1>1. RestTyped /\ now \in Nat /\ now \in 0..MaxTime
  BY LedgerAssumption DEF TypeOK, RestTyped, now
<1> USE DEF RestTyped
<1>2. CASE UNCHANGED vars
  BY <1>1, <1>2 DEF vars, disk, process, observed, now
<1>3. CASE Tick
  <2>1. PICK p \in Prices : tape' = Append(tape, p)
    BY <1>3 DEF Tick
  <2>2. tape' \in Seq(Prices) /\ now' = now + 1
    BY <1>1, <2>1, AppendPlaces DEF now
  <2>3. now' <= MaxTime
    BY <1>1, <1>3, <2>2, LedgerAssumption DEF Tick
  <2>4. QED
    BY <1>1, <1>3, <2>2, <2>3 DEF Tick, process, observed
<1>4. ASSUME NEW enabled \in EnabledChoices, NEW maxActive \in MaxActiveChoices,
             PrepareStart(enabled, maxActive)
      PROVE  RestTyped'
  <2>1. enabled \in BOOLEAN /\ maxActive \in Nat /\ MaxOpen \in Nat
    BY MonitorAssumption
  <2>2. runtime' \in Runtimes
    BY <1>1, <1>4, <2>1, LedgerAssumption DEF PrepareStart, Runtimes
  <2>3. config' \in Configs
    BY <1>4, <2>1 DEF PrepareStart, Configs
  <2>4. QED
    BY <1>1, <1>4, <2>2, <2>3 DEF PrepareStart, observed, Points, now
<1>5. CASE FinishStart \/ ResetSymbol
  <2>1. AllPending(Restored) \subseteq OrderIds
    BY DEF AllPending
  <2>2. legacy' \subseteq OrderIds /\ bootReq' \in BOOLEAN /\ bootCancel' \in BOOLEAN
    BY <1>5, <2>1, <1>1 DEF FinishStart, ResetSymbol, LoadLedger
  <2>3. switches' \in 0..MaxSwitches
    BY <1>1, <1>5, MonitorAssumption DEF FinishStart, ResetSymbol
  <2>4. QED
    BY <1>1, <1>5, <2>2, <2>3, LedgerAssumption
    DEF FinishStart, ResetSymbol, LoadLedger, Points, now
<1>6. ASSUME NEW ready \in WaveReadyChoices, Seed(ready) PROVE RestTyped'
  <2>1. ready \in BOOLEAN
    BY MonitorAssumption
  <2>2. faults' \in 0..MaxFaults
    BY <1>1, <1>6, MonitorAssumption DEF Seed, StorageFails, CancelFails
  <2>3. waveSaved' \in BOOLEAN
    BY <1>1, <1>6, <2>1 DEF Seed
  <2>4. bootReq' \in BOOLEAN
    BY <1>1, <1>6, <2>1 DEF Seed
  <2>5. bootCancel' \in BOOLEAN
    BY <1>1, <1>6, <2>1 DEF Seed
  <2>6. QED
    BY <1>1, <1>6, <2>2, <2>3, <2>4, <2>5 DEF Seed, observed, Points, now
<1>7. CASE WarmupFails \/ BootstrapCancelFails \/ PersistWaveFails \/ FlushFails \/ BlockFails
           \/ SaveOpenFails \/ Crash \/ LeaveSymbol
           \/ (\E d \in Directions : JudgeCreditsFails(d))
  <2>1. faults' \in 0..MaxFaults
    BY <1>1, <1>7, MonitorAssumption
    DEF WarmupFails, BootstrapCancelFails, PersistWaveFails, FlushFails, BlockFails,
        SaveOpenFails, Crash, LeaveSymbol, JudgeCreditsFails, CancelFails, StorageFails
  <2>2. switches' \in 0..MaxSwitches
    BY <1>1, <1>7, MonitorAssumption
    DEF WarmupFails, BootstrapCancelFails, PersistWaveFails, FlushFails, BlockFails,
        SaveOpenFails, Crash, LeaveSymbol, JudgeCreditsFails, observed
  <2>3. cand' \in Candidates
    BY <1>1, <1>7
    DEF WarmupFails, BootstrapCancelFails, PersistWaveFails, FlushFails, BlockFails,
        SaveOpenFails, Crash, LeaveSymbol, JudgeCreditsFails, process, ForgetProcess,
        Candidates, NoCandidate, Modes
  <2>4. /\ cursor' \in 0..MaxTime /\ bootReq' \in BOOLEAN /\ bootCancel' \in BOOLEAN
        /\ legacy' \subseteq OrderIds /\ pc' \in Points
    <3>1. CASE Crash \/ LeaveSymbol
      <4>1. cursor' = 0 /\ pc' \in Points
        BY <3>1 DEF Crash, LeaveSymbol, ForgetProcess, Points
      <4>2. bootReq' = FALSE /\ bootCancel' = FALSE /\ legacy' = {}
        BY <3>1 DEF Crash, LeaveSymbol, ForgetProcess
      <4>3. bootReq' \in BOOLEAN /\ bootCancel' \in BOOLEAN /\ legacy' \subseteq OrderIds
        BY <4>2, Zenon
      <4>4. QED
        BY <4>1, <4>3, LedgerAssumption
    <3>2. CASE WarmupFails \/ BootstrapCancelFails \/ PersistWaveFails \/ FlushFails
                \/ BlockFails \/ SaveOpenFails \/ (\E d \in Directions : JudgeCreditsFails(d))
      <4>1. UNCHANGED <<cursor, bootReq, bootCancel, legacy>> /\ pc' = "idle"
        BY <3>2
        DEF WarmupFails, BootstrapCancelFails, PersistWaveFails, FlushFails, BlockFails,
            SaveOpenFails, JudgeCreditsFails, process, observed, GiveUp
      <4>2. QED
        BY <1>1, <4>1 DEF Points
    <3>3. QED
      BY <1>7, <3>1, <3>2
  <2>5. UNCHANGED <<tape, runtime, waveSaved, decided, config, sent>>
    BY <1>7
    DEF WarmupFails, BootstrapCancelFails, PersistWaveFails, FlushFails, BlockFails,
        SaveOpenFails, Crash, LeaveSymbol, JudgeCreditsFails, process, disk, observed
  <2>6. QED
    BY <1>1, <2>1, <2>2, <2>3, <2>4, <2>5 DEF now
<1>8. CASE (\E ready \in WaveReadyChoices : BeginUpdate(ready)) \/ BootstrapCancel \/ PersistWave
           \/ Flush \/ FlushWhileAway \/ SettleInMemory \/ SettlementDone
  <2>1. pc' \in Points
    BY <1>1, <1>8 DEF BeginUpdate, BootstrapCancel, PersistWave, Flush, FlushWhileAway,
                 SettleInMemory, SettlementDone, SettlementStage, Points
  <2>2. waveSaved' \in BOOLEAN /\ bootReq' \in BOOLEAN /\ bootCancel' \in BOOLEAN
    BY <1>1, <1>8 DEF BeginUpdate, BootstrapCancel, PersistWave, Flush, FlushWhileAway,
                 SettleInMemory, SettlementDone, disk, process
  <2>3. UNCHANGED <<tape, runtime, decided, config, cursor, cand, observed, faults>>
    BY <1>8 DEF BeginUpdate, BootstrapCancel, PersistWave, Flush, FlushWhileAway,
                 SettleInMemory, SettlementDone, disk, process
  <2>4. QED
    BY <1>1, <2>1, <2>2, <2>3 DEF observed, now
<1>9. CASE DecideWait \/ (\E recorded \in BOOLEAN : Block(recorded)) \/ Notify
           \/ (\E d \in Directions : Replay(d) \/ BlockByRange(d))
  <2>1. NoCandidate \in Candidates
    BY DEF NoCandidate, Candidates, Modes
  <2>2. decided' \subseteq (Directions \X Verdicts)
    <3>1. CASE \E recorded \in BOOLEAN : Block(recorded)
      <4>1. decided' = decided \/ (decided' = decided \cup {<<cand.dir, "BLOCKED">>})
        BY <3>1 DEF Block, Recorded
      <4>2. cand.dir \in Directions
        BY <3>1 DEF Block, Stages
      <4>3. QED
        BY <1>1, <4>1, <4>2 DEF Verdicts
    <3>2. CASE \E d \in Directions : BlockByRange(d)
      BY <1>1, <3>2 DEF BlockByRange, Recorded, Verdicts
    <3>3. QED
      BY <1>1, <1>9, <3>1, <3>2 DEF DecideWait, Notify, Replay, disk
  <2>3. sent' \in [OrderIds -> Nat]
    <3>1. sent' = sent \/ sent' = [sent EXCEPT ![Newest] = @ + 1]
      BY <1>9 DEF DecideWait, Block, Notify, Replay, BlockByRange, observed
    <3>2. QED
      BY <1>1, <3>1
  <2>4. bootCancel' \in BOOLEAN
    BY <1>1, <1>9 DEF DecideWait, Block, Notify, Replay, BlockByRange
  <2>5. cand' = NoCandidate /\ cursor' = now /\ pc' = "idle"
    BY <1>9 DEF DecideWait, Block, Notify, Replay, BlockByRange, Finish
  <2>6. UNCHANGED <<tape, runtime, waveSaved, config, bootReq, legacy, faults, switches>>
    BY <1>9 DEF DecideWait, Block, Notify, Replay, BlockByRange, disk, observed
  <2>7. QED
    BY <1>1, <2>1, <2>2, <2>3, <2>4, <2>5, <2>6 DEF Points, now
<1>10. ASSUME NEW d \in Directions, NEW mode \in Modes, JudgeCredits(d, mode) PROVE RestTyped'
  BY <1>1, <1>10 DEF JudgeCredits, observed, Points, Candidates, now
<1>11. CASE OpenInMemory
  BY <1>1, <1>11 DEF OpenInMemory, disk, observed, Points, now
<1>12. CASE SaveOpen
  <2>1. cand.dir \in Directions /\ decided' = decided \cup {<<cand.dir, "OPENED">>}
    BY <1>12 DEF SaveOpen, Stages, Recorded
  <2>2. decided' \subseteq (Directions \X Verdicts)
    BY <1>1, <2>1 DEF Verdicts
  <2>3. QED
    BY <1>1, <1>12, <2>2 DEF SaveOpen, process, observed, Points, now
<1>13. QED
  BY <1>2, <1>3, <1>4, <1>5, <1>6, <1>7, <1>8, <1>9, <1>10, <1>11, <1>12
  DEF Next, Start, Update, Decide, Failures
-----------------------------------------------------------------------------
LEMMA InitStages == Init => Stages
BY LargestIsNat DEF Init, Stages

LEMMA StepStages == TypeOK /\ Stages /\ [Next]_vars => Stages'
<1> SUFFICES ASSUME TypeOK, Stages, [Next]_vars PROVE Stages'
  OBVIOUS
<1>1. now \in Nat /\ db \in LedgerType /\ mem \in LedgerType
  BY DEF TypeOK, now
<1>2. CASE Tick
  <2>1. now' = now + 1
    BY <1>2 DEF Tick, TypeOK, now
  <2>2. UNCHANGED <<mem, pend, cand, config, pc>> /\ pc \in {"down", "idle", "away"}
    BY <1>2 DEF Tick, process
  <2>3. QED
    BY <2>2 DEF Stages
<1>3. CASE Quiet
  <2>1. UNCHANGED <<tape, mem, pend, config>> /\ Newest' = Newest /\ now' = now
        /\ Exists(mem)' = Exists(mem)
    BY <1>3 DEF Quiet, Newest, now, Exists
  <2>2. CASE pc' = pc /\ UNCHANGED cand
    BY <2>1, <2>2 DEF Stages
  <2>3. CASE pc' = "idle"
    BY <2>1, <2>3 DEF Stages
  <2>4. CASE pc' \in {"bootstrap", "wave"} /\ now > 0
    BY <1>1, <2>1, <2>4 DEF Stages
  <2>5. CASE pc' = SettlementStage /\ pc \in {"idle", "wave"} /\ (pc = "idle" => now > 0)
    BY <1>1, <2>1, <2>5 DEF Stages, SettlementStage
  <2>6. CASE pc' = (IF pend = <<>> THEN "decide" ELSE "flush") /\ pc = "settle"
    BY <2>1, <2>6 DEF Stages
  <2>7. QED
    BY <1>3, <2>2, <2>3, <2>4, <2>5, <2>6 DEF Quiet
<1>4. CASE Forgets
  BY <1>4 DEF Forgets, Stages
<1>5. CASE Prepares
  <2>1. PICK enabled \in EnabledChoices, maxActive \in MaxActiveChoices :
           PrepareStart(enabled, maxActive)
    BY <1>5 DEF Prepares
  <2>2. config'.maxActive <= Largest(MaxActiveChoices)
    BY <2>1, LargestIsNat, MonitorAssumption DEF PrepareStart
  <2>3. pc' = "loading" /\ mem' = mem /\ pend' = pend /\ pc = "down"
    BY <2>1 DEF PrepareStart
  <2>4. QED
    BY <2>2, <2>3 DEF Stages
<1>6. CASE Loads
  BY <1>6 DEF Loads, Stages
<1>7. ASSUME NEW S \in SUBSET AllPending(mem), Cancels(S) PROVE Stages'
  BY <1>7 DEF Cancels, Stages, now
<1>8. CASE Flushes
  BY <1>8 DEF Flushes, FlushHead, Stages, now
<1>9. CASE SettleInMemory
  BY <1>9, SettleEffect DEF Stages, now
<1>10. CASE OpenInMemory
  <2>1. PICK i \in OrderIds, grants \in BOOLEAN, source \in {0} \cup Eligible(mem, cand.dir, now) :
          /\ mem' = AddOrder(mem, i, [st |-> "OPEN", dir |-> cand.dir, opened |-> now,
                                      grants |-> grants, source |-> source])
          /\ Exists(mem') = Exists(mem) \cup {i} /\ Newest' = i
    BY <1>10, OpenEffect
  <2>2. mem'.orders[i].opened = now
    BY <1>1, <2>1 DEF AddOrder, LedgerType
  <2>3. UNCHANGED <<tape, pend, cand, config>> /\ pc = "gate" /\ pc' = "save"
    BY <1>10 DEF OpenInMemory
  <2>4. now' = now /\ mem'.orders[Newest'].opened = now /\ Exists(mem') # {}
    BY <2>1, <2>2, <2>3 DEF now
  <2>5. QED
    BY <2>3, <2>4 DEF Stages
<1>11. CASE SaveOpen
  <2>1. UNCHANGED <<tape, mem, pend, cand, config>> /\ pc = "save" /\ pc' = "notify"
    BY <1>11 DEF SaveOpen, process
  <2>2. QED
    BY <2>1 DEF Stages, now
<1>12. CASE Returns
  BY <1>12 DEF Returns, Stages
<1>13. QED
  BY <1>2, <1>3, <1>4, <1>5, <1>6, <1>7, <1>8, <1>9, <1>10, <1>11, <1>12, StepKinds

\* The inductive invariant of types and stages.
Basic == TypeOK /\ Stages

LEMMA InitBasic == Init => Basic
BY InitTypeOK, InitStages DEF Basic

LEMMA StepBasic == Basic /\ [Next]_vars => Basic'
<1> SUFFICES ASSUME TypeOK, Stages, [Next]_vars PROVE TypeOK' /\ Stages'
  BY DEF Basic
<1>1. LedgersTyped'
  BY StepLedgersTyped
<1>2. RestTyped'
  BY StepRestTyped
<1>3. TypeOK'
  BY <1>1, <1>2 DEF LedgersTyped, RestTyped, TypeOK
<1>4. QED
  BY <1>3, StepStages

\* Memory, disk, queue and process keep the shape the code gives them.
THEOREM MonitorTypeCorrect == Spec => []TypeOK
<1>1. Basic => TypeOK
  BY DEF Basic
<1>2. QED
  BY <1>1, InitBasic, StepBasic, PTL DEF Spec
-----------------------------------------------------------------------------
(* Memory and disk know the same orders *)

Running == pc \notin {"down", "loading", "away"}
Queued == {pend[k].id : k \in DOMAIN pend}

\* Two rows of one order, which may differ in its state.
SameOrder(o, p) ==
    o.dir = p.dir /\ o.opened = p.opened /\ o.source = p.source /\ o.grants = p.grants

OrdersAgree ==
    /\ Running => Exists(mem) = Exists(db) \cup (IF pc = "save" THEN {Newest} ELSE {})
    /\ Running => \A i \in Exists(db) : SameOrder(mem.orders[i], db.orders[i])
    /\ Queued \subseteq Exists(db)
    /\ pc = "save" => \A i \in Exists(db) : i < Newest

Chronicle ==
    /\ \A i \in Exists(db) : db.orders[i].opened <= now
    /\ \A i, j \in Exists(db) : i < j => db.orders[i].opened <= db.orders[j].opened

\* The order being opened is the candidate, and far enough from the others.
BeingOpened ==
    pc = "save" =>
        /\ mem.orders[Newest].st = "OPEN"
        /\ mem.orders[Newest].dir = cand.dir
        /\ \A i \in Exists(db) : db.orders[i].dir = cand.dir =>
              now - db.orders[i].opened >= MinGap

LEMMA CancelEffect ==
  ASSUME NEW L \in LedgerType, NEW S \in SUBSET OrderIds
  PROVE  /\ CancelCredits(L, S).orders = L.orders
         /\ Exists(CancelCredits(L, S)) = Exists(L)
         /\ Open(CancelCredits(L, S)) = Open(L)
         /\ \A s \in OrderIds \ S : CancelCredits(L, S).credits[s] = L.credits[s]
         /\ \A s \in S : CancelCredits(L, S).credits[s] = Held("CANCELLED")
<1>1. CancelCredits(L, S).orders = L.orders
  BY DEF CancelCredits, LedgerType
<1>2. CancelCredits(L, S).credits
        = [s \in OrderIds |-> IF s \in S THEN Held("CANCELLED") ELSE L.credits[s]]
  BY DEF CancelCredits, LedgerType
<1>3. QED
  BY <1>1, <1>2 DEF Exists, Open

LEMMA SettleOrderEffect ==
  ASSUME NEW L \in LedgerType, NEW i \in Exists(L), NEW result \in Results, NEW credit \in Credit
  PROVE  LET M == SettleOrder(L, i, result, credit)
         IN  /\ \A j \in OrderIds \ {i} : M.orders[j] = L.orders[j] /\ M.credits[j] = L.credits[j]
             /\ M.orders[i].st = result /\ M.credits[i] = credit
             /\ \A j \in OrderIds : SameOrder(M.orders[j], L.orders[j])
             /\ Exists(M) = Exists(L) /\ Open(M) = Open(L) \ {i}
<1> DEFINE M == SettleOrder(L, i, result, credit)
<1>1. i \in OrderIds /\ L.orders[i] \in Order
  BY DEF Exists, LedgerType, NoOrder
<1>2. M.orders = [L.orders EXCEPT ![i].st = result] /\ M.credits = [L.credits EXCEPT ![i] = credit]
  BY DEF SettleOrder
<1>3. M.orders[i] = [L.orders[i] EXCEPT !.st = result]
  BY <1>1, <1>2 DEF LedgerType
<1>4. SameOrder(M.orders[i], L.orders[i]) /\ M.orders[i].st = result
  BY <1>1, <1>3 DEF SameOrder, Order
<1>5. \A j \in OrderIds \ {i} : M.orders[j] = L.orders[j] /\ M.credits[j] = L.credits[j]
  BY <1>1, <1>2 DEF LedgerType
<1>6. M.credits[i] = credit
  BY <1>1, <1>2 DEF LedgerType
<1> HIDE DEF M
<1>7. \A j \in OrderIds : SameOrder(M.orders[j], L.orders[j])
  BY <1>4, <1>5 DEF SameOrder
<1>8. Exists(M) = Exists(L)
  BY <1>1, <1>4, <1>5 DEF Exists, Results
<1>9. Open(M) = Open(L) \ {i}
  BY <1>1, <1>4, <1>5 DEF Open, Results
<1>10. QED
  BY <1>4, <1>5, <1>6, <1>7, <1>8, <1>9 DEF M

\* What flushing does to the disk and the queue.
LEMMA FlushEffect ==
  ASSUME TypeOK, pend # <<>>, FlushHead
  PROVE  LET e == Head(pend)
             c == Upsert(db.credits[e.id], e.credit)
         IN  /\ e = pend[1] /\ e \in Settlements /\ e.id \in Exists(db)
             /\ e.id \in OrderIds /\ e.result \in Results
             /\ db.orders[e.id].st \in {"OPEN", e.result}
             /\ db' \in LedgerType /\ pend' = Tail(pend)
             /\ \A j \in OrderIds \ {e.id} : /\ db'.orders[j] = db.orders[j]
                                             /\ db'.credits[j] = db.credits[j]
             /\ db'.orders[e.id].st = e.result /\ db'.credits[e.id] = c /\ c \in Credit
             /\ \A j \in OrderIds : SameOrder(db'.orders[j], db.orders[j])
             /\ Exists(db') = Exists(db) /\ Open(db') = Open(db) \ {e.id}
<1> DEFINE e == Head(pend)
           c == Upsert(db.credits[e.id], e.credit)
<1>1. db \in LedgerType /\ e.id \in OrderIds /\ e.result \in Results /\ e.credit \in Credit
      /\ e \in Settlements /\ e = pend[1] /\ pend \in Seq(Settlements)
  BY HeadTypes DEF TypeOK
<1>2. e.id \in Exists(db) /\ db.orders[e.id].st \in {"OPEN", e.result}
  BY <1>1 DEF FlushHead, Exists, Results
<1>3. c \in Credit
  BY <1>1 DEF Upsert, LedgerType
<1>4. db' = SettleRow(e.id, e.result, e.credit) /\ pend' = Tail(pend)
  BY DEF FlushHead
<1>5. SettleRow(e.id, e.result, e.credit) = SettleOrder(db, e.id, e.result, c)
  <2> HIDE DEF e
  <2>1. QED
    BY <1>1 DEF SettleRow, SettleOrder, LedgerType
<1>6. db' \in LedgerType
  BY FlushTypes
<1> HIDE DEF e, c
<1>7. /\ \A j \in OrderIds \ {e.id} : db'.orders[j] = db.orders[j] /\ db'.credits[j] = db.credits[j]
      /\ db'.orders[e.id].st = e.result /\ db'.credits[e.id] = c
      /\ \A j \in OrderIds : SameOrder(db'.orders[j], db.orders[j])
      /\ Exists(db') = Exists(db) /\ Open(db') = Open(db) \ {e.id}
  BY <1>1, <1>2, <1>3, <1>4, <1>5, SettleOrderEffect
<1>8. QED
  BY <1>1, <1>2, <1>3, <1>4, <1>6, <1>7 DEF e, c

\* Flushing takes the head's id out of the queue, and adds none.
LEMMA FlushQueue ==
  ASSUME pend \in Seq(Settlements), pend # <<>>, pend' = Tail(pend)
  PROVE  Queued' \subseteq Queued /\ Queued \subseteq Queued' \cup {Head(pend).id}
<1>1. /\ DOMAIN pend = 1..Len(pend) /\ DOMAIN pend' = 1..Len(pend') /\ Len(pend) \in Nat \ {0}
      /\ Len(pend') = Len(pend) - 1 /\ Head(pend) = pend[1]
      /\ \A k \in 1..Len(pend') : k + 1 \in 1..Len(pend) /\ pend'[k] = pend[k + 1]
  BY HeadTypes
<1>2. \A k \in DOMAIN pend' : k + 1 \in DOMAIN pend /\ pend'[k].id = pend[k + 1].id
  BY <1>1
<1>3. Queued' \subseteq Queued
  BY <1>2 DEF Queued
<1>4. ASSUME NEW k \in DOMAIN pend, k # 1 PROVE pend[k].id \in Queued'
  <2>1. k - 1 \in DOMAIN pend' /\ pend'[k - 1] = pend[k]
    BY <1>1, <1>4
  <2>2. QED
    BY <2>1 DEF Queued
<1>5. QED
  BY <1>1, <1>3, <1>4 DEF Queued

\* Settling in memory adds the id of its order to the queue.
LEMMA SettleQueue ==
  ASSUME pend \in Seq(Settlements), NEW e \in Settlements, pend' = Append(pend, e)
  PROVE  /\ Queued' = Queued \cup {e.id}
         /\ DOMAIN pend = 1..Len(pend) /\ DOMAIN pend' = 1..(Len(pend) + 1)
         /\ Len(pend) \in Nat
         /\ \A k \in DOMAIN pend : pend'[k] = pend[k]
         /\ pend'[Len(pend) + 1] = e
<1>1. /\ DOMAIN pend = 1..Len(pend) /\ DOMAIN pend' = 1..(Len(pend) + 1)
      /\ Len(pend) \in Nat
      /\ \A k \in DOMAIN pend : pend'[k] = pend[k]
      /\ pend'[Len(pend) + 1] = e
  BY AppendPlaces
<1>2. \A k \in DOMAIN pend' : k \in DOMAIN pend \/ k = Len(pend) + 1
  BY <1>1
<1>3. Len(pend) + 1 \in DOMAIN pend' /\ \A k \in DOMAIN pend : k \in DOMAIN pend'
  BY <1>1
<1>4. QED
  BY <1>1, <1>2, <1>3 DEF Queued
LEMMA AddedOrders ==
  ASSUME NEW L \in LedgerType, NEW i \in OrderIds, NEW order \in Order
  PROVE  /\ AddOrder(L, i, order).orders[i] = order
         /\ \A j \in OrderIds \ {i} : AddOrder(L, i, order).orders[j] = L.orders[j]
         /\ Exists(AddOrder(L, i, order)) = Exists(L) \cup {i}
<1>1. AddOrder(L, i, order).orders = [L.orders EXCEPT ![i] = order]
  BY DEF AddOrder
<1>2. order.st # "NONE"
  BY DEF Order, Results
<1>3. /\ AddOrder(L, i, order).orders[i] = order
      /\ \A j \in OrderIds \ {i} : AddOrder(L, i, order).orders[j] = L.orders[j]
  BY <1>1 DEF LedgerType
<1>4. QED
  BY <1>2, <1>3 DEF Exists

LEMMA AddedCredits ==
  ASSUME NEW L \in LedgerType, NEW i \in OrderIds, NEW order \in Order
  PROVE  /\ \A s \in OrderIds \ {order.source} :
               AddOrder(L, i, order).credits[s] = L.credits[s]
         /\ order.source \in OrderIds =>
               AddOrder(L, i, order).credits[order.source] = [st |-> "CONSUMED", by |-> i]
<1>1. order.source \in OrderIds \cup {0} /\ 0 \notin OrderIds
  BY LedgerAssumption DEF Order, OrderIds
<1>2. AddOrder(L, i, order).credits = Consume(L.credits, order.source, i)
  BY DEF AddOrder
<1>3. QED
  BY <1>1, <1>2 DEF Consume, LedgerType

LEMMA RemoveEffect ==
  ASSUME NEW L \in LedgerType, NEW i \in Exists(L)
  PROVE  LET M == RemoveOrder(L, i)
             s == L.orders[i].source
         IN  /\ M.orders[i] = NoOrder
             /\ \A j \in OrderIds \ {i} : M.orders[j] = L.orders[j]
             /\ \A r \in OrderIds \ {s} : M.credits[r] = L.credits[r]
             /\ s # 0 => s \in OrderIds /\ M.credits[s] = Held("PENDING")
             /\ Exists(M) = Exists(L) \ {i}
<1> DEFINE s == L.orders[i].source
<1>1. i \in OrderIds /\ L.orders[i] \in Order /\ s \in OrderIds \cup {0} /\ 0 \notin OrderIds
  BY LedgerAssumption DEF Exists, LedgerType, NoOrder, Order, OrderIds
<1>2. RemoveOrder(L, i).orders = [L.orders EXCEPT ![i] = NoOrder]
  BY DEF RemoveOrder
<1>3. RemoveOrder(L, i).credits = IF s = 0 THEN L.credits
                                  ELSE [L.credits EXCEPT ![s] = Held("PENDING")]
  BY DEF RemoveOrder
<1>4. NoOrder.st = "NONE"
  BY DEF NoOrder
<1> HIDE DEF s
<1>5. QED
  BY <1>1, <1>2, <1>3, <1>4 DEF LedgerType, Exists, s

AgreeIInv == OrdersAgree /\ Chronicle /\ BeingOpened

LEMMA InitAgree == Init => AgreeIInv
<1>1. Exists(EmptyLedger) = {}
  BY EmptyTypes
<1>2. QED
  BY <1>1 DEF Init, AgreeIInv, OrdersAgree, Chronicle, BeingOpened, Running, Queued

LEMMA SameIsEquivalence ==
  /\ \A o : SameOrder(o, o)
  /\ \A o, p, q : SameOrder(o, p) /\ SameOrder(p, q) => SameOrder(o, q)
  /\ \A o, p : SameOrder(o, p) => SameOrder(p, o)
BY DEF SameOrder

\* When no order is opened on disk and none of its rows changes but in its
\* state, the chronicle stands.
LEMMA ChronicleStands ==
  ASSUME TypeOK, Chronicle, Exists(db') = Exists(db), now <= now', now' \in Nat,
         \A i \in OrderIds : SameOrder(db'.orders[i], db.orders[i])
  PROVE  Chronicle'
<1>1. \A i \in Exists(db) : i \in OrderIds /\ db'.orders[i].opened = db.orders[i].opened
                              /\ db.orders[i].opened \in Nat
  BY LedgerAssumption DEF Exists, SameOrder, TypeOK, LedgerType, Order, NoOrder
<1>2. now \in Nat
  BY DEF TypeOK, now
<1>3. \A i \in Exists(db) : db'.orders[i].opened <= now'
  BY <1>1, <1>2 DEF Chronicle
<1>4. QED
  BY <1>1, <1>3 DEF Chronicle

LEMMA RestoredEffect ==
  ASSUME TypeOK
  PROVE  /\ Restored \in LedgerType /\ Restored.orders = db.orders
         /\ Exists(Restored) = Exists(db) /\ Open(Restored) = Open(db)
         /\ \E S \in SUBSET AllPending(db) : Restored = CancelCredits(db, S)
<1>1. Excess(db, config.enabled, config.maxActive) \in SUBSET AllPending(db)
  BY ExcessIsPending
<1>2. Excess(db, config.enabled, config.maxActive) \in SUBSET OrderIds
  BY <1>1 DEF AllPending
<1>3. QED
  BY <1>1, <1>2, CancelEffect, CancelTypes DEF Restored, TypeOK

\* Preparing a start cancels pending credits, and orders stay what they are.
LEMMA PrepareEffect ==
  ASSUME TypeOK, Prepares
  PROVE  /\ \E S \in SUBSET AllPending(db) : db' = CancelCredits(db, S)
         /\ db' \in LedgerType /\ db'.orders = db.orders
         /\ Exists(db') = Exists(db) /\ Open(db') = Open(db)
         /\ UNCHANGED <<tape, mem, pend>> /\ pc = "down" /\ pc' = "loading"
<1>1. PICK enabled \in EnabledChoices, maxActive \in MaxActiveChoices :
         PrepareStart(enabled, maxActive)
  BY DEF Prepares
<1> DEFINE S == IF PrepareCancels(enabled) THEN AllPending(db) ELSE {}
<1>2. S \in SUBSET AllPending(db) /\ S \in SUBSET OrderIds
  BY DEF AllPending
<1>3. db' = CancelCredits(db, S) /\ UNCHANGED <<tape, mem, pend>> /\ pc = "down" /\ pc' = "loading"
  BY <1>1 DEF PrepareStart
<1> HIDE DEF S
<1>4. QED
  BY <1>2, <1>3, CancelEffect, CancelTypes DEF TypeOK

LEMMA CancelsEffect ==
  ASSUME TypeOK, NEW S \in SUBSET AllPending(mem), Cancels(S)
  PROVE  /\ S \in SUBSET OrderIds /\ ~CancelRefused(S)
         /\ db' = CancelCredits(db, S) /\ mem' = CancelCredits(mem, S)
         /\ db' \in LedgerType /\ mem' \in LedgerType
         /\ db'.orders = db.orders /\ mem'.orders = mem.orders
         /\ Exists(db') = Exists(db) /\ Open(db') = Open(db)
         /\ Exists(mem') = Exists(mem) /\ Open(mem') = Open(mem)
         /\ UNCHANGED <<tape, pend, config, runtime, switches>>
<1>1. S \in SUBSET OrderIds
  BY DEF AllPending
<1>2. QED
  BY <1>1, CancelEffect, CancelTypes DEF Cancels, CancelBoth, TypeOK

LEMMA StepAgree == Basic /\ Basic' /\ AgreeIInv /\ [Next]_vars => AgreeIInv'
<1> SUFFICES ASSUME TypeOK, Stages, TypeOK', Stages', OrdersAgree, Chronicle, BeingOpened,
                    [Next]_vars
             PROVE  OrdersAgree' /\ Chronicle' /\ BeingOpened'
  BY DEF Basic, AgreeIInv
<1>1. now \in Nat /\ now' \in Nat /\ db \in LedgerType /\ mem \in LedgerType
      /\ pend \in Seq(Settlements)
  BY DEF TypeOK, now
<1>2. \A o : SameOrder(o, o)
  BY SameIsEquivalence
<1>3. Exists(db) \subseteq OrderIds /\ Exists(mem) \subseteq OrderIds
  BY DEF Exists
<1>4. ASSUME UNCHANGED <<db, mem, pend>>, now <= now',
             Running' => Running, pc' = "save" => pc = "save" /\ now' = now /\ cand' = cand,
             pc = "save" => pc' = "save"
      PROVE  OrdersAgree' /\ Chronicle' /\ BeingOpened'
  <2>1. Newest' = Newest /\ Queued' = Queued /\ Exists(db)' = Exists(db)
        /\ Exists(mem)' = Exists(mem)
    BY <1>4 DEF Newest, Queued, Exists
  <2>2. OrdersAgree'
    BY <1>4, <2>1 DEF OrdersAgree
  <2>3. Chronicle'
    BY <1>1, <1>2, <1>4, <2>1, ChronicleStands
  <2>4. BeingOpened'
    BY <1>4, <2>1 DEF BeingOpened
  <2>5. QED
    BY <2>2, <2>3, <2>4
<1>5. CASE Tick
  <2>1. UNCHANGED <<db, mem, pend, pc>> /\ pc # "save" /\ now' = now + 1
    BY <1>5 DEF Tick, process, TypeOK, now
  <2>2. QED
    BY <1>1, <1>4, <2>1 DEF Running
<1>6. CASE Quiet
  <2>1. UNCHANGED <<db, mem, pend, tape>> /\ now' = now
    BY <1>6 DEF Quiet, now
  <2>2. /\ Running' => Running
        /\ pc' = "save" => pc = "save" /\ cand' = cand
        /\ pc = "save" => pc' = "save"
    BY <1>6 DEF Quiet, Running, SettlementStage
  <2>3. QED
    BY <1>1, <1>4, <2>1, <2>2
<1>7. CASE Forgets
  <2>1. db' = db /\ now' = now /\ ~(pc' = "save") /\ ~Running'
        /\ (pend' = pend \/ pend' = <<>>)
    BY <1>7 DEF Forgets, Running, now
  <2>2. Queued' \subseteq Queued
    BY <2>1 DEF Queued
  <2>3. Chronicle'
    BY <1>1, <1>2, <2>1, ChronicleStands
  <2>4. QED
    BY <2>1, <2>2, <2>3 DEF OrdersAgree, BeingOpened
<1>8. CASE Prepares
  <2>1. db'.orders = db.orders /\ Exists(db') = Exists(db) /\ now' = now
        /\ UNCHANGED <<mem, pend>> /\ pc' = "loading"
    BY <1>8, PrepareEffect DEF now
  <2>2. Queued' = Queued
    BY <2>1 DEF Queued
  <2>3. Chronicle'
    BY <1>1, <1>2, <2>1, ChronicleStands
  <2>4. QED
    BY <2>1, <2>2, <2>3 DEF OrdersAgree, BeingOpened, Running
<1>9. CASE Loads
  <2>1. db' = Restored /\ mem' = Restored /\ UNCHANGED <<tape, pend>> /\ pc' # "save"
    BY <1>9 DEF Loads
  <2>2. db'.orders = db.orders /\ Exists(db') = Exists(db) /\ now' = now /\ Queued' = Queued
        /\ mem' = db'
    BY <2>1, RestoredEffect DEF now, Queued
  <2>3. Chronicle'
    BY <1>1, <1>2, <2>2, ChronicleStands
  <2>4. QED
    BY <1>2, <2>1, <2>2, <2>3 DEF OrdersAgree, BeingOpened
<1>10. ASSUME NEW S \in SUBSET AllPending(mem), Cancels(S)
       PROVE  OrdersAgree' /\ Chronicle' /\ BeingOpened'
  <2>1. /\ db'.orders = db.orders /\ mem'.orders = mem.orders
        /\ Exists(db') = Exists(db) /\ Exists(mem') = Exists(mem)
        /\ UNCHANGED <<tape, pend>>
    BY <1>10, CancelsEffect
  <2>2. now' = now /\ Queued' = Queued /\ Running /\ pc # "save" /\ pc' # "save"
    BY <1>10, <2>1 DEF now, Queued, Cancels, Running
  <2>3. Chronicle'
    BY <1>1, <1>2, <2>1, <2>2, ChronicleStands
  <2>4. QED
    BY <2>1, <2>2, <2>3 DEF OrdersAgree, BeingOpened
<1>11. CASE Flushes
  <2>1. pend # <<>> /\ FlushHead /\ UNCHANGED <<tape, mem>> /\ pc' # "save" /\ pc # "save"
        /\ (Running' => Running)
    BY <1>11 DEF Flushes, Stages, Running
  <2>2. /\ \A j \in OrderIds : SameOrder(db'.orders[j], db.orders[j])
        /\ Exists(db') = Exists(db) /\ pend' = Tail(pend)
    BY <2>1, FlushEffect
  <2>3. Queued' \subseteq Queued
    BY <1>1, <2>1, <2>2, FlushQueue
  <2>4. Chronicle'
    BY <1>1, <2>1, <2>2, ChronicleStands DEF now
  <2>5. \A i \in Exists(db') : Running' => SameOrder(mem'.orders[i], db'.orders[i])
    BY <1>3, <2>1, <2>2, SameIsEquivalence DEF OrdersAgree
  <2>6. QED
    BY <2>1, <2>2, <2>3, <2>4, <2>5 DEF OrdersAgree, BeingOpened
<1>12. CASE SettleInMemory
  <2>1. PICK i \in Due :
           LET result == Result(mem.orders[i])
               credit == Earned(mem, i, result, config.enabled, runtime.activated,
                                config.maxActive)
           IN  /\ i \in OrderIds /\ mem.orders[i].st = "OPEN"
               /\ result \in Results /\ credit \in Credit
               /\ mem' = SettleOrder(mem, i, result, credit)
               /\ pend' = Append(pend, [id |-> i, result |-> result, credit |-> credit])
               /\ [id |-> i, result |-> result, credit |-> credit] \in Settlements
               /\ UNCHANGED <<tape, db, config, runtime, pc, switches>>
               /\ pc = "settle"
    BY <1>12, SettleEffect
  <2> DEFINE result == Result(mem.orders[i])
             credit == Earned(mem, i, result, config.enabled, runtime.activated,
                              config.maxActive)
             e == [id |-> i, result |-> result, credit |-> credit]
  <2>2. i \in Exists(mem) /\ e.id = i
    BY <2>1 DEF Exists
  <2>3. /\ Exists(mem') = Exists(mem)
        /\ \A j \in OrderIds : SameOrder(mem'.orders[j], mem.orders[j])
    <3>1. mem' = SettleOrder(mem, i, result, credit) /\ result \in Results /\ credit \in Credit
      BY <2>1
    <3> HIDE DEF result, credit
    <3>2. QED
      BY <1>1, <2>2, <3>1, SettleOrderEffect
  <2>4. Queued' = Queued \cup {i}
    <3>1. pend' = Append(pend, e) /\ e \in Settlements
      BY <2>1
    <3> HIDE DEF e
    <3>2. QED
      BY <1>1, <2>2, <3>1, SettleQueue
  <2>5. i \in Exists(db)
    BY <2>1, <2>2 DEF OrdersAgree, Running
  <2>6. Chronicle'
    BY <1>1, <1>2, <2>1, ChronicleStands DEF now
  <2>7. \A j \in Exists(db) : SameOrder(mem'.orders[j], db.orders[j])
    BY <1>3, <2>1, <2>3, SameIsEquivalence DEF OrdersAgree, Running
  <2>8. QED
    BY <2>1, <2>3, <2>4, <2>5, <2>6, <2>7 DEF OrdersAgree, BeingOpened, Running
<1>13. CASE OpenInMemory
  <2>1. PICK i \in OrderIds, grants \in BOOLEAN, source \in {0} \cup Eligible(mem, cand.dir, now) :
           LET order == [st |-> "OPEN", dir |-> cand.dir, opened |-> now, grants |-> grants,
                         source |-> source]
           IN  /\ IsNextId(mem, i) /\ i \notin Exists(mem)
               /\ order \in Order
               /\ mem' = AddOrder(mem, i, order)
               /\ Exists(mem') = Exists(mem) \cup {i} /\ Newest' = i
    BY <1>13, OpenEffect
  <2> DEFINE order == [st |-> "OPEN", dir |-> cand.dir, opened |-> now, grants |-> grants,
                       source |-> source]
  <2>2. /\ UNCHANGED <<db, pend, tape, cand>> /\ pc = "gate" /\ pc' = "save"
        /\ PolicyAllows(cand.dir)
    BY <1>13 DEF OpenInMemory, disk
  <2>3. Exists(mem) = Exists(db) /\ \A j \in Exists(db) : SameOrder(mem.orders[j], db.orders[j])
    BY <2>2 DEF OrdersAgree, Running
  <2>4. order \in Order /\ mem' = AddOrder(mem, i, order)
    BY <2>1
  <2>5. order.st = "OPEN" /\ order.dir = cand.dir
    OBVIOUS
  <2> HIDE DEF order
  <2>6. mem'.orders[i] = order /\ \A j \in OrderIds \ {i} : mem'.orders[j] = mem.orders[j]
    BY <1>1, <2>1, <2>4, AddedOrders
  <2>7. \A j \in Exists(db) : SameOrder(mem'.orders[j], db.orders[j])
    BY <1>3, <2>1, <2>3, <2>6
  <2>8. OrdersAgree'
    BY <2>1, <2>2, <2>3, <2>7 DEF OrdersAgree, Running, Queued, Exists, IsNextId
  <2>9. Chronicle'
    BY <1>1, <1>2, <2>2, ChronicleStands DEF now
  <2>10. \A j \in Exists(db) : db.orders[j].dir = cand.dir => now - db.orders[j].opened >= MinGap
    BY <2>2, <2>3 DEF PolicyAllows, SameOrder
  <2>11. BeingOpened'
    BY <2>1, <2>2, <2>5, <2>6, <2>10 DEF BeingOpened, now
  <2>12. QED
    BY <2>8, <2>9, <2>11
<1>14. CASE SaveOpen
  <2> DEFINE i == Newest
             o == mem.orders[Newest]
  <2>1. /\ i \in OrderIds /\ i \in Exists(mem) /\ o \in Order /\ db' = AddOrder(db, i, o)
        /\ UNCHANGED <<tape, mem, pend, config, runtime, switches>>
        /\ pc = "save" /\ pc' = "notify" /\ db.orders[i].st = "NONE"
    BY <1>14, SaveEffect
  <2>2. o.opened = now /\ \A j \in Exists(db) : j < i
    BY <2>1 DEF Stages, OrdersAgree
  <2> HIDE DEF i, o
  <2>3. /\ db'.orders[i] = o /\ \A j \in OrderIds \ {i} : db'.orders[j] = db.orders[j]
        /\ Exists(db') = Exists(db) \cup {i}
    BY <1>1, <2>1, AddedOrders
  <2>4. i \notin Exists(db)
    BY <2>1 DEF Exists
  <2>5. \A j \in Exists(db) : db'.orders[j] = db.orders[j]
    BY <1>3, <2>3, <2>4
  <2>6. Chronicle'
    <3>1. now' = now
      BY <2>1 DEF now
    <3>2. i \in Int /\ \A j \in Exists(db) : j \in Int
      BY <1>3, <2>1, LedgerAssumption DEF OrderIds
    <3>3. \A j \in Exists(db') : db'.orders[j].opened <= now
      BY <1>1, <2>2, <2>3, <2>5 DEF Chronicle
    <3>4. \A j, k \in Exists(db') : j < k => db'.orders[j].opened <= db'.orders[k].opened
      <4>1. TAKE j, k \in Exists(db')
      <4>2. HAVE j < k
      <4>3. j # i
        BY <2>2, <2>3, <3>2, <4>2
      <4>4. CASE k = i
        BY <2>2, <2>3, <2>5, <4>3, <4>4 DEF Chronicle
      <4>5. CASE k # i
        BY <2>3, <2>5, <4>2, <4>3, <4>5 DEF Chronicle
      <4>6. QED
        BY <4>4, <4>5
    <3>5. QED
      BY <3>1, <3>3, <3>4 DEF Chronicle
  <2>7. Exists(mem) = Exists(db) \cup {i} /\ mem.orders[i] = o
        /\ \A j \in Exists(db) : SameOrder(mem.orders[j], db.orders[j])
    BY <2>1 DEF OrdersAgree, Running, i, o
  <2>8. \A j \in Exists(db') : SameOrder(mem.orders[j], db'.orders[j])
    BY <1>2, <2>3, <2>5, <2>7
  <2>9. Exists(mem)' = Exists(mem) /\ Queued' = Queued
    BY <2>1 DEF Queued
  <2>10. OrdersAgree'
    BY <2>1, <2>3, <2>7, <2>8, <2>9 DEF OrdersAgree, Running
  <2>11. QED
    BY <2>1, <2>6, <2>10 DEF BeingOpened
<1>15. CASE Returns
  <2>1. /\ mem' = RemoveOrder(mem, Newest) /\ UNCHANGED <<db, pend, tape>>
        /\ pc = "save" /\ pc' = "idle"
    BY <1>15 DEF Returns
  <2>2. Newest \in Exists(mem) /\ Exists(mem) = Exists(db) \cup {Newest}
    BY <1>1, <2>1, NewestExists DEF Stages, OrdersAgree, Running
  <2>3. Newest \notin Exists(db)
    BY <1>3, <2>1, LedgerAssumption DEF OrdersAgree, OrderIds
  <2>4. /\ Exists(mem') = Exists(mem) \ {Newest}
        /\ \A j \in OrderIds \ {Newest} : mem'.orders[j] = mem.orders[j]
    BY <1>1, <2>1, <2>2, RemoveEffect
  <2>5. \A j \in Exists(db) : SameOrder(mem'.orders[j], db.orders[j])
    BY <1>3, <2>1, <2>3, <2>4 DEF OrdersAgree, Running
  <2>6. Chronicle'
    BY <1>1, <1>2, <2>1, ChronicleStands DEF now
  <2>7. QED
    BY <2>1, <2>2, <2>3, <2>4, <2>5, <2>6 DEF OrdersAgree, BeingOpened, Queued, Running
<1>16. QED
  BY <1>5, <1>6, <1>7, <1>8, <1>9, <1>10, <1>11, <1>12, <1>13, <1>14, <1>15, StepKinds
\* The inductive invariant up to here.
AgreedInv == Basic /\ AgreeIInv

LEMMA InitAgreed == Init => AgreedInv
BY InitBasic, InitAgree DEF AgreedInv

LEMMA StepAgreed == AgreedInv /\ [Next]_vars => AgreedInv'
BY StepBasic, StepAgree DEF AgreedInv

-----------------------------------------------------------------------------
(* Orders of one direction are opened apart *)

\* A step opens on disk the order that was saved, or none, and changes of
\* the others no more than their states.
LEMMA RowsGrow ==
  ASSUME AgreedInv, [Next]_vars
  PROVE  \/ SaveOpen
         \/ /\ Exists(db') = Exists(db)
            /\ \A i \in OrderIds : SameOrder(db'.orders[i], db.orders[i])
<1> USE DEF AgreedInv, Basic
<1>1. db' = db \/ db'.orders = db.orders =>
        /\ Exists(db') = Exists(db)
        /\ \A i \in OrderIds : SameOrder(db'.orders[i], db.orders[i])
  BY SameIsEquivalence DEF Exists
<1>2. CASE Tick \/ Quiet \/ Forgets \/ OpenInMemory \/ Returns
  <2>1. db' = db
    BY <1>2 DEF Tick, Quiet, Forgets, OpenInMemory, Returns, disk
  <2>2. QED
    BY <1>1, <2>1
<1>3. CASE SettleInMemory
  <2>1. db' = db
    BY <1>3 DEF SettleInMemory, disk
  <2>2. QED
    BY <1>1, <2>1
<1>4. CASE Prepares
  BY <1>1, <1>4, PrepareEffect
<1>5. CASE Loads
  BY <1>1, <1>5, RestoredEffect DEF Loads
<1>6. ASSUME NEW S \in SUBSET AllPending(mem), Cancels(S)
      PROVE  /\ Exists(db') = Exists(db)
             /\ \A i \in OrderIds : SameOrder(db'.orders[i], db.orders[i])
  BY <1>1, <1>6, CancelsEffect
<1>7. CASE Flushes
  <2>1. pend # <<>> /\ FlushHead
    BY <1>7 DEF Flushes, Stages
  <2>2. QED
    BY <2>1, FlushEffect
<1>8. QED
  BY <1>2, <1>3, <1>4, <1>5, <1>6, <1>7, StepKinds

\* The row that is saved is that of the candidate.
LEMMA SavedRow ==
  ASSUME AgreedInv, SaveOpen
  PROVE  LET i == Newest
         IN  /\ i \in OrderIds /\ i \notin Exists(db) /\ Exists(db') = Exists(db) \cup {i}
             /\ \A j \in Exists(db) : j < i /\ db'.orders[j] = db.orders[j]
             /\ db'.orders[i] = mem.orders[i]
             /\ mem.orders[i].dir = cand.dir /\ mem.orders[i].opened = now
             /\ mem.orders[i].st = "OPEN" /\ mem.orders[i] \in Order
             /\ pc = "save" /\ pc' = "notify" /\ Newest' = Newest
             /\ UNCHANGED <<tape, mem, pend, cand>>
<1> USE DEF AgreedInv, Basic, AgreeIInv
<1>1. /\ Newest \in OrderIds /\ Newest \in Exists(mem) /\ mem.orders[Newest] \in Order
      /\ db' = AddOrder(db, Newest, mem.orders[Newest])
      /\ UNCHANGED <<tape, mem, pend>> /\ pc = "save" /\ pc' = "notify"
      /\ db.orders[Newest].st = "NONE" /\ db \in LedgerType
  BY SaveEffect DEF TypeOK
<1>2. Newest \notin Exists(db) /\ Exists(db) \subseteq OrderIds
  BY <1>1 DEF Exists
<1>3. \A j \in Exists(db) : j < Newest
  BY <1>1 DEF OrdersAgree
<1>4. /\ db'.orders[Newest] = mem.orders[Newest]
      /\ \A j \in OrderIds \ {Newest} : db'.orders[j] = db.orders[j]
      /\ Exists(db') = Exists(db) \cup {Newest}
  BY <1>1, AddedOrders
<1>5. \A j \in Exists(db) : db'.orders[j] = db.orders[j]
  BY <1>2, <1>4
<1>6. Newest' = Newest /\ cand' = cand
  BY <1>1 DEF Newest, SaveOpen, process
<1>7. QED
  BY <1>1, <1>2, <1>3, <1>4, <1>5, <1>6 DEF BeingOpened, Stages

LEMMA StepOpeningsApart == AgreedInv /\ OpeningsApart /\ [Next]_vars => OpeningsApart'
<1> SUFFICES ASSUME AgreedInv, OpeningsApart, [Next]_vars PROVE OpeningsApart'
  OBVIOUS
<1>1. CASE /\ Exists(db') = Exists(db)
           /\ \A i \in OrderIds : SameOrder(db'.orders[i], db.orders[i])
  BY <1>1 DEF OpeningsApart, SameOrder, Exists
<1>2. CASE SaveOpen
  <2> SUFFICES ASSUME NEW j \in Exists(db'), NEW k \in Exists(db'), j < k,
                      db'.orders[j].dir = db'.orders[k].dir
               PROVE  db'.orders[k].opened - db'.orders[j].opened >= MinGap
    BY DEF OpeningsApart
  <2>1. /\ Newest \in OrderIds /\ Exists(db') = Exists(db) \cup {Newest}
        /\ \A i \in Exists(db) : i < Newest /\ db'.orders[i] = db.orders[i]
        /\ db'.orders[Newest] = mem.orders[Newest]
        /\ mem.orders[Newest].dir = cand.dir /\ mem.orders[Newest].opened = now
        /\ pc = "save"
    BY <1>2, SavedRow
  <2>2. j \in OrderIds /\ k \in OrderIds
    BY <2>1 DEF Exists
  <2>3. j # Newest
    BY <2>1, <2>2, LedgerAssumption DEF OrderIds
  <2>4. j \in Exists(db) /\ db'.orders[j] = db.orders[j]
    BY <2>1, <2>3
  <2>5. CASE k = Newest
    BY <2>1, <2>4, <2>5 DEF AgreedInv, AgreeIInv, BeingOpened
  <2>6. CASE k # Newest
    BY <2>1, <2>4, <2>6 DEF OpeningsApart
  <2>7. QED
    BY <2>5, <2>6
<1>3. QED
  BY <1>1, <1>2, RowsGrow

\* Orders of one direction are opened at least the policy's gap apart,
\* whatever restarts, rollbacks and resets come between: the policy looks at
\* memory, which knows every order of the disk while it decides.
THEOREM OpeningsAreApart == Spec => []OpeningsApart
<1>1. Init => OpeningsApart
  BY EmptyTypes DEF Init, OpeningsApart
<1>2. QED
  BY <1>1, InitAgreed, StepAgreed, StepOpeningsApart, PTL DEF Spec

-----------------------------------------------------------------------------
(* A webhook goes out once *)

NotYetSent == pc = "notify" => sent[Newest] = 0

LEMMA SentCases == [Next]_vars => sent' = sent \/ Notify
BY DEF Next, vars, observed, Tick, Start, PrepareStart, FinishStart, LoadLedger, Seed, Update,
       BeginUpdate, BootstrapCancel, PersistWave, Flush, SettleInMemory, SettlementDone, Decide,
       DecideWait, Replay, BlockByRange, JudgeCredits, Block, OpenInMemory, SaveOpen,
       FlushWhileAway, Failures, WarmupFails, BootstrapCancelFails, PersistWaveFails, FlushFails,
       JudgeCreditsFails, BlockFails, SaveOpenFails, Crash, ResetSymbol, LeaveSymbol

\* Only a saved order is announced.
LEMMA NotifyCases ==
  ASSUME TypeOK, [Next]_vars, pc' = "notify"
  PROVE  SaveOpen \/ (pc = "notify" /\ UNCHANGED <<mem, db, sent>>)
<1>1. CASE Tick \/ Forgets \/ Prepares \/ Loads \/ Flushes \/ OpenInMemory \/ Returns
           \/ (\E S \in SUBSET AllPending(mem) : Cancels(S))
  BY <1>1 DEF Tick, Forgets, Prepares, Loads, Flushes, OpenInMemory, Returns, Cancels
<1>2. CASE SettleInMemory
  BY <1>2 DEF SettleInMemory
<1>3. CASE Quiet
  BY <1>3 DEF Quiet, SettlementStage
<1>4. QED
  BY <1>1, <1>2, <1>3, StepKinds

LEMMA StepWebhook ==
  AgreedInv /\ WebhookOncePerDurableOrder /\ NotYetSent /\ [Next]_vars
    => WebhookOncePerDurableOrder' /\ NotYetSent'
<1> SUFFICES ASSUME AgreedInv, WebhookOncePerDurableOrder, NotYetSent, [Next]_vars
             PROVE  WebhookOncePerDurableOrder' /\ NotYetSent'
  OBVIOUS
<1>1. TypeOK /\ Stages /\ OrdersAgree
  BY DEF AgreedInv, Basic, AgreeIInv
<1>2. Exists(db) \subseteq Exists(db')
  BY RowsGrow, SavedRow
<1>3. sent \in [OrderIds -> Nat] /\ \A i \in OrderIds : sent[i] > 0 => sent[i] = 1 /\ i \in Exists(db)
  BY <1>1 DEF TypeOK, WebhookOncePerDurableOrder, Exists
<1>4. WebhookOncePerDurableOrder'
  <2>1. CASE sent' = sent
    BY <1>2, <1>3, <2>1 DEF WebhookOncePerDurableOrder, Exists
  <2>2. CASE Notify
    <3>1. sent' = [sent EXCEPT ![Newest] = @ + 1] /\ db' = db /\ pc = "notify"
      BY <2>2 DEF Notify, disk
    <3>2. Newest \in Exists(mem) /\ Exists(mem) = Exists(db)
      BY <1>1, <3>1, NewestExists DEF TypeOK, Stages, OrdersAgree, Running
    <3>3. Newest \in OrderIds /\ sent[Newest] = 0
      BY <3>1, <3>2 DEF Exists, NotYetSent
    <3>4. \A i \in OrderIds : sent'[i] = IF i = Newest THEN 1 ELSE sent[i]
      BY <1>3, <3>1, <3>3
    <3>5. QED
      BY <1>3, <3>1, <3>2, <3>4 DEF WebhookOncePerDurableOrder, Exists
  <2>3. QED
    BY <2>1, <2>2, SentCases
<1>5. NotYetSent'
  <2> SUFFICES ASSUME pc' = "notify" PROVE (sent[Newest] = 0)'
    BY DEF NotYetSent
  <2>1. CASE SaveOpen
    <3>1. Newest \notin Exists(db) /\ Newest \in OrderIds /\ Newest' = Newest
      BY <2>1, SavedRow
    <3>2. sent' = sent
      BY <2>1 DEF SaveOpen, observed
    <3>3. QED
      BY <1>3, <3>1, <3>2
  <2>2. CASE pc = "notify" /\ UNCHANGED <<mem, db, sent>>
    BY <2>2 DEF NotYetSent, Newest
  <2>3. QED
    BY <1>1, <2>1, <2>2, NotifyCases
<1>6. QED
  BY <1>4, <1>5

\* An order is announced at most once, and only when it is on disk: a crash
\* before the announcement loses it rather than repeats it.
THEOREM WebhooksGoOutOnce == Spec => []WebhookOncePerDurableOrder
<1>1. Init => WebhookOncePerDurableOrder /\ NotYetSent
  BY DEF Init, WebhookOncePerDurableOrder, NotYetSent
<1>2. QED
  BY <1>1, InitAgreed, StepAgreed, StepWebhook, PTL DEF Spec

-----------------------------------------------------------------------------
(* A recorded refusal stands *)

\* Nothing is recorded of the candidate that is being judged or opened.
Undecided == pc \in {"gate", "save"} => ~Committed(cand.dir)

LEMMA StepUndecided == AgreedInv /\ Undecided /\ [Next]_vars => Undecided'
<1> SUFFICES ASSUME AgreedInv, Undecided, [Next]_vars PROVE Undecided'
  OBVIOUS
<1>1. TypeOK /\ Stages
  BY DEF AgreedInv, Basic
<1>2. CASE Tick \/ Forgets \/ Prepares \/ Loads \/ Flushes \/ SaveOpen \/ Returns
  <2>1. pc' \notin {"gate", "save"}
    BY <1>2 DEF Tick, Forgets, Prepares, Loads, Flushes, SaveOpen, Returns
  <2>2. QED
    BY <2>1 DEF Undecided
<1>3. CASE SettleInMemory
  BY <1>3 DEF SettleInMemory, Undecided
<1>4. CASE Quiet
  BY <1>4 DEF Quiet, Undecided, SettlementStage, Committed
<1>5. ASSUME NEW S \in SUBSET AllPending(mem), Cancels(S) PROVE Undecided'
  BY <1>5 DEF Cancels, Undecided, Committed
<1>6. CASE OpenInMemory
  BY <1>6 DEF OpenInMemory, disk, Undecided, Committed
<1>7. QED
  BY <1>1, <1>2, <1>3, <1>4, <1>5, <1>6, StepKinds

\* A candidate recorded as blocked is not opened in its minute after all,
\* whatever restarts and resets the minute sees.
THEOREM RecordedBlocksStand == Spec => RecordedBlockStands
<1> DEFINE NoneOpened == \A i \in Exists(db') \ Exists(db) :
                             <<db'.orders[i].dir, "BLOCKED">> \notin decided
<1>1. Init => Undecided
  BY DEF Init, Undecided
<1>2. AgreedInv /\ Undecided /\ [Next]_vars => [NoneOpened]_vars
  <2> SUFFICES ASSUME AgreedInv, Undecided, [Next]_vars PROVE NoneOpened
    OBVIOUS
  <2>1. CASE Exists(db') = Exists(db)
    BY <2>1
  <2>2. CASE SaveOpen
    <3>1. /\ Exists(db') = Exists(db) \cup {Newest} /\ db'.orders[Newest] = mem.orders[Newest]
          /\ mem.orders[Newest].dir = cand.dir /\ pc = "save"
      BY <2>2, SavedRow
    <3>2. <<cand.dir, "BLOCKED">> \notin decided
      BY <3>1 DEF Undecided, Committed, Verdicts
    <3>3. QED
      BY <3>1, <3>2
  <2>3. QED
    BY <2>1, <2>2, RowsGrow
<1> HIDE DEF NoneOpened
<1>3. Spec => [][NoneOpened]_vars
  BY <1>1, <1>2, InitAgreed, StepAgreed, StepUndecided, PTL DEF Spec
<1>4. QED
  BY <1>3 DEF NoneOpened, RecordedBlockStands
-----------------------------------------------------------------------------
(* Orders settle at the price of their expiry *)

\* r is the result of the order o on the tape tp, which knows it already.
RightOn(tp, o, r) ==
    /\ o.opened + Lifetime <= Len(tp)
    /\ r = IF IsWin(o.dir, tp[o.opened], tp[o.opened + Lifetime]) THEN "WIN" ELSE "LOSS"
RowRight(tp, o) == o.st \in Results => RightOn(tp, o, o.st)

\* Rows of disk and memory and the settlements on their way.
ResultsRight ==
    /\ \A i \in OrderIds : RowRight(tape, db.orders[i]) /\ RowRight(tape, mem.orders[i])
    /\ \A k \in DOMAIN pend : RightOn(tape, db.orders[pend[k].id], pend[k].result)

\* A result stays right while the tape grows.
LEMMA RightStays ==
  ASSUME NEW tp \in Seq(Prices), NEW tp2 \in Seq(Prices), Len(tp) <= Len(tp2),
         \A t \in 1..Len(tp) : tp2[t] = tp[t],
         NEW o \in Order, NEW p, SameOrder(p, o), NEW r, RightOn(tp, o, r)
  PROVE  RightOn(tp2, p, r)
<1>1. o.opened \in 1..MaxTime /\ p.opened = o.opened /\ p.dir = o.dir
  BY DEF Order, SameOrder
<1>2. o.opened \in 1..Len(tp) /\ o.opened + Lifetime \in 1..Len(tp)
  BY <1>1, LedgerAssumption DEF RightOn
<1>3. tp2[o.opened] = tp[o.opened] /\ tp2[o.opened + Lifetime] = tp[o.opened + Lifetime]
  BY <1>2
<1>4. o.opened + Lifetime <= Len(tp2)
  BY <1>1, LedgerAssumption DEF RightOn
<1>5. QED
  BY <1>1, <1>3, <1>4 DEF RightOn

LEMMA RowStays ==
  ASSUME NEW tp \in Seq(Prices), NEW tp2 \in Seq(Prices), Len(tp) <= Len(tp2),
         \A t \in 1..Len(tp) : tp2[t] = tp[t],
         NEW o \in Order \cup {NoOrder}, RowRight(tp, o)
  PROVE  RowRight(tp2, o)
<1>1. CASE o.st \in Results
  <2>1. o \in Order
    BY <1>1 DEF NoOrder, Results
  <2>2. QED
    BY <1>1, <2>1, RightStays, SameIsEquivalence DEF RowRight
<1>2. CASE o.st \notin Results
  BY <1>2 DEF RowRight
<1>3. QED
  BY <1>1, <1>2

LEMMA TapeGrows ==
  ASSUME TypeOK, [Next]_vars
  PROVE  /\ tape \in Seq(Prices) /\ tape' \in Seq(Prices) /\ Len(tape) <= Len(tape')
         /\ \A t \in 1..Len(tape) : tape'[t] = tape[t]
<1>1. tape \in Seq(Prices)
  BY DEF TypeOK
<1>2. CASE tape' = tape
  BY <1>1, <1>2
<1>3. CASE Tick
  <2>1. PICK p \in Prices : tape' = Append(tape, p)
    BY <1>3 DEF Tick
  <2>2. QED
    BY <1>1, <2>1, AppendPlaces
<1>4. tape' = tape \/ Tick
  <2>1. CASE SettleInMemory
    BY <2>1 DEF SettleInMemory
  <2>2. CASE Prepares
    BY <2>2 DEF Prepares, PrepareStart
  <2>3. CASE Quiet \/ Forgets \/ Loads \/ (\E S \in SUBSET AllPending(mem) : Cancels(S))
             \/ Flushes \/ OpenInMemory \/ SaveOpen \/ Returns
    BY <2>3 DEF Quiet, Forgets, Loads, Cancels, Flushes, OpenInMemory, SaveOpen, Returns
  <2>4. QED
    BY <2>1, <2>2, <2>3, StepKinds
<1>5. QED
  BY <1>2, <1>3, <1>4

LEMMA QueuedAreKnown ==
  ASSUME AgreedInv
  PROVE  /\ \A k \in DOMAIN pend : /\ pend[k] \in Settlements /\ pend[k].id \in Exists(db)
                                   /\ db.orders[pend[k].id] \in Order
         /\ DOMAIN pend = 1..Len(pend) /\ Len(pend) \in Nat
<1>1. pend \in Seq(Settlements) /\ db \in LedgerType /\ Queued \subseteq Exists(db)
  BY DEF AgreedInv, Basic, AgreeIInv, TypeOK, OrdersAgree
<1>2. QED
  BY <1>1 DEF Queued, Exists, LedgerType, NoOrder

LEMMA StepResults == AgreedInv /\ ResultsRight /\ [Next]_vars => ResultsRight'
<1> SUFFICES ASSUME AgreedInv, ResultsRight, [Next]_vars PROVE ResultsRight'
  OBVIOUS
<1>1. TypeOK /\ Stages /\ OrdersAgree /\ db \in LedgerType /\ mem \in LedgerType
      /\ pend \in Seq(Settlements)
  BY DEF AgreedInv, Basic, AgreeIInv, TypeOK
<1>2. /\ \A i \in OrderIds : db.orders[i] \in Order \cup {NoOrder}
                             /\ mem.orders[i] \in Order \cup {NoOrder}
      /\ NoOrder.st \notin Results
  BY <1>1 DEF LedgerType, NoOrder, Results
<1>3. \A i \in OrderIds : RowRight(tape', db.orders[i]) /\ RowRight(tape', mem.orders[i])
  BY <1>1, <1>2, TapeGrows, RowStays DEF ResultsRight
<1>4. ASSUME NEW k \in DOMAIN pend, NEW p, SameOrder(p, db.orders[pend[k].id])
      PROVE  RightOn(tape', p, pend[k].result)
  <2>1. db.orders[pend[k].id] \in Order
    BY QueuedAreKnown
  <2>2. RightOn(tape, db.orders[pend[k].id], pend[k].result)
    BY DEF ResultsRight
  <2>3. QED
    BY <1>1, <1>4, <2>1, <2>2, TapeGrows, RightStays
<1>5. ASSUME \A i \in OrderIds : db'.orders[i] = db.orders[i],
             \A i \in OrderIds : mem'.orders[i] \in {mem.orders[i], db.orders[i], NoOrder},
             pend' = pend \/ pend' = <<>>
      PROVE  ResultsRight'
  <2>1. \A i \in OrderIds : RowRight(tape', db'.orders[i]) /\ RowRight(tape', mem'.orders[i])
    BY <1>2, <1>3, <1>5 DEF RowRight
  <2>2. \A k \in DOMAIN pend : RightOn(tape', db.orders[pend[k].id], pend[k].result)
    BY <1>4, SameIsEquivalence
  <2>3. \A k \in DOMAIN pend : pend[k].id \in OrderIds
    BY QueuedAreKnown DEF Exists
  <2>4. \A k \in DOMAIN pend' : RightOn(tape', db'.orders[pend'[k].id], pend'[k].result)
    BY <1>5, <2>2, <2>3
  <2>5. QED
    BY <2>1, <2>4 DEF ResultsRight
<1>6. CASE Tick \/ Quiet
  <2>1. UNCHANGED <<db, mem, pend>>
    BY <1>6 DEF Tick, Quiet, process
  <2>2. QED
    BY <1>5, <2>1
<1>7. CASE Forgets
  <2>1. \A i \in OrderIds : EmptyLedger.orders[i] = NoOrder
    BY DEF EmptyLedger
  <2>2. QED
    BY <1>5, <1>7, <2>1 DEF Forgets
<1>8. CASE Prepares
  <2>1. db'.orders = db.orders /\ UNCHANGED <<mem, pend>>
    BY <1>1, <1>8, PrepareEffect
  <2>2. QED
    BY <1>5, <2>1
<1>9. CASE Loads
  <2>1. db'.orders = db.orders /\ mem'.orders = db.orders /\ pend' = pend
    BY <1>1, <1>9, RestoredEffect DEF Loads
  <2>2. QED
    BY <1>5, <2>1
<1>10. ASSUME NEW S \in SUBSET AllPending(mem), Cancels(S) PROVE ResultsRight'
  <2>1. db'.orders = db.orders /\ mem'.orders = mem.orders /\ pend' = pend
    BY <1>1, <1>10, CancelsEffect
  <2>2. QED
    BY <1>5, <2>1
<1>11. CASE Returns
  <2>1. db' = db /\ pend' = pend /\ mem' = RemoveOrder(mem, Newest) /\ Newest \in Exists(mem)
    BY <1>1, <1>11, NewestExists DEF Returns, Stages
  <2>2. /\ mem'.orders[Newest] = NoOrder
        /\ \A j \in OrderIds \ {Newest} : mem'.orders[j] = mem.orders[j]
    BY <1>1, <2>1, RemoveEffect
  <2>3. QED
    BY <1>5, <2>1, <2>2
<1>12. CASE OpenInMemory
  <2>1. PICK i \in OrderIds, grants \in BOOLEAN, source \in {0} \cup Eligible(mem, cand.dir, now) :
           LET order == [st |-> "OPEN", dir |-> cand.dir, opened |-> now, grants |-> grants,
                         source |-> source]
           IN  order \in Order /\ mem' = AddOrder(mem, i, order)
    BY <1>1, <1>12, OpenEffect
  <2> DEFINE order == [st |-> "OPEN", dir |-> cand.dir, opened |-> now, grants |-> grants,
                       source |-> source]
  <2>2. order \in Order /\ mem' = AddOrder(mem, i, order) /\ order.st = "OPEN"
    BY <2>1
  <2> HIDE DEF order
  <2>3. mem'.orders[i] = order /\ \A j \in OrderIds \ {i} : mem'.orders[j] = mem.orders[j]
    BY <1>1, <2>2, AddedOrders
  <2>4. \A j \in OrderIds : RowRight(tape', mem'.orders[j])
    BY <1>3, <2>2, <2>3 DEF RowRight, Results
  <2>5. db' = db /\ pend' = pend /\ pend = <<>>
    BY <1>1, <1>12 DEF OpenInMemory, disk, Stages
  <2>6. QED
    BY <1>3, <2>4, <2>5 DEF ResultsRight
<1>13. CASE SaveOpen
  <2>1. /\ Newest \in OrderIds /\ db'.orders[Newest] = mem.orders[Newest]
        /\ mem.orders[Newest].st = "OPEN" /\ pend = <<>> /\ UNCHANGED <<mem, pend>>
    BY <1>1, <1>13, SavedRow DEF Stages
  <2>2. db' = AddOrder(db, Newest, mem.orders[Newest]) /\ mem.orders[Newest] \in Order
    BY <1>1, <1>13, SaveEffect
  <2>3. \A j \in OrderIds \ {Newest} : db'.orders[j] = db.orders[j]
    BY <1>1, <2>1, <2>2, AddedOrders
  <2>4. \A j \in OrderIds : RowRight(tape', db'.orders[j])
    BY <1>3, <2>1, <2>3 DEF RowRight, Results
  <2>5. QED
    BY <1>3, <2>1, <2>4 DEF ResultsRight
<1>14. CASE Flushes
  <2> DEFINE e == Head(pend)
  <2>1. pend # <<>> /\ FlushHead /\ mem' = mem
    BY <1>1, <1>14 DEF Flushes, Stages
  <2>2. /\ e = pend[1] /\ e.id \in OrderIds /\ db'.orders[e.id].st = e.result
        /\ pend' = Tail(pend) /\ e.result \in Results
        /\ \A j \in OrderIds \ {e.id} : db'.orders[j] = db.orders[j]
        /\ \A j \in OrderIds : SameOrder(db'.orders[j], db.orders[j])
    BY <1>1, <2>1, FlushEffect
  <2>3. /\ 1 \in DOMAIN pend
        /\ DOMAIN pend' = 1..Len(pend') /\ DOMAIN pend = 1..Len(pend)
        /\ \A k \in 1..Len(pend') : k + 1 \in 1..Len(pend) /\ pend'[k] = pend[k + 1]
    BY <1>1, <2>1, <2>2, HeadTypes
  <2> HIDE DEF e
  <2>4. RightOn(tape', db'.orders[e.id], e.result)
    BY <1>4, <2>2, <2>3
  <2>5. \A j \in OrderIds : RowRight(tape', db'.orders[j])
    BY <1>3, <2>2, <2>4 DEF RowRight
  <2>6. \A k \in DOMAIN pend : pend[k].id \in OrderIds
    BY QueuedAreKnown DEF Exists
  <2>7. ASSUME NEW k \in DOMAIN pend'
        PROVE  RightOn(tape', db'.orders[pend'[k].id], pend'[k].result)
    <3>1. k + 1 \in DOMAIN pend /\ pend'[k] = pend[k + 1]
      BY <2>3
    <3>2. SameOrder(db'.orders[pend[k + 1].id], db.orders[pend[k + 1].id])
      BY <2>2, <2>6, <3>1
    <3>3. QED
      BY <1>4, <3>1, <3>2
  <2>8. QED
    BY <1>3, <2>1, <2>5, <2>7 DEF ResultsRight
<1>15. CASE SettleInMemory
  <2>1. PICK i \in Due :
           LET result == Result(mem.orders[i])
               credit == Earned(mem, i, result, config.enabled, runtime.activated,
                                config.maxActive)
           IN  /\ i \in OrderIds /\ mem.orders[i] \in Order
               /\ result \in Results /\ credit \in Credit
               /\ mem' = SettleOrder(mem, i, result, credit)
               /\ pend' = Append(pend, [id |-> i, result |-> result, credit |-> credit])
               /\ [id |-> i, result |-> result, credit |-> credit] \in Settlements
               /\ UNCHANGED <<tape, db>> /\ pc = "settle" /\ mem.orders[i].st = "OPEN"
    BY <1>1, <1>15, SettleEffect
  <2> DEFINE result == Result(mem.orders[i])
             credit == Earned(mem, i, result, config.enabled, runtime.activated,
                              config.maxActive)
             e == [id |-> i, result |-> result, credit |-> credit]
  <2>2. RightOn(tape, mem.orders[i], result)
    BY DEF RightOn, Result, ResultAt, Due, Expiry, now
  <2>3. mem' = SettleOrder(mem, i, result, credit) /\ result \in Results /\ credit \in Credit
        /\ pend' = Append(pend, e) /\ e \in Settlements
    BY <2>1
  <2>4. i \in Exists(mem) /\ e.id = i /\ e.result = result
    BY <2>1 DEF Exists
  <2> HIDE DEF result, credit, e
  <2>5. /\ \A j \in OrderIds \ {i} : mem'.orders[j] = mem.orders[j]
        /\ mem'.orders[i].st = result /\ SameOrder(mem'.orders[i], mem.orders[i])
    BY <1>1, <2>1, <2>3, <2>4, SettleOrderEffect
  <2>6. RightOn(tape', mem'.orders[i], result)
    BY <1>1, <2>1, <2>2, <2>5, TapeGrows, RightStays
  <2>7. \A j \in OrderIds : RowRight(tape', mem'.orders[j])
    BY <1>3, <2>5, <2>6 DEF RowRight
  <2>8. i \in Exists(db) /\ SameOrder(mem.orders[i], db.orders[i])
    BY <1>1, <2>1, <2>4 DEF OrdersAgree, Running
  <2>9. RightOn(tape, db.orders[i], result)
    BY <1>1, <2>1, <2>2, <2>8, TapeGrows, RightStays, SameIsEquivalence
  <2>10. /\ DOMAIN pend = 1..Len(pend) /\ DOMAIN pend' = 1..(Len(pend) + 1)
         /\ \A k \in DOMAIN pend : pend'[k] = pend[k]
         /\ pend'[Len(pend) + 1] = e /\ Len(pend) \in Nat
    BY <1>1, <2>3, SettleQueue
  <2>11. ASSUME NEW k \in DOMAIN pend'
         PROVE  RightOn(tape', db'.orders[pend'[k].id], pend'[k].result)
    <3>1. CASE k \in DOMAIN pend
      BY <1>4, <2>1, <2>10, <3>1, SameIsEquivalence
    <3>2. CASE k = Len(pend) + 1
      BY <2>1, <2>4, <2>9, <2>10, <3>2
    <3>3. QED
      BY <2>10, <3>1, <3>2
  <2>12. QED
    BY <1>3, <2>1, <2>7, <2>11 DEF ResultsRight
<1>16. QED
  BY <1>1, <1>6, <1>7, <1>8, <1>9, <1>10, <1>11, <1>12, <1>13, <1>14, <1>15, StepKinds

\* A settled order carries the result of the minute it expired in, however
\* late, after whatever crashes and resets, it was settled.
THEOREM OrdersSettleAtExpiry == Spec => []SettledAtExpiryPrice
<1>1. Init => ResultsRight
  BY EmptyTypes DEF Init, ResultsRight, RowRight, EmptyLedger, NoOrder, Results
<1>2. ResultsRight => SettledAtExpiryPrice
  BY DEF ResultsRight, RowRight, RightOn, SettledAtExpiryPrice, Exists, Expiry, now, Results
<1>3. QED
  BY <1>1, <1>2, InitAgreed, StepAgreed, StepResults, PTL DEF Spec
-----------------------------------------------------------------------------
(* The queue of settlements follows the order of the ids *)

\* Memory knows an order open on disk as open, or as settled and queued.
OpenKnown == Running => Open(db) \subseteq Open(mem) \cup Queued

\* An order is queued once, after every earlier order that is not settled on
\* disk; so the disk settles them in the order of their ids.
QueueOrdered ==
    /\ \A k, m \in DOMAIN pend : pend[k].id = pend[m].id => k = m
    /\ \A k \in DOMAIN pend : \A i \in Exists(db) : i < pend[k].id =>
           db.orders[i].st \in Results \/ \E m \in 1..(k - 1) : pend[m].id = i
    /\ \A i, j \in Exists(db) : i < j /\ db.orders[j].st \in Results =>
           db.orders[i].st \in Results

\* While orders are settled, the queue holds what memory has just done.
JustSettled ==
    pc = "settle" => \A k \in DOMAIN pend :
        /\ mem.orders[pend[k].id].st = pend[k].result
        /\ mem.credits[pend[k].id] = pend[k].credit

QueueIInv == OpenKnown /\ QueueOrdered /\ JustSettled

\* An order in the ledger is open or settled.
LEMMA OpenOrSettled ==
  ASSUME NEW L \in LedgerType, NEW i \in Exists(L)
  PROVE  /\ i \in OrderIds /\ L.orders[i] \in Order
         /\ L.orders[i].st = "OPEN" \/ L.orders[i].st \in Results
         /\ L.orders[i].st \in Results <=> i \notin Open(L)
BY DEF Exists, Open, LedgerType, Order, NoOrder, Results

LEMMA StepQueue == AgreedInv /\ QueueIInv /\ [Next]_vars => QueueIInv'
<1> SUFFICES ASSUME AgreedInv, OpenKnown, QueueOrdered, JustSettled, [Next]_vars
             PROVE  OpenKnown' /\ QueueOrdered' /\ JustSettled'
  BY DEF QueueIInv
<1>1. TypeOK /\ Stages /\ OrdersAgree /\ Chronicle /\ BeingOpened
      /\ db \in LedgerType /\ mem \in LedgerType /\ pend \in Seq(Settlements)
  BY DEF AgreedInv, Basic, AgreeIInv, TypeOK
<1>2. \A k \in DOMAIN pend : pend[k].id \in OrderIds
  BY QueuedAreKnown DEF Exists
<1>3. OrderIds \subseteq Nat
  BY LedgerAssumption DEF OrderIds
<1>4. ASSUME \A i \in OrderIds : db'.orders[i] = db.orders[i],
             pend' = pend \/ pend' = <<>>,
             Running' => /\ pend' = pend
                         /\ \/ Running /\ \A i \in OrderIds : mem'.orders[i] = mem.orders[i]
                            \/ \A i \in OrderIds : mem'.orders[i] = db.orders[i],
             pc' = "settle" => pend = <<>> \/ (pc = "settle" /\ mem' = mem)
      PROVE  OpenKnown' /\ QueueOrdered' /\ JustSettled'
  <2>1. Exists(db') = Exists(db) /\ Open(db') = Open(db) /\ Exists(db) \subseteq OrderIds
    BY <1>4 DEF Exists, Open
  <2>2. QueueOrdered'
    BY <1>4, <2>1 DEF QueueOrdered
  <2>3. OpenKnown'
    <3> SUFFICES ASSUME Running' PROVE Open(db') \subseteq Open(mem') \cup Queued'
      BY DEF OpenKnown
    <3>1. Queued' = Queued
      BY <1>4 DEF Queued
    <3>2. CASE Running /\ \A i \in OrderIds : mem'.orders[i] = mem.orders[i]
      BY <2>1, <3>1, <3>2 DEF OpenKnown, Open
    <3>3. CASE \A i \in OrderIds : mem'.orders[i] = db.orders[i]
      BY <2>1, <3>3 DEF Open
    <3>4. QED
      BY <1>4, <3>2, <3>3
  <2>4. JustSettled'
    BY <1>4 DEF JustSettled
  <2>5. QED
    BY <2>2, <2>3, <2>4
<1>5. CASE Tick
  <2>1. UNCHANGED <<db, mem, pend, pc>>
    BY <1>5 DEF Tick, process
  <2>2. QED
    BY <1>4, <2>1 DEF Running
<1>6. CASE Quiet
  <2>1. UNCHANGED <<db, mem, pend>> /\ (Running' => Running)
        /\ (pc' = "settle" => pend = <<>> \/ pc = "settle")
    BY <1>6 DEF Quiet, Running, SettlementStage
  <2>2. QED
    BY <1>4, <2>1
<1>7. CASE Forgets
  <2>1. db' = db /\ (pend' = pend \/ pend' = <<>>) /\ ~Running' /\ pc' # "settle"
    BY <1>7 DEF Forgets, Running
  <2>2. QED
    BY <1>4, <2>1
<1>8. CASE Prepares
  <2>1. db'.orders = db.orders /\ UNCHANGED <<mem, pend>> /\ ~Running' /\ pc' # "settle"
    BY <1>1, <1>8, PrepareEffect DEF Running
  <2>2. QED
    BY <1>4, <2>1
<1>9. CASE Loads
  <2>1. db'.orders = db.orders /\ mem'.orders = db.orders /\ pend' = pend /\ pc' # "settle"
    BY <1>1, <1>9, RestoredEffect DEF Loads
  <2>2. QED
    BY <1>4, <2>1
<1>10. ASSUME NEW S \in SUBSET AllPending(mem), Cancels(S)
       PROVE  OpenKnown' /\ QueueOrdered' /\ JustSettled'
  <2>1. db'.orders = db.orders /\ mem'.orders = mem.orders /\ pend' = pend
    BY <1>1, <1>10, CancelsEffect
  <2>2. Running /\ pc' # "settle"
    BY <1>10 DEF Cancels, Running
  <2>3. QED
    BY <1>4, <2>1, <2>2
<1>11. CASE Returns
  <2>1. db' = db /\ pend' = pend /\ mem' = RemoveOrder(mem, Newest) /\ Newest \in Exists(mem)
        /\ pend = <<>> /\ pc = "save" /\ pc' = "idle"
    BY <1>1, <1>11, NewestExists DEF Returns, Stages
  <2>2. /\ \A j \in OrderIds \ {Newest} : mem'.orders[j] = mem.orders[j]
    BY <1>1, <2>1, RemoveEffect
  <2>3. Newest \notin Exists(db)
    BY <1>1, <1>3, <2>1 DEF OrdersAgree, Exists
  <2>4. Open(db) \subseteq Open(mem')
    <3>1. Open(db) \subseteq Open(mem)
      BY <2>1 DEF OpenKnown, Running, Queued
    <3>2. QED
      BY <2>2, <2>3, <3>1 DEF Open, Exists
  <2>5. QED
    BY <2>1, <2>4 DEF OpenKnown, QueueOrdered, JustSettled
<1>12. CASE OpenInMemory
  <2>1. PICK i \in OrderIds, grants \in BOOLEAN, source \in {0} \cup Eligible(mem, cand.dir, now) :
           LET order == [st |-> "OPEN", dir |-> cand.dir, opened |-> now, grants |-> grants,
                         source |-> source]
           IN  order \in Order /\ mem' = AddOrder(mem, i, order) /\ i \notin Exists(mem)
    BY <1>1, <1>12, OpenEffect
  <2> DEFINE order == [st |-> "OPEN", dir |-> cand.dir, opened |-> now, grants |-> grants,
                       source |-> source]
  <2>2. order \in Order /\ mem' = AddOrder(mem, i, order)
    BY <2>1
  <2> HIDE DEF order
  <2>3. \A j \in OrderIds \ {i} : mem'.orders[j] = mem.orders[j]
    BY <1>1, <2>2, AddedOrders
  <2>4. db' = db /\ pend' = pend /\ pend = <<>> /\ pc = "gate" /\ pc' = "save"
    BY <1>1, <1>12 DEF OpenInMemory, disk, Stages
  <2>5. Open(db) \subseteq Open(mem')
    <3>1. Open(db) \subseteq Open(mem)
      BY <2>4 DEF OpenKnown, Running, Queued
    <3>2. QED
      BY <2>1, <2>3, <3>1 DEF Open, Exists
  <2>6. QED
    BY <2>4, <2>5 DEF OpenKnown, QueueOrdered, JustSettled
<1>13. CASE SaveOpen
  <2>1. /\ Newest \in OrderIds /\ db'.orders[Newest] = mem.orders[Newest]
        /\ mem.orders[Newest].st = "OPEN" /\ pend = <<>> /\ UNCHANGED <<mem, pend>>
        /\ Exists(db') = Exists(db) \cup {Newest}
        /\ \A j \in Exists(db) : j < Newest /\ db'.orders[j] = db.orders[j]
        /\ pc = "save" /\ pc' = "notify"
    BY <1>1, <1>13, SavedRow DEF Stages
  <2>2. Open(db') \subseteq Open(mem)
    <3>1. Open(db) \subseteq Open(mem)
      BY <2>1 DEF OpenKnown, Running, Queued
    <3>2. Open(db') \subseteq Exists(db')
      BY DEF Open, Exists
    <3>3. QED
      BY <2>1, <3>1, <3>2 DEF Open, Exists
  <2>3. \A i, j \in Exists(db') : i < j /\ db'.orders[j].st \in Results =>
           db'.orders[i].st \in Results
    BY <1>3, <2>1 DEF QueueOrdered, Exists, Results
  <2>4. QED
    BY <2>1, <2>2, <2>3 DEF OpenKnown, QueueOrdered, JustSettled
<1>14. CASE Flushes
  <2> DEFINE e == Head(pend)
  <2>1. pend # <<>> /\ FlushHead /\ mem' = mem /\ (Running' => Running)
    BY <1>1, <1>14 DEF Flushes, Stages, Running
  <2>2. /\ e = pend[1] /\ e.id \in OrderIds /\ db'.orders[e.id].st = e.result
        /\ pend' = Tail(pend) /\ e.result \in Results
        /\ \A j \in OrderIds \ {e.id} : db'.orders[j] = db.orders[j]
        /\ Exists(db') = Exists(db) /\ Open(db') = Open(db) \ {e.id}
    BY <1>1, <2>1, FlushEffect
  <2>3. /\ 1 \in DOMAIN pend /\ Len(pend) \in Nat
        /\ DOMAIN pend' = 1..Len(pend') /\ DOMAIN pend = 1..Len(pend)
        /\ \A k \in 1..Len(pend') : k + 1 \in 1..Len(pend) /\ pend'[k] = pend[k + 1]
    BY <1>1, <2>1, <2>2, HeadTypes
  <2>4. Queued \subseteq Queued' \cup {e.id}
    BY <1>1, <2>1, <2>2, FlushQueue
  <2> HIDE DEF e
  <2>5. OpenKnown'
    BY <2>1, <2>2, <2>4 DEF OpenKnown
  <2>6. \A j \in Exists(db) : db.orders[j].st \in Results => db'.orders[j].st \in Results
    BY <2>2 DEF Exists
  <2>7. \A k, m \in DOMAIN pend' : pend'[k].id = pend'[m].id => k = m
    <3>1. TAKE k, m \in DOMAIN pend'
    <3>2. HAVE pend'[k].id = pend'[m].id
    <3>3. k + 1 \in DOMAIN pend /\ m + 1 \in DOMAIN pend /\ pend[k + 1].id = pend[m + 1].id
          /\ k \in Nat /\ m \in Nat
      BY <2>3, <3>2
    <3>4. k + 1 = m + 1
      BY <3>3 DEF QueueOrdered
    <3>5. QED
      BY <3>3, <3>4
  <2>8. \A k \in DOMAIN pend' : \A i \in Exists(db') : i < pend'[k].id =>
           db'.orders[i].st \in Results \/ \E m \in 1..(k - 1) : pend'[m].id = i
    <3>1. TAKE k \in DOMAIN pend'
    <3>2. TAKE i \in Exists(db')
    <3>3. HAVE i < pend'[k].id
    <3>4. k + 1 \in DOMAIN pend /\ i < pend[k + 1].id /\ i \in Exists(db) /\ k \in Nat
      BY <2>2, <2>3, <3>3
    <3>5. db.orders[i].st \in Results \/ \E m \in 1..((k + 1) - 1) : pend[m].id = i
      BY <3>4 DEF QueueOrdered
    <3>6. CASE db.orders[i].st \in Results
      BY <2>6, <3>4, <3>6
    <3>7. ASSUME NEW m \in 1..((k + 1) - 1), pend[m].id = i
          PROVE  db'.orders[i].st \in Results \/ \E n \in 1..(k - 1) : pend'[n].id = i
      <4>1. CASE m = 1
        BY <2>2, <3>7, <4>1
      <4>2. CASE m # 1
        <5>1. m - 1 \in 1..(k - 1) /\ m - 1 \in 1..Len(pend') /\ (m - 1) + 1 = m
          BY <2>3, <3>4, <3>7, <4>2
        <5>2. pend'[m - 1].id = i
          BY <2>3, <3>7, <5>1
        <5>3. QED
          BY <5>1, <5>2
      <4>3. QED
        BY <4>1, <4>2
    <3>8. QED
      BY <3>5, <3>6, <3>7
  <2>9. \A i, j \in Exists(db') : i < j /\ db'.orders[j].st \in Results =>
           db'.orders[i].st \in Results
    <3>1. TAKE i, j \in Exists(db')
    <3>2. HAVE i < j /\ db'.orders[j].st \in Results
    <3>3. CASE j = e.id
      <4>1. db.orders[i].st \in Results
        BY <2>2, <2>3, <3>2, <3>3 DEF QueueOrdered
      <4>2. QED
        BY <2>2, <2>6, <4>1
    <3>4. CASE j # e.id
      BY <2>2, <2>6, <3>2, <3>4 DEF QueueOrdered, Exists
    <3>5. QED
      BY <3>3, <3>4
  <2>10. JustSettled'
    BY <1>1, <1>14, <2>2, <2>3 DEF Flushes, JustSettled
  <2>11. QED
    BY <2>5, <2>7, <2>8, <2>9, <2>10 DEF QueueOrdered
<1>15. CASE SettleInMemory
  <2>1. PICK i \in Due :
           LET result == Result(mem.orders[i])
               credit == Earned(mem, i, result, config.enabled, runtime.activated,
                                config.maxActive)
           IN  /\ \A j \in Due : i <= j
               /\ i \in OrderIds /\ mem.orders[i].st = "OPEN"
               /\ result \in Results /\ credit \in Credit
               /\ mem' = SettleOrder(mem, i, result, credit)
               /\ pend' = Append(pend, [id |-> i, result |-> result, credit |-> credit])
               /\ [id |-> i, result |-> result, credit |-> credit] \in Settlements
               /\ UNCHANGED <<tape, db, pc>> /\ pc = "settle"
    BY <1>1, <1>15, SettleEffect
  <2> DEFINE result == Result(mem.orders[i])
             credit == Earned(mem, i, result, config.enabled, runtime.activated,
                              config.maxActive)
             e == [id |-> i, result |-> result, credit |-> credit]
  <2>2. mem' = SettleOrder(mem, i, result, credit) /\ result \in Results /\ credit \in Credit
        /\ pend' = Append(pend, e) /\ e \in Settlements
        /\ i \in Exists(mem) /\ e.id = i /\ e.result = result /\ e.credit = credit
    BY <2>1 DEF Exists
  <2> HIDE DEF result, credit, e
  <2>3. /\ \A j \in OrderIds \ {i} : /\ mem'.orders[j] = mem.orders[j]
                                     /\ mem'.credits[j] = mem.credits[j]
        /\ mem'.orders[i].st = result /\ mem'.credits[i] = credit
        /\ Open(mem') = Open(mem) \ {i}
    BY <1>1, <2>2, SettleOrderEffect
  <2>4. /\ DOMAIN pend = 1..Len(pend) /\ DOMAIN pend' = 1..(Len(pend) + 1)
        /\ \A k \in DOMAIN pend : pend'[k] = pend[k]
        /\ pend'[Len(pend) + 1] = e /\ Len(pend) \in Nat /\ Queued' = Queued \cup {i}
    BY <1>1, <2>2, SettleQueue
  <2>5. \A k \in DOMAIN pend : pend[k].id # i
    <3>1. \A k \in DOMAIN pend : mem.orders[pend[k].id].st \in Results
      BY <2>1, QueuedAreKnown DEF JustSettled, Settlements
    <3>2. QED
      BY <2>1, <3>1 DEF Results
  <2>6. \A k, m \in DOMAIN pend' : pend'[k].id = pend'[m].id => k = m
    <3>1. \A k \in DOMAIN pend' : k \in DOMAIN pend \/ k = Len(pend) + 1
      BY <2>4
    <3>2. QED
      BY <2>2, <2>4, <2>5, <3>1 DEF QueueOrdered
  <2>7. OpenKnown'
    BY <2>1, <2>3, <2>4 DEF OpenKnown, Running
  <2>8. JustSettled'
    <3>1. \A k \in DOMAIN pend' : k \in DOMAIN pend \/ k = Len(pend) + 1
      BY <2>4
    <3>2. \A k \in DOMAIN pend : /\ mem'.orders[pend[k].id].st = pend[k].result
                                 /\ mem'.credits[pend[k].id] = pend[k].credit
      BY <1>2, <2>1, <2>3, <2>5 DEF JustSettled
    <3>3. QED
      BY <2>2, <2>3, <2>4, <3>1, <3>2 DEF JustSettled
  <2>9. \A j \in Exists(db) : j < i => db.orders[j].st \in Results \/ j \in Queued
    <3>1. TAKE j \in Exists(db)
    <3>2. HAVE j < i
    <3>3. Exists(mem) = Exists(db) /\ SameOrder(mem.orders[j], db.orders[j])
          /\ SameOrder(mem.orders[i], db.orders[i])
      BY <1>1, <2>1, <2>2 DEF OrdersAgree, Running
    <3>4. db.orders[j].opened <= db.orders[i].opened
          /\ db.orders[j].opened \in Nat /\ db.orders[i].opened \in Nat
      BY <1>1, <2>2, <3>2, <3>3, OpenOrSettled, LedgerAssumption DEF Chronicle, Order
    <3>5. Expiry(mem, j) <= Expiry(mem, i) /\ Expiry(mem, i) <= now
          /\ Expiry(mem, j) \in Nat /\ Expiry(mem, i) \in Nat
      BY <3>3, <3>4, LedgerAssumption DEF Due, Expiry, SameOrder
    <3>6. j \notin Open(mem)
      <4>1. j \in Nat /\ i \in Nat /\ now \in Nat
        BY <1>1, <1>3, <2>1 DEF Exists, TypeOK, now
      <4>2. j \notin Due
        BY <2>1, <3>2, <4>1
      <4>3. QED
        BY <3>5, <4>1, <4>2 DEF Due
    <3>7. QED
      BY <1>1, <2>1, <3>6, OpenOrSettled DEF OpenKnown, Running
  <2>10. \A k \in DOMAIN pend' : \A j \in Exists(db') : j < pend'[k].id =>
            db'.orders[j].st \in Results \/ \E m \in 1..(k - 1) : pend'[m].id = j
    <3>1. TAKE k \in DOMAIN pend'
    <3>2. TAKE j \in Exists(db')
    <3>3. HAVE j < pend'[k].id
    <3>4. CASE k \in DOMAIN pend
      <4>1. \A m \in 1..(k - 1) : pend'[m] = pend[m]
        BY <2>4, <3>4
      <4>2. QED
        BY <2>1, <2>4, <3>3, <3>4, <4>1 DEF QueueOrdered
    <3>5. CASE k = Len(pend) + 1
      <4>1. db.orders[j].st \in Results \/ j \in Queued
        BY <2>1, <2>2, <2>4, <2>9, <3>3, <3>5
      <4>2. j \in Queued => \E m \in 1..(k - 1) : pend'[m].id = j
        BY <2>4, <3>5 DEF Queued
      <4>3. QED
        BY <2>1, <4>1, <4>2
    <3>6. QED
      BY <2>4, <3>4, <3>5
  <2>11. QED
    BY <2>1, <2>6, <2>7, <2>8, <2>10 DEF QueueOrdered
<1>16. QED
  BY <1>1, <1>5, <1>6, <1>7, <1>8, <1>9, <1>10, <1>11, <1>12, <1>13, <1>14, <1>15, StepKinds
-----------------------------------------------------------------------------
(* Where credits come from and where they go, of a ledger as a value *)

SourceWon(L, s) == L.orders[s].st = "WIN" /\ L.orders[s].source = 0 /\ L.orders[s].grants
ConsumedWell(L, s) ==
    LET i == L.credits[s].by
    IN  /\ i \in Exists(L) /\ L.orders[i].source = s
        /\ L.orders[i].dir = L.orders[s].dir /\ Expiry(L, s) <= L.orders[i].opened
Provenance(L) ==
    /\ \A s \in OrderIds : L.credits[s].st # "NONE" => SourceWon(L, s)
    /\ \A s \in OrderIds : L.credits[s].st = "CONSUMED" => ConsumedWell(L, s)
    /\ \A i \in Exists(L) : L.orders[i].source # 0 =>
           /\ L.credits[L.orders[i].source].st = "CONSUMED"
           /\ L.credits[L.orders[i].source].by = i

\* Only a consumed credit names an order.
Plain(L) == \A s \in OrderIds : L.credits[s].st # "CONSUMED" => L.credits[s].by = 0

\* The credit of an order that is not settled has not been earned.
LEMMA OpenHasNoCredit ==
  ASSUME NEW L \in LedgerType, Provenance(L), Plain(L), NEW i \in OrderIds,
         L.orders[i].st # "WIN"
  PROVE  L.credits[i] = NoCredit
<1>1. L.credits[i].st = "NONE" /\ L.credits[i] \in Credit /\ L.credits[i].by = 0
  BY DEF Provenance, Plain, SourceWon, LedgerType
<1>2. QED
  BY <1>1 DEF Credit, NoCredit

LEMMA ProvenanceOpens ==
  ASSUME NEW L \in LedgerType, Provenance(L), Plain(L), NEW i \in OrderIds, i \notin Exists(L),
         NEW o \in Order, o.source # 0 => o.source \in Eligible(L, o.dir, o.opened)
  PROVE  Provenance(AddOrder(L, i, o)) /\ Plain(AddOrder(L, i, o))
<1> DEFINE M == AddOrder(L, i, o)
<1>1. /\ M.orders[i] = o /\ Exists(M) = Exists(L) \cup {i}
      /\ \A j \in OrderIds \ {i} : M.orders[j] = L.orders[j]
  BY AddedOrders
<1>2. /\ \A s \in OrderIds \ {o.source} : M.credits[s] = L.credits[s]
      /\ o.source \in OrderIds => M.credits[o.source] = [st |-> "CONSUMED", by |-> i]
  BY AddedCredits
<1> HIDE DEF M
<1>3. o.source \in OrderIds \cup {0} /\ 0 \notin OrderIds
  BY LedgerAssumption DEF Order, OrderIds
<1>4. o.source # 0 => /\ o.source \in Exists(L) /\ L.credits[o.source].st = "PENDING"
                      /\ L.orders[o.source].dir = o.dir /\ Expiry(L, o.source) <= o.opened
                      /\ o.source # i
  BY DEF Eligible, Pending
<1>5. \A s \in OrderIds : L.credits[s].st # "NONE" => s # i /\ s \in Exists(L)
  BY DEF Provenance, SourceWon, Exists
<1>6. \A s \in OrderIds : M.credits[s].st # "NONE" => SourceWon(M, s)
  BY <1>1, <1>2, <1>3, <1>4, <1>5 DEF Provenance, SourceWon
<1>7. \A s \in OrderIds : M.credits[s].st = "CONSUMED" => ConsumedWell(M, s)
  <2> SUFFICES ASSUME NEW s \in OrderIds, M.credits[s].st = "CONSUMED" PROVE ConsumedWell(M, s)
    OBVIOUS
  <2>1. CASE s = o.source
    BY <1>1, <1>2, <1>3, <1>4, <2>1 DEF ConsumedWell, Expiry, Exists
  <2>2. CASE s # o.source
    <3>1. M.credits[s] = L.credits[s] /\ ConsumedWell(L, s) /\ s # i
      BY <1>2, <1>5, <2>2 DEF Provenance
    <3>2. L.credits[s].by \in Exists(L) /\ L.credits[s].by # i /\ Exists(L) \subseteq OrderIds
      BY <3>1 DEF ConsumedWell, Exists
    <3>3. QED
      BY <1>1, <3>1, <3>2 DEF ConsumedWell, Expiry
  <2>3. QED
    BY <2>1, <2>2
<1>8. \A j \in Exists(M) : M.orders[j].source # 0 =>
         /\ M.credits[M.orders[j].source].st = "CONSUMED"
         /\ M.credits[M.orders[j].source].by = j
  <2> SUFFICES ASSUME NEW j \in Exists(M), M.orders[j].source # 0
               PROVE  /\ M.credits[M.orders[j].source].st = "CONSUMED"
                      /\ M.credits[M.orders[j].source].by = j
    OBVIOUS
  <2>1. CASE j = i
    BY <1>1, <1>2, <1>3, <2>1
  <2>2. CASE j # i
    <3>1. j \in Exists(L) /\ M.orders[j] = L.orders[j]
      BY <1>1, <2>2 DEF Exists
    <3>2. /\ L.credits[L.orders[j].source].st = "CONSUMED"
          /\ L.credits[L.orders[j].source].by = j
      BY <3>1 DEF Provenance
    <3>3. L.orders[j].source # o.source
      BY <1>4, <3>1, <3>2
    <3>4. L.orders[j] \in Order
      BY <3>1 DEF Exists, LedgerType, NoOrder
    <3>5. L.orders[j].source \in OrderIds
      BY <3>1, <3>4 DEF Order
    <3>6. QED
      BY <1>2, <3>1, <3>2, <3>3, <3>5
  <2>3. QED
    BY <2>1, <2>2
<1>9. Plain(M)
  BY <1>2, <1>3 DEF Plain
<1>10. QED
  BY <1>6, <1>7, <1>8, <1>9 DEF Provenance, M

LEMMA ProvenanceSettles ==
  ASSUME NEW L \in LedgerType, Provenance(L), Plain(L), NEW i \in Open(L),
         NEW result \in Results, NEW credit \in Credit,
         \/ credit = NoCredit
         \/ /\ credit \in {Held("PENDING"), Held("CANCELLED")}
            /\ L.orders[i].source = 0 /\ L.orders[i].grants /\ result = "WIN"
  PROVE  /\ Provenance(SettleOrder(L, i, result, credit))
         /\ Plain(SettleOrder(L, i, result, credit))
<1> DEFINE M == SettleOrder(L, i, result, credit)
<1>1. i \in Exists(L) /\ i \in OrderIds /\ L.orders[i].st = "OPEN"
  BY DEF Open, Exists
<1>2. /\ \A j \in OrderIds \ {i} : M.orders[j] = L.orders[j] /\ M.credits[j] = L.credits[j]
      /\ M.orders[i].st = result /\ M.credits[i] = credit
      /\ \A j \in OrderIds : SameOrder(M.orders[j], L.orders[j])
      /\ Exists(M) = Exists(L)
  BY <1>1, SettleOrderEffect
<1> HIDE DEF M
<1>3. L.credits[i] = NoCredit
  BY <1>1, OpenHasNoCredit
<1>4. credit.st # "CONSUMED" /\ credit.by = 0
  BY DEF NoCredit, Held
<1>5. \A s \in OrderIds : M.credits[s].st # "NONE" => SourceWon(M, s)
  <2> SUFFICES ASSUME NEW s \in OrderIds, M.credits[s].st # "NONE" PROVE SourceWon(M, s)
    OBVIOUS
  <2>1. CASE s = i
    <3>1. credit # NoCredit
      BY <1>2, <2>1 DEF NoCredit
    <3>2. L.orders[i].source = 0 /\ L.orders[i].grants /\ result = "WIN"
      BY <3>1
    <3>3. M.orders[i].source = 0 /\ M.orders[i].grants /\ M.orders[i].st = "WIN"
      BY <1>1, <1>2, <3>2 DEF SameOrder
    <3>4. QED
      BY <2>1, <3>3 DEF SourceWon
  <2>2. CASE s # i
    BY <1>2, <2>2 DEF Provenance, SourceWon
  <2>3. QED
    BY <2>1, <2>2
<1>6. \A s \in OrderIds : M.credits[s].st = "CONSUMED" => ConsumedWell(M, s)
  <2> SUFFICES ASSUME NEW s \in OrderIds, M.credits[s].st = "CONSUMED" PROVE ConsumedWell(M, s)
    OBVIOUS
  <2>1. M.credits[s] = L.credits[s] /\ ConsumedWell(L, s)
    BY <1>2, <1>4 DEF Provenance
  <2>2. L.credits[s].by \in OrderIds
    BY <2>1 DEF ConsumedWell, Exists
  <2>3. QED
    BY <1>2, <2>1, <2>2 DEF ConsumedWell, Expiry, SameOrder
<1>7. \A j \in Exists(M) : M.orders[j].source # 0 =>
         /\ M.credits[M.orders[j].source].st = "CONSUMED"
         /\ M.credits[M.orders[j].source].by = j
  <2> SUFFICES ASSUME NEW j \in Exists(M), M.orders[j].source # 0
               PROVE  /\ M.credits[M.orders[j].source].st = "CONSUMED"
                      /\ M.credits[M.orders[j].source].by = j
    OBVIOUS
  <2>1. j \in Exists(L) /\ M.orders[j].source = L.orders[j].source /\ L.orders[j] \in Order
    BY <1>2 DEF SameOrder, Exists, LedgerType, NoOrder
  <2>2. /\ L.credits[L.orders[j].source].st = "CONSUMED"
        /\ L.credits[L.orders[j].source].by = j
    BY <2>1 DEF Provenance
  <2>3. L.orders[j].source \in OrderIds \ {i}
    BY <1>3, <2>1, <2>2 DEF Order, NoCredit
  <2>4. QED
    BY <1>2, <2>1, <2>2, <2>3
<1>8. Plain(M)
  BY <1>2, <1>4 DEF Plain
<1>9. QED
  BY <1>5, <1>6, <1>7, <1>8 DEF Provenance, M

LEMMA ProvenanceWithdraws ==
  ASSUME NEW L \in LedgerType, Provenance(L), Plain(L), NEW S \in SUBSET AllPending(L)
  PROVE  Provenance(CancelCredits(L, S)) /\ Plain(CancelCredits(L, S))
<1> DEFINE M == CancelCredits(L, S)
<1>1. S \in SUBSET OrderIds /\ \A s \in S : L.credits[s].st = "PENDING"
  BY DEF AllPending
<1>2. /\ M.orders = L.orders /\ Exists(M) = Exists(L)
      /\ \A s \in OrderIds \ S : M.credits[s] = L.credits[s]
      /\ \A s \in S : M.credits[s] = Held("CANCELLED")
  BY <1>1, CancelEffect
<1>3. Held("CANCELLED").st = "CANCELLED" /\ Held("CANCELLED").by = 0
  BY DEF Held
<1> HIDE DEF M
<1>4. \A s \in OrderIds : M.credits[s].st # "NONE" => SourceWon(M, s)
  BY <1>1, <1>2, <1>3 DEF Provenance, SourceWon
<1>5. \A s \in OrderIds : M.credits[s].st = "CONSUMED" => ConsumedWell(M, s)
  BY <1>1, <1>2, <1>3 DEF Provenance, ConsumedWell, Expiry
<1>6. \A j \in Exists(M) : M.orders[j].source # 0 =>
         /\ M.credits[M.orders[j].source].st = "CONSUMED"
         /\ M.credits[M.orders[j].source].by = j
  <2> SUFFICES ASSUME NEW j \in Exists(L), L.orders[j].source # 0
               PROVE  /\ M.credits[L.orders[j].source].st = "CONSUMED"
                      /\ M.credits[L.orders[j].source].by = j
    BY <1>2
  <2>1. L.credits[L.orders[j].source].st = "CONSUMED" /\ L.credits[L.orders[j].source].by = j
    BY DEF Provenance
  <2>2. L.orders[j].source \in OrderIds \ S
    BY <1>1, <2>1 DEF Exists, LedgerType, NoOrder, Order
  <2>3. QED
    BY <1>2, <2>1, <2>2
<1>7. Plain(M)
  BY <1>2, <1>3 DEF Plain
<1>8. QED
  BY <1>4, <1>5, <1>6, <1>7 DEF Provenance, M

\* Two ledgers with the same rows are the same.
LEMMA LedgersEqual ==
  ASSUME NEW L \in LedgerType, NEW M \in LedgerType,
         \A i \in OrderIds : L.orders[i] = M.orders[i] /\ L.credits[i] = M.credits[i]
  PROVE  L = M
<1>1. L.orders = M.orders
  BY DEF LedgerType
<1>2. L.credits = M.credits
  BY DEF LedgerType
<1>3. QED
  BY <1>1, <1>2 DEF LedgerType
-----------------------------------------------------------------------------
(* Memory, disk and queue know the same credits *)

\* What an order must have been, and how the progression must stand, for the
\* result to earn a credit.  Neither changes while the process runs.
Earns(o, result) ==
    /\ o.source = 0 /\ o.grants
    /\ config.enabled /\ o.opened >= runtime.activated
    /\ result = "WIN"

\* The credit that travels with a settlement.
QueuedCredits ==
    \A k \in DOMAIN pend :
        /\ pend[k].credit \in {NoCredit, Held("PENDING"), Held("CANCELLED")}
        /\ pend[k].credit.st # "NONE" <=> Earns(db.orders[pend[k].id], pend[k].result)

\* An order settled on disk that memory has yet to settle (again), or that is
\* queued (again), has earned on disk what the second time will find.
SettledEarned ==
    \A i \in Exists(db) :
        db.orders[i].st \in Results /\ ((Running /\ mem.orders[i].st = "OPEN") \/ i \in Queued)
            => (db.credits[i].st # "NONE" <=> Earns(db.orders[i], db.orders[i].st))

\* A credit that waits on disk waits in memory, or memory has yet to settle
\* its order, or has cancelled it in the queue, or is spending it.
PendingKnown ==
    Running => \A s \in Exists(db) : db.credits[s].st = "PENDING" =>
        \/ mem.credits[s].st = "PENDING"
        \/ mem.orders[s].st = "OPEN"
        \/ \E k \in DOMAIN pend : pend[k].id = s /\ pend[k].credit.st = "CANCELLED"
        \/ pc = "save" /\ s = mem.orders[Newest].source

ConsumedKnown ==
    Running => \A s \in OrderIds :
        db.credits[s].st = "CONSUMED" => mem.credits[s] = db.credits[s]

MemoryEarned == \A s \in OrderIds : mem.credits[s].st # "NONE" => mem.orders[s].st = "WIN"

\* Memory has settled what is queued with the same credit, or will settle it
\* again, or the disk has a credit already.
QueuedKnown ==
    Running => \A k \in DOMAIN pend :
        \/ mem.orders[pend[k].id].st = "OPEN"
        \/ /\ mem.orders[pend[k].id].st = pend[k].result
           /\ mem.credits[pend[k].id] = pend[k].credit \/ db.credits[pend[k].id].st # "NONE"

\* The order being saved spends a credit that is due.
SavePaid ==
    pc = "save" /\ mem.orders[Newest].source # 0 =>
        /\ mem.orders[Newest].source \in Exists(db)
        /\ db.orders[mem.orders[Newest].source].dir = mem.orders[Newest].dir
        /\ Expiry(db, mem.orders[Newest].source) <= now
        /\ mem.credits[mem.orders[Newest].source] = [st |-> "CONSUMED", by |-> Newest]

CreditIInv ==
    /\ Provenance(db) /\ Plain(db) /\ Plain(mem)
    /\ QueuedCredits /\ SettledEarned /\ PendingKnown /\ ConsumedKnown
    /\ MemoryEarned /\ QueuedKnown /\ SavePaid

LEMMA InitCredits == Init => CreditIInv
<1> SUFFICES ASSUME Init PROVE CreditIInv
  OBVIOUS
<1>1. db = EmptyLedger /\ mem = EmptyLedger /\ pend = <<>> /\ ~Running /\ pc # "save"
  BY DEF Init, Running
<1>2. Exists(EmptyLedger) = {} /\ \A s \in OrderIds : EmptyLedger.credits[s] = NoCredit
  BY EmptyTypes DEF EmptyLedger
<1>3. NoCredit.st = "NONE" /\ NoCredit.by = 0
  BY DEF NoCredit
<1>4. Provenance(EmptyLedger) /\ Plain(EmptyLedger)
  BY <1>2, <1>3 DEF Provenance, Plain
<1>5. QED
  BY <1>1, <1>2, <1>3, <1>4
  DEF CreditIInv, QueuedCredits, SettledEarned, PendingKnown, ConsumedKnown, MemoryEarned,
      QueuedKnown, SavePaid

\* A step that moves no row.
LEMMA CreditsFrame ==
  ASSUME CreditIInv, UNCHANGED <<db, mem, pend, config, runtime>>, Running' => Running,
         pc' = "save" => pc = "save" /\ now' = now, pc = "save" => pc' = "save"
  PROVE  CreditIInv'
<1>1. Newest' = Newest /\ Queued' = Queued /\ Exists(db)' = Exists(db)
  BY DEF Newest, Queued, Exists
<1>2. (Provenance(db) /\ Plain(db) /\ Plain(mem))'
  BY DEF CreditIInv, Provenance, SourceWon, ConsumedWell, Plain, Expiry, Exists
<1>3. QueuedCredits'
  BY DEF CreditIInv, QueuedCredits, Earns
<1>4. SettledEarned'
  BY <1>1 DEF CreditIInv, SettledEarned, Earns
<1>5. PendingKnown' /\ ConsumedKnown' /\ MemoryEarned' /\ QueuedKnown'
  BY <1>1 DEF CreditIInv, PendingKnown, ConsumedKnown, MemoryEarned, QueuedKnown
<1>6. SavePaid'
  BY <1>1 DEF CreditIInv, SavePaid, Expiry
<1>7. QED
  BY <1>2, <1>3, <1>4, <1>5, <1>6 DEF CreditIInv

LEMMA ForgetsCredits ==
  ASSUME AgreedInv, CreditIInv, Forgets PROVE CreditIInv'
<1>1. /\ mem' = EmptyLedger /\ UNCHANGED <<db, config, runtime>> /\ ~Running' /\ pc' # "save"
      /\ pend' = pend \/ pend' = <<>>
  BY DEF Forgets, Running
<1>2. \A s \in OrderIds : EmptyLedger.credits[s] = NoCredit
  BY DEF EmptyLedger
<1>3. NoCredit.st = "NONE" /\ NoCredit.by = 0
  BY DEF NoCredit
<1>4. Queued' \subseteq Queued /\ Exists(db)' = Exists(db)
  BY <1>1 DEF Queued, Exists
<1>5. (Provenance(db) /\ Plain(db) /\ Plain(mem))'
  BY <1>1, <1>2, <1>3 DEF CreditIInv, Provenance, SourceWon, ConsumedWell, Plain, Expiry, Exists
<1>6. QueuedCredits'
  BY <1>1 DEF CreditIInv, QueuedCredits, Earns
<1>7. SettledEarned'
  BY <1>1, <1>4 DEF CreditIInv, SettledEarned, Earns
<1>8. QED
  BY <1>1, <1>2, <1>3, <1>5, <1>6, <1>7
  DEF CreditIInv, PendingKnown, ConsumedKnown, MemoryEarned, QueuedKnown, SavePaid

LEMMA PreparesCredits ==
  ASSUME AgreedInv, CreditIInv, Prepares PROVE CreditIInv'
<1>1. TypeOK /\ Stages /\ db \in LedgerType
  BY DEF AgreedInv, Basic, TypeOK
<1>2. PICK S \in SUBSET AllPending(db) : db' = CancelCredits(db, S)
  BY <1>1, PrepareEffect
<1>3. UNCHANGED <<mem, pend>> /\ pc = "down" /\ pc' = "loading" /\ pend = <<>> /\ ~Running'
  BY <1>1, PrepareEffect DEF Stages, Running
<1>4. Provenance(CancelCredits(db, S)) /\ Plain(CancelCredits(db, S))
  BY <1>1, <1>2, ProvenanceWithdraws DEF CreditIInv
<1>5. Provenance(db') /\ Plain(db') /\ Plain(mem')
  BY <1>2, <1>3, <1>4 DEF CreditIInv
<1>6. QueuedCredits' /\ SettledEarned' /\ QueuedKnown'
  BY <1>3 DEF QueuedCredits, SettledEarned, QueuedKnown, Queued
<1>7. QED
  BY <1>3, <1>5, <1>6 DEF CreditIInv, PendingKnown, ConsumedKnown, MemoryEarned, SavePaid

LEMMA EarnsSame ==
  ASSUME NEW o, NEW p, NEW r, SameOrder(o, p)
  PROVE  Earns(o, r) <=> Earns(p, r)
BY DEF Earns, SameOrder

LEMMA LoadsCredits ==
  ASSUME AgreedInv, ResultsRight, CreditIInv, Loads PROVE CreditIInv'
<1>1. TypeOK /\ Stages /\ OrdersAgree /\ db \in LedgerType
  BY DEF AgreedInv, Basic, AgreeIInv, TypeOK
<1>2. PICK S \in SUBSET AllPending(db) : Restored = CancelCredits(db, S)
  BY <1>1, RestoredEffect
<1>3. /\ db' = CancelCredits(db, S) /\ mem' = db' /\ UNCHANGED <<tape, pend, config, runtime>>
      /\ pc' # "save"
  BY <1>2 DEF Loads
<1>4. S \in SUBSET OrderIds /\ \A s \in S : db.credits[s].st = "PENDING"
  BY DEF AllPending
<1>5. /\ db'.orders = db.orders /\ Exists(db') = Exists(db)
      /\ \A s \in OrderIds \ S : db'.credits[s] = db.credits[s]
      /\ \A s \in S : db'.credits[s] = Held("CANCELLED")
  BY <1>1, <1>3, <1>4, CancelEffect
<1>6. Held("CANCELLED").st = "CANCELLED"
  BY DEF Held
<1>7. Provenance(db') /\ Plain(db') /\ Plain(mem')
  BY <1>1, <1>3, ProvenanceWithdraws DEF CreditIInv
<1>8. \A i \in OrderIds : db'.credits[i].st # "NONE" <=> db.credits[i].st # "NONE"
  BY <1>4, <1>5, <1>6
<1>9. QueuedCredits'
  BY <1>3, <1>5 DEF CreditIInv, QueuedCredits, Earns
<1>10. SettledEarned'
  <2> SUFFICES ASSUME NEW i \in Exists(db), db.orders[i].st \in Results,
                      (Running' /\ mem'.orders[i].st = "OPEN") \/ i \in Queued
               PROVE  db'.credits[i].st # "NONE" <=> Earns(db.orders[i], db.orders[i].st)
    BY <1>3, <1>5 DEF SettledEarned, Earns, Queued
  <2>1. i \in Queued /\ i \in OrderIds
    BY <1>3, <1>5 DEF Results, Exists
  <2>2. db.credits[i].st # "NONE" <=> Earns(db.orders[i], db.orders[i].st)
    BY <2>1 DEF CreditIInv, SettledEarned
  <2>3. QED
    BY <1>8, <2>1, <2>2
<1>11. PendingKnown' /\ ConsumedKnown'
  BY <1>3 DEF PendingKnown, ConsumedKnown
<1>12. MemoryEarned'
  BY <1>3, <1>7 DEF MemoryEarned, Provenance, SourceWon
<1>13. QueuedKnown'
  <2> SUFFICES ASSUME NEW k \in DOMAIN pend
               PROVE  \/ db.orders[pend[k].id].st = "OPEN"
                      \/ /\ db.orders[pend[k].id].st = pend[k].result
                         /\ \/ db'.credits[pend[k].id] = pend[k].credit
                            \/ db'.credits[pend[k].id].st # "NONE"
    BY <1>3, <1>5 DEF QueuedKnown
  <2> DEFINE e == pend[k]
  <2>1. e.id \in Exists(db) /\ e.id \in Queued /\ e.id \in OrderIds
        /\ db.orders[e.id] \in Order
    BY QueuedAreKnown DEF Queued, Exists
  <2>2. CASE db.orders[e.id].st \in Results
    <3>1. db.orders[e.id].st = e.result
      BY <2>1, <2>2 DEF ResultsRight, RowRight, RightOn
    <3>2. CASE db.credits[e.id].st = "NONE"
      <4>1. ~Earns(db.orders[e.id], e.result)
        BY <2>1, <2>2, <3>1, <3>2 DEF CreditIInv, SettledEarned
      <4>2. e.credit.st = "NONE" /\ e.credit \in {NoCredit, Held("PENDING"), Held("CANCELLED")}
        BY <4>1 DEF CreditIInv, QueuedCredits
      <4>3. e.credit = NoCredit
        BY <4>2 DEF Held
      <4>4. e.id \notin S
        BY <1>4, <3>2
      <4>5. db.credits[e.id] = NoCredit
        BY <1>1, <2>1, <3>2 DEF CreditIInv, Plain, LedgerType, Credit, NoCredit
      <4>6. QED
        BY <1>5, <2>1, <3>1, <4>3, <4>4, <4>5
    <3>3. CASE db.credits[e.id].st # "NONE"
      BY <1>8, <2>1, <3>1, <3>3
    <3>4. QED
      BY <3>2, <3>3
  <2>3. CASE db.orders[e.id].st \notin Results
    BY <2>1, <2>3 DEF Order
  <2>4. QED
    BY <2>2, <2>3
<1>14. SavePaid'
  BY <1>3 DEF SavePaid
<1>15. QED
  BY <1>7, <1>9, <1>10, <1>11, <1>12, <1>13, <1>14 DEF CreditIInv
LEMMA CancelsCredits ==
  ASSUME AgreedInv, CreditIInv, NEW S \in SUBSET AllPending(mem), Cancels(S)
  PROVE  CreditIInv' /\ \E T \in SUBSET AllPending(db) : db' = CancelCredits(db, T)
<1>1. TypeOK /\ Stages /\ OrdersAgree /\ db \in LedgerType /\ mem \in LedgerType
  BY DEF AgreedInv, Basic, AgreeIInv, TypeOK
<1>2. /\ S \in SUBSET OrderIds /\ ~CancelRefused(S)
      /\ db' = CancelCredits(db, S) /\ mem' = CancelCredits(mem, S)
      /\ db' \in LedgerType
      /\ UNCHANGED <<tape, pend, config, runtime>>
  BY <1>1, CancelsEffect
<1>3. /\ db'.orders = db.orders /\ Exists(db') = Exists(db)
      /\ \A s \in OrderIds \ S : db'.credits[s] = db.credits[s]
      /\ \A s \in S : db'.credits[s] = Held("CANCELLED")
  BY <1>1, <1>2, CancelEffect
<1>4. /\ mem'.orders = mem.orders
      /\ \A s \in OrderIds \ S : mem'.credits[s] = mem.credits[s]
      /\ \A s \in S : mem'.credits[s] = Held("CANCELLED")
  BY <1>1, <1>2, CancelEffect
<1>5. Held("CANCELLED").st = "CANCELLED" /\ Held("CANCELLED").by = 0
  BY DEF Held
<1>6. \A s \in S : db.credits[s].st \in {"PENDING", "CANCELLED"} /\ mem.credits[s].st = "PENDING"
  BY <1>1, <1>2 DEF CancelRefused, AllPending, LedgerType, Credit
<1> DEFINE T == S \cap AllPending(db)
<1>7. \A s \in S \ T : db.credits[s] = Held("CANCELLED")
  BY <1>1, <1>2, <1>6 DEF AllPending, CreditIInv, Plain, LedgerType, Credit, Held
<1>8. T \in SUBSET AllPending(db) /\ T \in SUBSET OrderIds /\ T \subseteq S
  BY <1>2
<1> HIDE DEF T
<1>9. /\ CancelCredits(db, T).orders = db.orders /\ CancelCredits(db, T) \in LedgerType
      /\ \A s \in OrderIds \ T : CancelCredits(db, T).credits[s] = db.credits[s]
      /\ \A s \in T : CancelCredits(db, T).credits[s] = Held("CANCELLED")
  BY <1>1, <1>8, CancelEffect, CancelTypes
<1>10. db' = CancelCredits(db, T)
  <2>1. \A i \in OrderIds : db'.credits[i] = CancelCredits(db, T).credits[i]
    BY <1>2, <1>3, <1>7, <1>8, <1>9
  <2>2. QED
    BY <1>2, <1>3, <1>9, <2>1, LedgersEqual
<1>11. Provenance(db') /\ Plain(db')
  BY <1>1, <1>8, <1>10, ProvenanceWithdraws DEF CreditIInv
<1>12. Plain(mem')
  BY <1>2, <1>4, <1>5 DEF CreditIInv, Plain
<1>13. Running /\ pc # "save" /\ pc' # "save" /\ now' = now /\ Queued' = Queued
  BY <1>2 DEF Cancels, Running, now, Queued
<1>14. \A i \in OrderIds : db'.credits[i].st # "NONE" <=> db.credits[i].st # "NONE"
  BY <1>3, <1>5, <1>6
<1>15. QueuedCredits'
  BY <1>2, <1>3 DEF CreditIInv, QueuedCredits, Earns
<1>16. SettledEarned'
  <2> SUFFICES ASSUME NEW i \in Exists(db), db.orders[i].st \in Results,
                      mem.orders[i].st = "OPEN" \/ i \in Queued
               PROVE  db'.credits[i].st # "NONE" <=> Earns(db.orders[i], db.orders[i].st)
    BY <1>2, <1>3, <1>4, <1>13 DEF SettledEarned, Earns
  <2>1. db.credits[i].st # "NONE" <=> Earns(db.orders[i], db.orders[i].st)
    BY <1>13 DEF CreditIInv, SettledEarned
  <2>2. QED
    BY <1>14, <2>1 DEF Exists
<1>17. PendingKnown'
  BY <1>2, <1>3, <1>4, <1>5, <1>13 DEF CreditIInv, PendingKnown, Exists
<1>18. ConsumedKnown'
  BY <1>2, <1>3, <1>4, <1>5, <1>13 DEF CreditIInv, ConsumedKnown
<1>19. MemoryEarned'
  BY <1>2, <1>4, <1>6 DEF CreditIInv, MemoryEarned
<1>20. QueuedKnown'
  <2> SUFFICES ASSUME NEW k \in DOMAIN pend
               PROVE  \/ mem.orders[pend[k].id].st = "OPEN"
                      \/ /\ mem.orders[pend[k].id].st = pend[k].result
                         /\ \/ mem'.credits[pend[k].id] = pend[k].credit
                            \/ db'.credits[pend[k].id].st # "NONE"
    BY <1>2, <1>4 DEF QueuedKnown
  <2>1. pend[k].id \in OrderIds
    BY QueuedAreKnown DEF Exists
  <2>2. \/ mem.orders[pend[k].id].st = "OPEN"
        \/ /\ mem.orders[pend[k].id].st = pend[k].result
           /\ mem.credits[pend[k].id] = pend[k].credit \/ db.credits[pend[k].id].st # "NONE"
    BY <1>13 DEF CreditIInv, QueuedKnown
  <2>3. CASE pend[k].id \in S
    BY <1>3, <1>5, <2>2, <2>3
  <2>4. CASE pend[k].id \notin S
    BY <1>4, <1>14, <2>1, <2>2, <2>4
  <2>5. QED
    BY <2>3, <2>4
<1>21. SavePaid'
  BY <1>13 DEF SavePaid
<1>22. QED
  BY <1>8, <1>10, <1>11, <1>12, <1>15, <1>16, <1>17, <1>18, <1>19, <1>20, <1>21 DEF CreditIInv

\* Writing the head of the queue settles an open order and gives it the
\* credit that memory gave it, or finds the order settled already: then the
\* credit it finds stays, unless it waits and memory has cancelled it.
LEMMA FlushKinds ==
  ASSUME AgreedInv, CreditIInv, pend # <<>>, FlushHead
  PROVE  LET e == Head(pend)
         IN  /\ e = pend[1] /\ e.id \in Exists(db)
             /\ e.credit \in {NoCredit, Held("PENDING"), Held("CANCELLED")}
             /\ e.credit # NoCredit <=> Earns(db.orders[e.id], e.result)
             /\ \/ /\ e.id \in Open(db) /\ db.credits[e.id] = NoCredit
                   /\ db' = SettleOrder(db, e.id, e.result, e.credit)
                   /\ db'.credits[e.id] = e.credit
                \/ /\ db' = db /\ db.orders[e.id].st = e.result
                   /\ e.credit = Held("CANCELLED") => db.credits[e.id].st # "PENDING"
                \/ /\ db' = CancelCredits(db, {e.id}) /\ db.orders[e.id].st = e.result
                   /\ db.credits[e.id].st = "PENDING" /\ e.credit = Held("CANCELLED")
                   /\ db'.credits[e.id] = e.credit
<1> DEFINE e == Head(pend)
           c == Upsert(db.credits[e.id], e.credit)
<1>1. TypeOK /\ db \in LedgerType /\ pend \in Seq(Settlements)
  BY DEF AgreedInv, Basic, TypeOK
<1>2. /\ e = pend[1] /\ e.id \in Exists(db) /\ e.id \in OrderIds
      /\ db' \in LedgerType /\ e.result \in Results
      /\ db.orders[e.id].st \in {"OPEN", e.result}
      /\ \A j \in OrderIds \ {e.id} : /\ db'.orders[j] = db.orders[j]
                                      /\ db'.credits[j] = db.credits[j]
      /\ db'.orders[e.id].st = e.result /\ db'.credits[e.id] = c
  BY <1>1, FlushEffect
<1>3. db'.orders = [db.orders EXCEPT ![e.id].st = e.result]
      /\ db'.credits = [db.credits EXCEPT ![e.id] = c]
  BY DEF FlushHead, SettleRow
<1>4. db.orders[e.id] \in Order /\ db.credits[e.id] \in Credit
  BY <1>1, <1>2 DEF Exists, LedgerType, NoOrder
<1>5. 1 \in DOMAIN pend
  BY <1>1, HeadTypes
<1>6. /\ e.credit \in {NoCredit, Held("PENDING"), Held("CANCELLED")}
      /\ e.credit.st # "NONE" <=> Earns(db.orders[e.id], e.result)
  BY <1>2, <1>5 DEF CreditIInv, QueuedCredits
<1>7. e.credit # NoCredit <=> e.credit.st # "NONE"
  BY <1>6 DEF NoCredit, Held
<1>8. e.id \in Queued
  BY <1>2, <1>5 DEF Queued
<1>9. SettleOrder(db, e.id, e.result, c) = db'
  BY <1>2, <1>3 DEF SettleOrder, LedgerType
<1> HIDE DEF e
<1>10. CASE db.orders[e.id].st = "OPEN"
  <2>1. db.credits[e.id] = NoCredit /\ e.id \in Open(db)
    BY <1>1, <1>2, <1>10, OpenHasNoCredit DEF CreditIInv, Open
  <2>2. c = e.credit
    BY <1>6, <2>1 DEF Upsert, NoCredit, Held
  <2>3. QED
    BY <1>2, <1>6, <1>7, <1>9, <2>1, <2>2 DEF e
<1>11. CASE db.orders[e.id].st = e.result
  <2>1. db.credits[e.id].st # "NONE" <=> Earns(db.orders[e.id], e.result)
    BY <1>2, <1>8, <1>11 DEF CreditIInv, SettledEarned
  <2>2. db.credits[e.id].st # "CONSUMED" => db.credits[e.id].by = 0
    BY <1>2 DEF CreditIInv, Plain
  <2>3. db'.orders[e.id] = db.orders[e.id]
    BY <1>2, <1>3, <1>4, <1>11 DEF LedgerType, Order
  <2>4. CASE db.credits[e.id].st = "PENDING" /\ e.credit = Held("CANCELLED")
    <3>1. c = e.credit
      BY <2>4 DEF Upsert, Held
    <3>2. /\ CancelCredits(db, {e.id}).orders = db.orders
          /\ CancelCredits(db, {e.id}) \in LedgerType
          /\ \A s \in OrderIds \ {e.id} : CancelCredits(db, {e.id}).credits[s] = db.credits[s]
          /\ CancelCredits(db, {e.id}).credits[e.id] = Held("CANCELLED")
      <4>1. {e.id} \in SUBSET OrderIds
        BY <1>2
      <4>2. QED
        BY <1>1, <4>1, CancelEffect, CancelTypes
    <3>3. db' = CancelCredits(db, {e.id})
      <4>1. \A j \in OrderIds : /\ db'.orders[j] = CancelCredits(db, {e.id}).orders[j]
                                /\ db'.credits[j] = CancelCredits(db, {e.id}).credits[j]
        BY <1>2, <2>3, <2>4, <3>1, <3>2
      <4>2. QED
        BY <1>2, <3>2, <4>1, LedgersEqual
    <3>4. QED
      BY <1>2, <1>6, <1>7, <1>11, <2>4, <3>1, <3>3 DEF e
  <2>5. CASE ~(db.credits[e.id].st = "PENDING" /\ e.credit = Held("CANCELLED"))
    <3>1. c = db.credits[e.id]
      BY <1>4, <1>6, <2>1, <2>2, <2>5 DEF Upsert, Held, NoCredit, Credit
    <3>2. db' = db
      BY <1>1, <1>2, <2>3, <3>1, LedgersEqual
    <3>3. QED
      BY <1>2, <1>6, <1>7, <1>11, <2>5, <3>2 DEF e
  <2>6. QED
    BY <2>4, <2>5
<1>12. QED
  BY <1>2, <1>10, <1>11
LEMMA FlushesCredits ==
  ASSUME AgreedInv, CreditIInv, Flushes
  PROVE  CreditIInv'
<1> DEFINE e == Head(pend)
<1>1. TypeOK /\ Stages /\ db \in LedgerType /\ pend \in Seq(Settlements)
  BY DEF AgreedInv, Basic, TypeOK
<1>2. /\ pend # <<>> /\ FlushHead /\ UNCHANGED <<tape, mem, config, runtime>>
      /\ (Running' => Running) /\ pc' # "save"
  BY <1>1 DEF Flushes, Stages, Running
<1>3. /\ e = pend[1] /\ e.id \in OrderIds /\ db'.orders[e.id].st = e.result
      /\ pend' = Tail(pend) /\ e.result \in Results /\ e.id \in Exists(db)
      /\ \A j \in OrderIds \ {e.id} : /\ db'.orders[j] = db.orders[j]
                                      /\ db'.credits[j] = db.credits[j]
      /\ \A j \in OrderIds : SameOrder(db'.orders[j], db.orders[j])
      /\ Exists(db') = Exists(db)
  BY <1>1, <1>2, FlushEffect
<1>4. /\ 1 \in DOMAIN pend /\ Len(pend) \in Nat /\ e.credit \in Credit
      /\ DOMAIN pend' = 1..Len(pend') /\ DOMAIN pend = 1..Len(pend)
      /\ Len(pend') = Len(pend) - 1
      /\ \A k \in 1..Len(pend') : k + 1 \in 1..Len(pend) /\ pend'[k] = pend[k + 1]
  BY <1>1, <1>2, <1>3, HeadTypes
<1>5. /\ e.credit \in {NoCredit, Held("PENDING"), Held("CANCELLED")}
      /\ e.credit # NoCredit <=> Earns(db.orders[e.id], e.result)
      /\ \/ /\ e.id \in Open(db) /\ db.credits[e.id] = NoCredit
            /\ db' = SettleOrder(db, e.id, e.result, e.credit)
            /\ db'.credits[e.id] = e.credit
         \/ /\ db' = db /\ db.orders[e.id].st = e.result
            /\ e.credit = Held("CANCELLED") => db.credits[e.id].st # "PENDING"
         \/ /\ db' = CancelCredits(db, {e.id}) /\ db.orders[e.id].st = e.result
            /\ db.credits[e.id].st = "PENDING" /\ e.credit = Held("CANCELLED")
            /\ db'.credits[e.id] = e.credit
  BY <1>2, FlushKinds
<1>6. Queued' \subseteq Queued
  BY <1>1, <1>2, <1>3, FlushQueue
<1>7. \A k \in DOMAIN pend : k = 1 \/ (k - 1 \in DOMAIN pend' /\ pend'[k - 1] = pend[k])
  BY <1>4
<1>8. \A k \in DOMAIN pend : pend[k].id \in OrderIds /\ pend[k].id \in Exists(db)
  BY QueuedAreKnown DEF Exists
<1>9. /\ e.credit.st = "NONE" <=> e.credit = NoCredit
      /\ e.credit.st = "PENDING" <=> e.credit = Held("PENDING")
      /\ e.credit.st = "CANCELLED" <=> e.credit = Held("CANCELLED")
      /\ e.credit.st # "CONSUMED" /\ NoCredit.st = "NONE"
  BY <1>5 DEF NoCredit, Held
<1> HIDE DEF e
<1>10. Provenance(db') /\ Plain(db')
  <2>1. CASE /\ e.id \in Open(db)
             /\ db' = SettleOrder(db, e.id, e.result, e.credit)
    <3>1. e.credit # NoCredit => /\ db.orders[e.id].source = 0 /\ db.orders[e.id].grants
                                 /\ e.result = "WIN"
      BY <1>5 DEF Earns
    <3>2. QED
      BY <1>1, <1>3, <1>4, <1>5, <2>1, <3>1, ProvenanceSettles DEF CreditIInv
  <2>2. CASE db' = db
    BY <2>2 DEF CreditIInv
  <2>3. CASE db' = CancelCredits(db, {e.id}) /\ db.credits[e.id].st = "PENDING"
    <3>1. {e.id} \in SUBSET AllPending(db)
      BY <1>3, <2>3 DEF AllPending
    <3>2. QED
      BY <1>1, <2>3, <3>1, ProvenanceWithdraws DEF CreditIInv
  <2>4. QED
    BY <1>5, <2>1, <2>2, <2>3
<1>11. \A j \in OrderIds : db.credits[j].st # "NONE" => db'.credits[j].st # "NONE"
  BY <1>3, <1>5, <1>9
<1>12. QueuedCredits'
  <2> SUFFICES ASSUME NEW k \in DOMAIN pend'
               PROVE  /\ pend'[k].credit \in {NoCredit, Held("PENDING"), Held("CANCELLED")}
                      /\ pend'[k].credit.st # "NONE"
                            <=> Earns(db'.orders[pend'[k].id], pend'[k].result)
    BY <1>2 DEF QueuedCredits, Earns
  <2>1. k + 1 \in DOMAIN pend /\ pend'[k] = pend[k + 1]
    BY <1>4
  <2>2. SameOrder(db'.orders[pend[k + 1].id], db.orders[pend[k + 1].id])
    BY <1>3, <1>8, <2>1
  <2>3. /\ pend[k + 1].credit \in {NoCredit, Held("PENDING"), Held("CANCELLED")}
        /\ pend[k + 1].credit.st # "NONE"
              <=> Earns(db.orders[pend[k + 1].id], pend[k + 1].result)
    BY <2>1 DEF CreditIInv, QueuedCredits
  <2>4. QED
    BY <2>1, <2>2, <2>3, EarnsSame
<1>13. SettledEarned'
  <2> SUFFICES ASSUME NEW i \in Exists(db), db'.orders[i].st \in Results,
                      (Running /\ mem.orders[i].st = "OPEN") \/ i \in Queued'
               PROVE  db'.credits[i].st # "NONE" <=> Earns(db'.orders[i], db'.orders[i].st)
    BY <1>2, <1>3 DEF SettledEarned, Earns
  <2>1. i \in OrderIds /\ (i \in Queued \/ (Running /\ mem.orders[i].st = "OPEN"))
    BY <1>6 DEF Exists
  <2>2. CASE i # e.id
    BY <1>3, <1>6, <2>2 DEF CreditIInv, SettledEarned, Exists
  <2>3. CASE i = e.id
    <3>1. Earns(db'.orders[i], db'.orders[i].st) <=> Earns(db.orders[i], e.result)
      BY <1>3, <2>3, EarnsSame
    <3>2. CASE db'.credits[e.id] = e.credit
      BY <1>5, <1>9, <2>3, <3>1, <3>2
    <3>3. CASE db' = db /\ db.orders[e.id].st = e.result
      <4>1. i \in Queued
        BY <1>3, <1>4, <2>3 DEF Queued
      <4>2. db.credits[i].st # "NONE" <=> Earns(db.orders[i], db.orders[i].st)
        BY <1>3, <2>3, <3>3, <4>1 DEF CreditIInv, SettledEarned
      <4>3. QED
        BY <2>3, <3>1, <3>3, <4>2
    <3>4. QED
      BY <1>5, <3>2, <3>3
  <2>4. QED
    BY <2>2, <2>3
<1>14. PendingKnown'
  <2> SUFFICES ASSUME Running, NEW s \in Exists(db), db'.credits[s].st = "PENDING"
               PROVE  \/ mem.credits[s].st = "PENDING" \/ mem.orders[s].st = "OPEN"
                      \/ \E k \in DOMAIN pend' : pend'[k].id = s /\ pend'[k].credit.st = "CANCELLED"
    BY <1>2, <1>3 DEF PendingKnown
  <2>1. CASE s = e.id /\ db.credits[s] = NoCredit /\ db'.credits[s] = e.credit
    <3>1. \/ mem.orders[e.id].st = "OPEN"
          \/ mem.credits[e.id] = e.credit \/ db.credits[e.id].st # "NONE"
      BY <1>3, <1>4 DEF CreditIInv, QueuedKnown
    <3>2. QED
      BY <1>9, <2>1, <3>1
  <2>2. CASE db.credits[s].st = "PENDING" /\ ~(s = e.id /\ e.credit.st = "CANCELLED")
    <3>1. \/ mem.credits[s].st = "PENDING" \/ mem.orders[s].st = "OPEN"
          \/ \E k \in DOMAIN pend : pend[k].id = s /\ pend[k].credit.st = "CANCELLED"
      BY <1>1, <1>2, <2>2 DEF CreditIInv, PendingKnown, Stages
    <3>2. ASSUME NEW k \in DOMAIN pend, pend[k].id = s, pend[k].credit.st = "CANCELLED"
          PROVE  k - 1 \in DOMAIN pend' /\ pend'[k - 1] = pend[k]
      BY <1>3, <1>7, <2>2, <3>2
    <3>3. QED
      BY <3>1, <3>2
  <2>3. s \in OrderIds
    BY DEF Exists
  <2>4. QED
    BY <1>3, <1>5, <1>9, <2>1, <2>2, <2>3
<1>15. ConsumedKnown'
  <2> SUFFICES ASSUME Running, NEW s \in OrderIds, db'.credits[s].st = "CONSUMED"
               PROVE  mem.credits[s] = db'.credits[s]
    BY <1>2 DEF ConsumedKnown
  <2>1. db'.credits[s] = db.credits[s]
    BY <1>3, <1>5, <1>9
  <2>2. QED
    BY <2>1 DEF CreditIInv, ConsumedKnown
<1>16. MemoryEarned' /\ Plain(mem')
  BY <1>2 DEF CreditIInv, MemoryEarned
<1>17. QueuedKnown'
  <2> SUFFICES ASSUME Running, NEW k \in DOMAIN pend'
               PROVE  \/ mem.orders[pend'[k].id].st = "OPEN"
                      \/ /\ mem.orders[pend'[k].id].st = pend'[k].result
                         /\ \/ mem.credits[pend'[k].id] = pend'[k].credit
                            \/ db'.credits[pend'[k].id].st # "NONE"
    BY <1>2 DEF QueuedKnown
  <2>1. k + 1 \in DOMAIN pend /\ pend'[k] = pend[k + 1]
    BY <1>4
  <2>2. QED
    BY <1>8, <1>11, <2>1 DEF CreditIInv, QueuedKnown
<1>18. SavePaid'
  BY <1>2 DEF SavePaid
<1>19. QED
  BY <1>10, <1>12, <1>13, <1>14, <1>15, <1>16, <1>17, <1>18 DEF CreditIInv
\* What settling in memory earns: a credit when the order earns one, which
\* waits only while there is room for it.
LEMMA SettlingEarns ==
  ASSUME AgreedInv, CreditIInv, NEW i \in OrderIds, mem.orders[i].st = "OPEN",
         NEW result
  PROVE  LET credit == Earned(mem, i, result, config.enabled, runtime.activated,
                              config.maxActive)
         IN  /\ credit \in {NoCredit, Held("PENDING"), Held("CANCELLED")}
             /\ credit.st # "NONE" <=> Earns(mem.orders[i], result)
             /\ credit.st = "PENDING" =>
                    ~(Cardinality(Reserved(mem, mem.orders[i].dir)) >= config.maxActive)
<1>1. mem \in LedgerType
  BY DEF AgreedInv, Basic, TypeOK
<1>2. mem.credits[i].st = "NONE" /\ mem.credits[i] = NoCredit
  BY <1>1 DEF CreditIInv, MemoryEarned, Plain, LedgerType, Credit, NoCredit
<1>3. CASE Earns(mem.orders[i], result)
  BY <1>2, <1>3 DEF Earned, Earns, Held
<1>4. CASE ~Earns(mem.orders[i], result)
  BY <1>2, <1>4 DEF Earned, Earns, NoCredit
<1>5. QED
  BY <1>3, <1>4

LEMMA SettlesCredits ==
  ASSUME AgreedInv, ResultsRight, QueueIInv, CreditIInv, SettleInMemory
  PROVE  CreditIInv'
<1>1. TypeOK /\ OrdersAgree /\ db \in LedgerType /\ mem \in LedgerType
      /\ pend \in Seq(Settlements)
  BY DEF AgreedInv, Basic, AgreeIInv, TypeOK
<1>2. PICK i \in Due :
         LET result == Result(mem.orders[i])
             credit == Earned(mem, i, result, config.enabled, runtime.activated,
                              config.maxActive)
         IN  /\ i \in OrderIds /\ mem.orders[i].st = "OPEN" /\ mem.orders[i] \in Order
             /\ result \in Results /\ credit \in Credit
             /\ mem' = SettleOrder(mem, i, result, credit)
             /\ pend' = Append(pend, [id |-> i, result |-> result, credit |-> credit])
             /\ [id |-> i, result |-> result, credit |-> credit] \in Settlements
             /\ UNCHANGED <<tape, db, config, runtime, pc>> /\ pc = "settle"
  BY <1>1, SettleEffect
<1> DEFINE result == Result(mem.orders[i])
           credit == Earned(mem, i, result, config.enabled, runtime.activated,
                            config.maxActive)
           e == [id |-> i, result |-> result, credit |-> credit]
<1>3. /\ credit \in {NoCredit, Held("PENDING"), Held("CANCELLED")}
      /\ credit.st # "NONE" <=> Earns(mem.orders[i], result)
  BY <1>2, SettlingEarns
<1>4. mem' = SettleOrder(mem, i, result, credit) /\ result \in Results /\ credit \in Credit
      /\ pend' = Append(pend, e) /\ e \in Settlements
      /\ i \in Exists(mem) /\ e.id = i /\ e.result = result /\ e.credit = credit
  BY <1>2 DEF Exists
<1>5. RightOn(tape, mem.orders[i], result)
  BY DEF RightOn, Result, ResultAt, Due, Expiry, now
<1>6. Running /\ Running' /\ i \in Exists(db) /\ SameOrder(mem.orders[i], db.orders[i])
  BY <1>1, <1>2, <1>4 DEF OrdersAgree, Running
<1> HIDE DEF result, credit, e
<1>7. /\ \A j \in OrderIds \ {i} : /\ mem'.orders[j] = mem.orders[j]
                                   /\ mem'.credits[j] = mem.credits[j]
      /\ mem'.orders[i].st = result /\ mem'.credits[i] = credit
  BY <1>1, <1>4, SettleOrderEffect
<1>8. /\ DOMAIN pend = 1..Len(pend) /\ DOMAIN pend' = 1..(Len(pend) + 1)
      /\ \A k \in DOMAIN pend : pend'[k] = pend[k]
      /\ pend'[Len(pend) + 1] = e /\ Len(pend) \in Nat /\ Queued' = Queued \cup {i}
  BY <1>1, <1>4, SettleQueue
<1>9. \A k \in DOMAIN pend' : (k \in DOMAIN pend /\ pend'[k] = pend[k])
                                \/ (k = Len(pend) + 1 /\ pend'[k] = e)
  BY <1>8
<1>10. Earns(mem.orders[i], result) <=> Earns(db.orders[i], result)
  BY <1>6, EarnsSame
<1>11. \A k \in DOMAIN pend : pend[k].id # i /\ pend[k].id \in OrderIds
  <2>1. \A k \in DOMAIN pend : mem.orders[pend[k].id].st \in Results
    BY <1>2, QueuedAreKnown DEF QueueIInv, JustSettled, Settlements
  <2>2. QED
    BY <1>2, <2>1, QueuedAreKnown DEF Results, Exists
<1>12. db.orders[i].st \in Results => db.orders[i].st = result
  <2>1. db.orders[i].st \in Results => RightOn(tape, db.orders[i], db.orders[i].st)
    BY <1>2 DEF ResultsRight, RowRight
  <2>2. QED
    BY <1>5, <1>6, <2>1 DEF RightOn, SameOrder
<1>13. credit.st # "CONSUMED" /\ credit.by = 0
  BY <1>3 DEF NoCredit, Held
<1>14. mem.credits[i].st = "NONE"
  BY <1>2 DEF CreditIInv, MemoryEarned
<1>15. Provenance(db') /\ Plain(db') /\ Plain(mem')
  BY <1>2, <1>7, <1>13 DEF CreditIInv, Plain
<1>16. QueuedCredits'
  <2> SUFFICES ASSUME NEW k \in DOMAIN pend'
               PROVE  /\ pend'[k].credit \in {NoCredit, Held("PENDING"), Held("CANCELLED")}
                      /\ pend'[k].credit.st # "NONE"
                            <=> Earns(db.orders[pend'[k].id], pend'[k].result)
    BY <1>2 DEF QueuedCredits, Earns
  <2>1. CASE k \in DOMAIN pend /\ pend'[k] = pend[k]
    BY <2>1 DEF CreditIInv, QueuedCredits
  <2>2. CASE pend'[k] = e
    BY <1>3, <1>4, <1>10, <2>2
  <2>3. QED
    BY <1>9, <2>1, <2>2
<1>17. SettledEarned'
  <2> SUFFICES ASSUME NEW j \in Exists(db), db.orders[j].st \in Results,
                      mem'.orders[j].st = "OPEN" \/ j \in Queued'
               PROVE  db.credits[j].st # "NONE" <=> Earns(db.orders[j], db.orders[j].st)
    BY <1>2 DEF SettledEarned, Earns
  <2>1. mem.orders[j].st = "OPEN" \/ j \in Queued
    BY <1>2, <1>7, <1>8 DEF Exists
  <2>2. QED
    BY <1>6, <2>1 DEF CreditIInv, SettledEarned
<1>18. PendingKnown'
  <2> SUFFICES ASSUME NEW s \in Exists(db), db.credits[s].st = "PENDING"
               PROVE  \/ mem'.credits[s].st = "PENDING" \/ mem'.orders[s].st = "OPEN"
                      \/ \E k \in DOMAIN pend' : pend'[k].id = s /\ pend'[k].credit.st = "CANCELLED"
    BY <1>2 DEF PendingKnown
  <2>1. s \in OrderIds
    BY DEF Exists
  <2>2. CASE s = i
    <3>1. db.orders[i].st = "WIN" /\ db.orders[i].st \in Results
      BY <2>1, <2>2 DEF CreditIInv, Provenance, SourceWon, Results
    <3>2. Earns(db.orders[i], result)
      BY <1>2, <1>6, <1>12, <2>2, <3>1 DEF CreditIInv, SettledEarned
    <3>3. credit.st # "NONE"
      BY <1>3, <1>10, <3>2
    <3>4. credit.st \in {"PENDING", "CANCELLED"}
      BY <1>3, <3>3 DEF NoCredit, Held
    <3>5. Len(pend) + 1 \in DOMAIN pend'
      BY <1>8
    <3>6. QED
      BY <1>4, <1>7, <1>8, <2>2, <3>4, <3>5
  <2>3. CASE s # i
    <3>1. \/ mem.credits[s].st = "PENDING" \/ mem.orders[s].st = "OPEN"
          \/ \E k \in DOMAIN pend : pend[k].id = s /\ pend[k].credit.st = "CANCELLED"
      BY <1>2, <1>6 DEF CreditIInv, PendingKnown
    <3>2. \A k \in DOMAIN pend : k \in DOMAIN pend' /\ pend'[k] = pend[k]
      BY <1>8
    <3>3. QED
      BY <1>7, <2>1, <2>3, <3>1, <3>2
  <2>4. QED
    BY <2>2, <2>3
<1>19. ConsumedKnown'
  <2> SUFFICES ASSUME NEW s \in OrderIds, db.credits[s].st = "CONSUMED"
               PROVE  mem'.credits[s] = db.credits[s]
    BY <1>2 DEF ConsumedKnown
  <2>1. mem.credits[s] = db.credits[s]
    BY <1>6 DEF CreditIInv, ConsumedKnown
  <2>2. QED
    BY <1>7, <1>14, <2>1
<1>20. MemoryEarned'
  <2> SUFFICES ASSUME NEW s \in OrderIds, mem'.credits[s].st # "NONE"
               PROVE  mem'.orders[s].st = "WIN"
    BY DEF MemoryEarned
  <2>1. CASE s = i
    BY <1>3, <1>7, <2>1 DEF Earns
  <2>2. CASE s # i
    BY <1>7, <2>2 DEF CreditIInv, MemoryEarned
  <2>3. QED
    BY <2>1, <2>2
<1>21. QueuedKnown'
  <2> SUFFICES ASSUME NEW k \in DOMAIN pend'
               PROVE  /\ mem'.orders[pend'[k].id].st = pend'[k].result
                      /\ mem'.credits[pend'[k].id] = pend'[k].credit
    BY DEF QueuedKnown
  <2>1. CASE k \in DOMAIN pend /\ pend'[k] = pend[k]
    BY <1>2, <1>7, <1>11, <2>1 DEF QueueIInv, JustSettled
  <2>2. CASE pend'[k] = e
    BY <1>4, <1>7, <2>2
  <2>3. QED
    BY <1>9, <2>1, <2>2
<1>22. SavePaid'
  BY <1>2 DEF SavePaid
<1>23. QED
  BY <1>15, <1>16, <1>17, <1>18, <1>19, <1>20, <1>21, <1>22 DEF CreditIInv

LEMMA OpensCredits ==
  ASSUME AgreedInv, QueueIInv, CreditIInv, OpenInMemory
  PROVE  CreditIInv'
<1>1. TypeOK /\ Stages /\ OrdersAgree /\ db \in LedgerType /\ mem \in LedgerType
  BY DEF AgreedInv, Basic, AgreeIInv, TypeOK
<1>2. PICK i \in OrderIds, grants \in BOOLEAN, source \in {0} \cup Eligible(mem, cand.dir, now) :
         LET order == [st |-> "OPEN", dir |-> cand.dir, opened |-> now, grants |-> grants,
                       source |-> source]
         IN  /\ i \notin Exists(mem) /\ order \in Order
             /\ mem' = AddOrder(mem, i, order)
             /\ Exists(mem') = Exists(mem) \cup {i} /\ Newest' = i
  BY <1>1, OpenEffect
<1> DEFINE order == [st |-> "OPEN", dir |-> cand.dir, opened |-> now, grants |-> grants,
                     source |-> source]
<1>3. order \in Order /\ mem' = AddOrder(mem, i, order) /\ order.source = source
      /\ order.st = "OPEN" /\ order.dir = cand.dir
  BY <1>2
<1>4. /\ UNCHANGED <<db, pend, tape, config, runtime, cand>> /\ pend = <<>>
      /\ pc = "gate" /\ pc' = "save" /\ Running /\ Running' /\ now' = now
  BY <1>1 DEF OpenInMemory, disk, Stages, Running, now
<1> HIDE DEF order
<1>5. /\ mem'.orders[i] = order
      /\ \A j \in OrderIds \ {i} : mem'.orders[j] = mem.orders[j]
  BY <1>1, <1>3, AddedOrders
<1>6. /\ \A s \in OrderIds \ {source} : mem'.credits[s] = mem.credits[s]
      /\ source \in OrderIds => mem'.credits[source] = [st |-> "CONSUMED", by |-> i]
  BY <1>1, <1>3, AddedCredits
<1>7. source # 0 => /\ source \in OrderIds /\ source \in Exists(mem)
                    /\ mem.credits[source].st = "PENDING"
                    /\ mem.orders[source].dir = cand.dir /\ Expiry(mem, source) <= now
                    /\ source # i
  BY <1>2 DEF Eligible, Pending, Exists
<1>8. 0 \notin OrderIds
  BY LedgerAssumption DEF OrderIds
<1>9. Exists(mem) = Exists(db) /\ \A j \in Exists(db) : SameOrder(mem.orders[j], db.orders[j])
  BY <1>1, <1>4 DEF OrdersAgree
<1>10. \A s \in OrderIds : mem.credits[s].st # "NONE" => s # i /\ mem.orders[s].st = "WIN"
  BY <1>2 DEF CreditIInv, MemoryEarned, Exists
<1>11. Provenance(db') /\ Plain(db') /\ Plain(mem')
  BY <1>4, <1>6, <1>7 DEF CreditIInv, Plain
<1>12. QueuedCredits' /\ QueuedKnown'
  BY <1>4 DEF QueuedCredits, QueuedKnown
<1>13. SettledEarned'
  <2> SUFFICES ASSUME NEW j \in Exists(db), db.orders[j].st \in Results,
                      mem'.orders[j].st = "OPEN"
               PROVE  db.credits[j].st # "NONE" <=> Earns(db.orders[j], db.orders[j].st)
    BY <1>4 DEF SettledEarned, Earns, Queued
  <2>1. mem.orders[j].st = "OPEN"
    BY <1>2, <1>5, <1>9 DEF Exists
  <2>2. QED
    BY <1>4, <2>1 DEF CreditIInv, SettledEarned
<1>14. PendingKnown'
  <2> SUFFICES ASSUME NEW s \in Exists(db), db.credits[s].st = "PENDING"
               PROVE  \/ mem'.credits[s].st = "PENDING" \/ mem'.orders[s].st = "OPEN"
                      \/ s = mem'.orders[Newest'].source
    BY <1>4 DEF PendingKnown
  <2>1. mem'.orders[Newest'].source = source
    BY <1>2, <1>3, <1>5
  <2>2. mem.credits[s].st = "PENDING" \/ mem.orders[s].st = "OPEN"
    BY <1>4 DEF CreditIInv, PendingKnown
  <2>3. s \in OrderIds /\ s # i
    BY <1>2, <1>9 DEF Exists
  <2>4. QED
    BY <1>5, <1>6, <2>1, <2>2, <2>3
<1>15. ConsumedKnown'
  <2> SUFFICES ASSUME NEW s \in OrderIds, db.credits[s].st = "CONSUMED"
               PROVE  mem'.credits[s] = db.credits[s]
    BY <1>4 DEF ConsumedKnown
  <2>1. mem.credits[s] = db.credits[s]
    BY <1>4 DEF CreditIInv, ConsumedKnown
  <2>2. s # source
    BY <1>7, <1>8, <2>1
  <2>3. QED
    BY <1>6, <2>1, <2>2
<1>16. MemoryEarned'
  <2> SUFFICES ASSUME NEW s \in OrderIds, mem'.credits[s].st # "NONE"
               PROVE  mem'.orders[s].st = "WIN"
    BY DEF MemoryEarned
  <2>1. mem.credits[s].st # "NONE"
    BY <1>6, <1>7, <1>8
  <2>2. QED
    BY <1>5, <1>10, <2>1
<1>17. SavePaid'
  <2> SUFFICES ASSUME source # 0
               PROVE  /\ source \in Exists(db)
                      /\ db.orders[source].dir = cand.dir
                      /\ Expiry(db, source) <= now
                      /\ mem'.credits[source] = [st |-> "CONSUMED", by |-> i]
    BY <1>2, <1>3, <1>4, <1>5 DEF SavePaid, Expiry
  <2>1. QED
    BY <1>6, <1>7, <1>9 DEF SameOrder, Expiry
<1>18. QED
  BY <1>11, <1>12, <1>13, <1>14, <1>15, <1>16, <1>17 DEF CreditIInv
LEMMA SavesCredits ==
  ASSUME AgreedInv, CreditIInv, SaveOpen
  PROVE  CreditIInv'
<1> DEFINE i == Newest
           o == mem.orders[Newest]
<1>1. TypeOK /\ Stages /\ OrdersAgree /\ db \in LedgerType /\ mem \in LedgerType
  BY DEF AgreedInv, Basic, AgreeIInv, TypeOK
<1>2. /\ i \in OrderIds /\ o \in Order /\ db.orders[i].st = "NONE"
      /\ o.source # 0 => db.credits[o.source].st = "PENDING"
      /\ db' = AddOrder(db, i, o)
      /\ UNCHANGED <<tape, mem, pend, config, runtime>>
      /\ pc = "save" /\ pc' = "notify"
  BY <1>1, SaveEffect
<1>3. pend = <<>> /\ o.opened = now /\ Running /\ Running' /\ o.st = "OPEN"
  BY <1>1, <1>2, SavedRow DEF Stages, Running
<1>4. o.source # 0 => /\ o.source \in Exists(db) /\ db.orders[o.source].dir = o.dir
                      /\ Expiry(db, o.source) <= now
                      /\ mem.credits[o.source] = [st |-> "CONSUMED", by |-> i]
  BY <1>2 DEF CreditIInv, SavePaid
<1> HIDE DEF i, o
<1>5. o.source # 0 => o.source \in Eligible(db, o.dir, o.opened)
  BY <1>2, <1>3, <1>4 DEF Eligible, Pending
<1>6. Provenance(db') /\ Plain(db') /\ Plain(mem')
  BY <1>1, <1>2, <1>5, ProvenanceOpens DEF CreditIInv, Exists
<1>7. /\ db'.orders[i] = o /\ Exists(db') = Exists(db) \cup {i}
      /\ \A j \in OrderIds \ {i} : db'.orders[j] = db.orders[j]
  BY <1>1, <1>2, AddedOrders
<1>8. /\ \A s \in OrderIds \ {o.source} : db'.credits[s] = db.credits[s]
      /\ o.source \in OrderIds => db'.credits[o.source] = [st |-> "CONSUMED", by |-> i]
  BY <1>1, <1>2, AddedCredits
<1>9. o.source \in OrderIds \cup {0} /\ 0 \notin OrderIds
  BY <1>2, LedgerAssumption DEF Order, OrderIds
<1>10. QueuedCredits' /\ QueuedKnown'
  BY <1>2, <1>3 DEF QueuedCredits, QueuedKnown
<1>11. SettledEarned'
  <2> SUFFICES ASSUME NEW j \in Exists(db'), db'.orders[j].st \in Results,
                      mem.orders[j].st = "OPEN"
               PROVE  db'.credits[j].st # "NONE" <=> Earns(db'.orders[j], db'.orders[j].st)
    BY <1>2, <1>3 DEF SettledEarned, Earns, Queued
  <2>1. j # i /\ j \in Exists(db) /\ j \in OrderIds /\ db'.orders[j] = db.orders[j]
    BY <1>3, <1>7 DEF Results, Exists
  <2>2. db.credits[j].st # "NONE" <=> Earns(db.orders[j], db.orders[j].st)
    BY <1>3, <2>1 DEF CreditIInv, SettledEarned
  <2>3. db'.credits[j].st # "NONE" <=> db.credits[j].st # "NONE"
    BY <1>2, <1>8, <1>9, <2>1
  <2>4. QED
    BY <2>1, <2>2, <2>3
<1>12. PendingKnown'
  <2> SUFFICES ASSUME NEW s \in Exists(db'), db'.credits[s].st = "PENDING"
               PROVE  mem.credits[s].st = "PENDING" \/ mem.orders[s].st = "OPEN"
    BY <1>2 DEF PendingKnown
  <2>1. s \in OrderIds
    BY DEF Exists
  <2>2. s # o.source
    BY <1>8, <2>1
  <2>3. CASE s = i
    BY <1>3, <2>3 DEF i, o
  <2>4. CASE s # i
    <3>1. s \in Exists(db) /\ db.credits[s].st = "PENDING"
      BY <1>7, <1>8, <2>1, <2>2, <2>4
    <3>2. QED
      BY <1>2, <1>3, <2>2, <3>1 DEF CreditIInv, PendingKnown, o
  <2>5. QED
    BY <2>3, <2>4
<1>13. ConsumedKnown'
  <2> SUFFICES ASSUME NEW s \in OrderIds, db'.credits[s].st = "CONSUMED"
               PROVE  mem.credits[s] = db'.credits[s]
    BY <1>2 DEF ConsumedKnown
  <2>1. CASE s = o.source
    BY <1>4, <1>8, <1>9, <2>1
  <2>2. CASE s # o.source
    BY <1>3, <1>8, <2>2 DEF CreditIInv, ConsumedKnown
  <2>3. QED
    BY <2>1, <2>2
<1>14. MemoryEarned' /\ SavePaid'
  BY <1>2 DEF CreditIInv, MemoryEarned, SavePaid
<1>15. QED
  BY <1>6, <1>10, <1>11, <1>12, <1>13, <1>14 DEF CreditIInv

LEMMA ReturnsCredits ==
  ASSUME AgreedInv, CreditIInv, Returns
  PROVE  CreditIInv'
<1> DEFINE i == Newest
           o == mem.orders[Newest]
<1>1. TypeOK /\ Stages /\ OrdersAgree /\ BeingOpened /\ db \in LedgerType /\ mem \in LedgerType
  BY DEF AgreedInv, Basic, AgreeIInv, TypeOK
<1>2. /\ mem' = RemoveOrder(mem, i) /\ UNCHANGED <<tape, db, pend, config, runtime>>
      /\ pc = "save" /\ pc' = "idle" /\ pend = <<>> /\ Running /\ Running'
  BY <1>1 DEF Returns, Stages, Running
<1>3. i \in Exists(mem) /\ i \in OrderIds /\ o.st = "OPEN"
  BY <1>1, <1>2, NewestExists DEF Stages, Exists, BeingOpened
<1>4. i \notin Exists(db)
  BY <1>1, <1>2, <1>3, LedgerAssumption DEF OrdersAgree, OrderIds
<1>5. /\ mem'.orders[i] = NoOrder
      /\ \A j \in OrderIds \ {i} : mem'.orders[j] = mem.orders[j]
      /\ \A r \in OrderIds \ {o.source} : mem'.credits[r] = mem.credits[r]
      /\ o.source # 0 => o.source \in OrderIds /\ mem'.credits[o.source] = Held("PENDING")
  BY <1>1, <1>2, <1>3, RemoveEffect
<1>6. o.source # 0 => mem.credits[o.source] = [st |-> "CONSUMED", by |-> i]
  BY <1>2 DEF CreditIInv, SavePaid
<1> HIDE DEF i, o
<1>7. Held("PENDING").st = "PENDING" /\ Held("PENDING").by = 0 /\ 0 \notin OrderIds
  BY LedgerAssumption DEF Held, OrderIds
<1>8. \A s \in OrderIds : mem.credits[s].st # "NONE" => s # i /\ mem.orders[s].st = "WIN"
  BY <1>3 DEF CreditIInv, MemoryEarned, o, i
<1>9. Provenance(db') /\ Plain(db') /\ Plain(mem')
  <2>1. Plain(mem')
    <3> SUFFICES ASSUME NEW s \in OrderIds, mem'.credits[s].st # "CONSUMED"
                 PROVE  mem'.credits[s].by = 0
      BY DEF Plain
    <3>1. CASE s = o.source
      BY <1>5, <1>7, <3>1
    <3>2. CASE s # o.source
      BY <1>5, <3>2 DEF CreditIInv, Plain
    <3>3. QED
      BY <3>1, <3>2
  <2>2. QED
    BY <1>2, <2>1 DEF CreditIInv
<1>10. QueuedCredits' /\ QueuedKnown'
  BY <1>2 DEF QueuedCredits, QueuedKnown
<1>11. SettledEarned'
  <2> SUFFICES ASSUME NEW j \in Exists(db), db.orders[j].st \in Results,
                      mem'.orders[j].st = "OPEN"
               PROVE  db.credits[j].st # "NONE" <=> Earns(db.orders[j], db.orders[j].st)
    BY <1>2 DEF SettledEarned, Earns, Queued
  <2>1. mem.orders[j].st = "OPEN"
    BY <1>4, <1>5 DEF Exists
  <2>2. QED
    BY <1>2, <2>1 DEF CreditIInv, SettledEarned
<1>12. PendingKnown'
  <2> SUFFICES ASSUME NEW s \in Exists(db), db.credits[s].st = "PENDING"
               PROVE  mem'.credits[s].st = "PENDING" \/ mem'.orders[s].st = "OPEN"
    BY <1>2 DEF PendingKnown
  <2>1. s \in OrderIds /\ s # i
    BY <1>4 DEF Exists
  <2>2. mem.credits[s].st = "PENDING" \/ mem.orders[s].st = "OPEN" \/ s = o.source
    BY <1>2 DEF CreditIInv, PendingKnown, o
  <2>3. CASE s = o.source
    BY <1>5, <1>7, <2>1, <2>3
  <2>4. CASE s # o.source
    BY <1>5, <2>1, <2>2, <2>4
  <2>5. QED
    BY <2>3, <2>4
<1>13. ConsumedKnown'
  <2> SUFFICES ASSUME NEW s \in OrderIds, db.credits[s].st = "CONSUMED"
               PROVE  mem'.credits[s] = db.credits[s]
    BY <1>2 DEF ConsumedKnown
  <2>1. mem.credits[s] = db.credits[s] /\ db.credits[s].by \in Exists(db)
    BY <1>2 DEF CreditIInv, ConsumedKnown, Provenance, ConsumedWell
  <2>2. s # o.source
    BY <1>4, <1>6, <1>7, <2>1
  <2>3. QED
    BY <1>5, <2>1, <2>2
<1>14. MemoryEarned'
  <2> SUFFICES ASSUME NEW s \in OrderIds, mem'.credits[s].st # "NONE"
               PROVE  mem'.orders[s].st = "WIN"
    BY DEF MemoryEarned
  <2>1. mem.credits[s].st # "NONE"
    BY <1>5, <1>6, <1>7
  <2>2. QED
    BY <1>5, <1>8, <2>1
<1>15. SavePaid'
  BY <1>2 DEF SavePaid
<1>16. QED
  BY <1>9, <1>10, <1>11, <1>12, <1>13, <1>14, <1>15 DEF CreditIInv

LEMMA StepCredits ==
  AgreedInv /\ ResultsRight /\ QueueIInv /\ CreditIInv /\ [Next]_vars => CreditIInv'
<1> SUFFICES ASSUME AgreedInv, ResultsRight, QueueIInv, CreditIInv, [Next]_vars
             PROVE  CreditIInv'
  OBVIOUS
<1>1. TypeOK
  BY DEF AgreedInv, Basic
<1>2. CASE Tick
  <2>1. /\ UNCHANGED <<db, mem, pend, config, runtime>> /\ (Running' => Running)
        /\ pc # "save" /\ pc' # "save"
    BY <1>2 DEF Tick, process, Running
  <2>2. QED
    BY <2>1, CreditsFrame
<1>3. CASE Quiet
  <2>1. UNCHANGED <<db, mem, pend, config, runtime>> /\ now' = now
    BY <1>3 DEF Quiet, now
  <2>2. (Running' => Running) /\ (pc' = "save" <=> pc = "save")
    BY <1>3 DEF Quiet, Running, SettlementStage
  <2>3. QED
    BY <2>1, <2>2, CreditsFrame
<1>4. ASSUME NEW S \in SUBSET AllPending(mem), Cancels(S) PROVE CreditIInv'
  BY <1>4, CancelsCredits
<1>5. QED
  BY <1>1, <1>2, <1>3, <1>4, StepKinds, ForgetsCredits, PreparesCredits, LoadsCredits,
     FlushesCredits, SettlesCredits, OpensCredits, SavesCredits, ReturnsCredits

\* The inductive invariant of rows, results, queue and credits.
LedgerInv == AgreedInv /\ ResultsRight /\ QueueIInv /\ CreditIInv

LEMMA InitLedger == Init => LedgerInv
<1>1. Init => ResultsRight
  BY EmptyTypes DEF Init, ResultsRight, RowRight, EmptyLedger, NoOrder, Results
<1>2. Init => QueueIInv
  BY EmptyTypes DEF Init, QueueIInv, OpenKnown, QueueOrdered, JustSettled, Running
<1>3. QED
  BY <1>1, <1>2, InitAgreed, InitCredits DEF LedgerInv

LEMMA StepLedger == LedgerInv /\ [Next]_vars => LedgerInv'
BY StepAgreed, StepResults, StepQueue, StepCredits DEF LedgerInv
-----------------------------------------------------------------------------
(* Room for what is queued and for what is saved *)

\* Order ids are finitely many, and a part of a set of them is no larger.
LEMMA FewerIds ==
  ASSUME NEW S \in SUBSET OrderIds, NEW T \in SUBSET S
  PROVE  /\ IsFiniteSet(S) /\ IsFiniteSet(T)
         /\ Cardinality(T) \in Nat /\ Cardinality(S) \in Nat
         /\ Cardinality(T) <= Cardinality(S)
<1>1. IsFiniteSet(OrderIds)
  BY LedgerAssumption, FS_Interval DEF OrderIds
<1>2. IsFiniteSet(S)
  BY <1>1, FS_Subset
<1>3. IsFiniteSet(T)
  BY <1>2, FS_Subset
<1>4. QED
  BY <1>2, <1>3, FS_Subset, FS_CardinalityType

\* What will be reserved in direction d when the first k - 1 settlements of
\* the queue q are written to L.
ReservedBefore(L, q, k, d) ==
    {s \in Exists(L) :
        /\ L.orders[s].dir = d
        /\ \/ /\ L.credits[s].st = "PENDING"
              /\ ~\E m \in 1..(k - 1) : q[m].id = s /\ q[m].credit.st = "CANCELLED"
           \/ /\ L.credits[s].st = "CONSUMED" /\ L.credits[s].by \in Open(L)
              /\ ~\E m \in 1..(k - 1) : q[m].id = L.credits[s].by
           \/ /\ L.credits[s].st = "NONE"
              /\ \E m \in 1..(k - 1) : q[m].id = s /\ q[m].credit.st = "PENDING"}

\* A credit that is to wait finds room when its turn comes.
QueueRoom ==
    \A k \in DOMAIN pend :
        pend[k].credit.st = "PENDING" /\ db.orders[pend[k].id].st = "OPEN" =>
            Cardinality(ReservedBefore(db, pend, k, db.orders[pend[k].id].dir))
                < config.maxActive

SaveRoom ==
    pc = "save" =>
        /\ Cardinality(Open(mem) \ {Newest}) < MaxOpen
        /\ Cardinality(OpenIn(mem, cand.dir) \ {Newest}) < DirLimit(cand.dir)

\* A step leaves the orders and the credits of the disk alone, withdraws
\* waiting credits, saves an order, or writes a settlement.
LEMMA DiskSteps ==
  ASSUME LedgerInv, [Next]_vars
  PROVE  \/ db' = db
         \/ \E S \in SUBSET AllPending(db) : db' = CancelCredits(db, S)
         \/ SaveOpen
         \/ Flushes
<1>1. TypeOK /\ AgreedInv /\ CreditIInv
  BY DEF LedgerInv, AgreedInv, Basic
<1>2. CASE Tick \/ Quiet \/ Forgets \/ OpenInMemory \/ Returns \/ SettleInMemory
  BY <1>2 DEF Tick, Quiet, Forgets, OpenInMemory, Returns, SettleInMemory, disk
<1>3. CASE Prepares
  BY <1>1, <1>3, PrepareEffect
<1>4. CASE Loads
  BY <1>1, <1>4, RestoredEffect DEF Loads
<1>5. ASSUME NEW S \in SUBSET AllPending(mem), Cancels(S)
      PROVE  \E T \in SUBSET AllPending(db) : db' = CancelCredits(db, T)
  BY <1>1, <1>5, CancelsCredits
<1>6. QED
  BY <1>1, <1>2, <1>3, <1>4, <1>5, StepKinds

LEMMA WithdrawsReserved ==
  ASSUME NEW L \in LedgerType, NEW S \in SUBSET AllPending(L), NEW q, NEW k, NEW d
  PROVE  ReservedBefore(CancelCredits(L, S), q, k, d) \subseteq ReservedBefore(L, q, k, d)
<1> DEFINE M == CancelCredits(L, S)
<1>1. S \in SUBSET OrderIds
  BY DEF AllPending
<1>2. /\ M.orders = L.orders /\ Exists(M) = Exists(L) /\ Open(M) = Open(L)
      /\ \A s \in OrderIds \ S : M.credits[s] = L.credits[s]
      /\ \A s \in S : M.credits[s] = Held("CANCELLED")
  BY <1>1, CancelEffect
<1>3. Held("CANCELLED").st = "CANCELLED"
  BY DEF Held
<1> HIDE DEF M
<1>4. ReservedBefore(M, q, k, d) \subseteq ReservedBefore(L, q, k, d)
  <2> SUFFICES ASSUME NEW s \in ReservedBefore(M, q, k, d)
               PROVE  s \in ReservedBefore(L, q, k, d)
    OBVIOUS
  <2>1. s \in Exists(L) /\ s \in OrderIds /\ s \notin S
    BY <1>2, <1>3 DEF ReservedBefore, Exists
  <2>2. M.credits[s] = L.credits[s]
    BY <1>2, <2>1
  <2>3. QED
    BY <1>2, <2>1, <2>2 DEF ReservedBefore
<1>5. QED
  BY <1>4 DEF M

\* Writing the head moves the queue up and reserves nothing that was not
\* foreseen.
LEMMA FlushReserved ==
  ASSUME AgreedInv, CreditIInv, pend # <<>>, FlushHead, NEW k \in DOMAIN pend', NEW d
  PROVE  ReservedBefore(db', pend', k, d) \subseteq ReservedBefore(db, pend, k + 1, d)
<1> DEFINE e == Head(pend)
<1>1. TypeOK /\ db \in LedgerType /\ pend \in Seq(Settlements)
  BY DEF AgreedInv, Basic, TypeOK
<1>2. /\ e = pend[1] /\ e.id \in OrderIds /\ pend' = Tail(pend)
      /\ \A j \in OrderIds \ {e.id} : db'.credits[j] = db.credits[j]
      /\ \A j \in OrderIds : SameOrder(db'.orders[j], db.orders[j])
      /\ Exists(db') = Exists(db) /\ Open(db') = Open(db) \ {e.id}
  BY <1>1, FlushEffect
<1>3. /\ DOMAIN pend' = 1..Len(pend') /\ DOMAIN pend = 1..Len(pend)
      /\ Len(pend) \in Nat
      /\ \A m \in 1..Len(pend') : m + 1 \in 1..Len(pend) /\ pend'[m] = pend[m + 1]
  BY <1>1, <1>2, HeadTypes
<1>4. /\ e.credit \in {NoCredit, Held("PENDING"), Held("CANCELLED")}
      /\ \/ db.credits[e.id] = NoCredit /\ db'.credits[e.id] = e.credit
         \/ /\ db' = db
            /\ e.credit = Held("CANCELLED") => db.credits[e.id].st # "PENDING"
         \/ /\ db.credits[e.id].st = "PENDING" /\ e.credit = Held("CANCELLED")
            /\ db'.credits[e.id] = e.credit
  BY FlushKinds
<1>5. NoCredit.st = "NONE" /\ Held("PENDING").st = "PENDING" /\ Held("CANCELLED").st = "CANCELLED"
  BY DEF NoCredit, Held
<1>6. k \in 1..Len(pend') /\ k \in Nat /\ (k + 1) - 1 = k /\ 1 \in 1..k
  BY <1>3
<1>7. \A m \in 1..(k - 1) : m + 1 \in 1..k /\ pend'[m] = pend[m + 1]
  BY <1>3, <1>6
<1>8. \A m \in 1..k : m = 1 \/ (m - 1 \in 1..(k - 1) /\ pend'[m - 1] = pend[m])
  <2> SUFFICES ASSUME NEW m \in 1..k, m # 1
               PROVE  m - 1 \in 1..(k - 1) /\ pend'[m - 1] = pend[m]
    OBVIOUS
  <2>1. m - 1 \in 1..(k - 1) /\ (m - 1) + 1 = m
    BY <1>6
  <2>2. QED
    BY <1>7, <2>1
<1> HIDE DEF e
<1> SUFFICES ASSUME NEW s \in ReservedBefore(db', pend', k, d)
             PROVE  s \in ReservedBefore(db, pend, k + 1, d)
  OBVIOUS
<1>9. s \in Exists(db) /\ s \in OrderIds /\ db.orders[s].dir = d
  BY <1>2 DEF ReservedBefore, Exists, SameOrder
<1>10. CASE /\ db'.credits[s].st = "PENDING"
            /\ ~\E m \in 1..(k - 1) : pend'[m].id = s /\ pend'[m].credit.st = "CANCELLED"
  <2>1. CASE db.credits[s].st = "PENDING" /\ ~(s = e.id /\ e.credit.st = "CANCELLED")
    <3>1. ~\E m \in 1..k : pend[m].id = s /\ pend[m].credit.st = "CANCELLED"
      BY <1>2, <1>8, <1>10, <2>1
    <3>2. QED
      BY <1>6, <1>9, <2>1, <3>1 DEF ReservedBefore
  <2>2. CASE s = e.id /\ db.credits[s] = NoCredit /\ e.credit = Held("PENDING")
    BY <1>2, <1>5, <1>6, <1>9, <2>2 DEF ReservedBefore
  <2>3. QED
    BY <1>2, <1>4, <1>5, <1>9, <1>10, <2>1, <2>2
<1>11. CASE /\ db'.credits[s].st = "CONSUMED" /\ db'.credits[s].by \in Open(db')
            /\ ~\E m \in 1..(k - 1) : pend'[m].id = db'.credits[s].by
  <2>1. db'.credits[s] = db.credits[s]
    BY <1>2, <1>4, <1>5, <1>9, <1>11
  <2>2. db.credits[s].by \in Open(db) /\ db.credits[s].by # e.id
    BY <1>2, <1>11, <2>1
  <2>3. ~\E m \in 1..k : pend[m].id = db.credits[s].by
    BY <1>2, <1>8, <1>11, <2>1, <2>2
  <2>4. QED
    BY <1>6, <1>9, <1>11, <2>1, <2>2, <2>3 DEF ReservedBefore
<1>12. CASE /\ db'.credits[s].st = "NONE"
            /\ \E m \in 1..(k - 1) : pend'[m].id = s /\ pend'[m].credit.st = "PENDING"
  <2>1. db.credits[s].st = "NONE"
    BY <1>2, <1>4, <1>5, <1>9, <1>12
  <2>2. \E m \in 1..k : pend[m].id = s /\ pend[m].credit.st = "PENDING"
    BY <1>7, <1>12
  <2>3. QED
    BY <1>6, <1>9, <2>1, <2>2 DEF ReservedBefore
<1>13. QED
  BY <1>10, <1>11, <1>12 DEF ReservedBefore

\* While orders are settled, memory reserves all that the disk will.
LEMMA SettlingReserved ==
  ASSUME LedgerInv, pc = "settle", NEW i \in Due, \A j \in Due : i <= j, db.orders[i].st = "OPEN",
         NEW q, \A k \in 1..Len(pend) : q[k] = pend[k], NEW d
  PROVE  ReservedBefore(db, q, Len(pend) + 1, d) \subseteq Reserved(mem, d)
<1>1. /\ TypeOK /\ AgreedInv /\ CreditIInv /\ OrdersAgree /\ db \in LedgerType
      /\ mem \in LedgerType
  BY DEF LedgerInv, AgreedInv, Basic, AgreeIInv, TypeOK
<1>2. Running /\ Exists(mem) = Exists(db) /\ \A j \in Exists(db) : SameOrder(mem.orders[j], db.orders[j])
  BY <1>1 DEF OrdersAgree, Running
<1>3. DOMAIN pend = 1..Len(pend) /\ Len(pend) \in Nat
  BY <1>1, QueuedAreKnown
<1>4. (Len(pend) + 1) - 1 = Len(pend)
  BY <1>3
<1> SUFFICES ASSUME NEW s \in ReservedBefore(db, q, Len(pend) + 1, d)
             PROVE  s \in Reserved(mem, d)
  OBVIOUS
<1>5. s \in Exists(mem) /\ s \in Exists(db) /\ s \in OrderIds /\ mem.orders[s].dir = d
  BY <1>2 DEF ReservedBefore, Exists, SameOrder
<1>6. CASE /\ db.credits[s].st = "PENDING"
           /\ ~\E m \in 1..Len(pend) : q[m].id = s /\ q[m].credit.st = "CANCELLED"
  <2>1. ~\E k \in DOMAIN pend : pend[k].id = s /\ pend[k].credit.st = "CANCELLED"
    BY <1>3, <1>6
  <2>2. mem.credits[s].st = "PENDING" \/ mem.orders[s].st = "OPEN"
    BY <1>1, <1>2, <1>5, <1>6, <2>1 DEF CreditIInv, PendingKnown
  <2>3. CASE mem.orders[s].st = "OPEN"
    <3>1. db.orders[s].st = "WIN" /\ db.orders[s].st \in Results
      BY <1>1, <1>5, <1>6 DEF CreditIInv, Provenance, SourceWon, Results
    <3>2. Expiry(db, s) <= now
      BY <1>5, <3>1 DEF LedgerInv, ResultsRight, RowRight, RightOn, Expiry, now
    <3>3. s \in Due
      BY <1>2, <1>5, <2>3, <3>2 DEF Due, Open, Expiry, SameOrder
    <3>4. i \in Exists(db) /\ i # s
      BY <1>2, <3>1 DEF Due, Open, Exists
    <3>5. i < s
      BY <1>5, <3>3, <3>4, LedgerAssumption DEF Exists, OrderIds
    <3>6. db.orders[i].st \in Results
      BY <1>5, <3>1, <3>4, <3>5 DEF LedgerInv, QueueIInv, QueueOrdered
    <3>7. QED
      BY <3>6 DEF Results
  <2>4. CASE mem.credits[s].st = "PENDING"
    BY <1>5, <2>4 DEF Reserved, Pending
  <2>5. QED
    BY <2>2, <2>3, <2>4
<1>7. CASE /\ db.credits[s].st = "CONSUMED" /\ db.credits[s].by \in Open(db)
           /\ ~\E m \in 1..Len(pend) : q[m].id = db.credits[s].by
  <2>1. mem.credits[s] = db.credits[s]
    BY <1>1, <1>2, <1>5, <1>7 DEF CreditIInv, ConsumedKnown
  <2>2. db.credits[s].by \notin Queued
    BY <1>3, <1>7 DEF Queued
  <2>3. db.credits[s].by \in Open(mem)
    BY <1>2, <1>7, <2>2 DEF LedgerInv, QueueIInv, OpenKnown
  <2>4. QED
    BY <1>5, <1>7, <2>1, <2>3 DEF Reserved, Active
<1>8. CASE /\ db.credits[s].st = "NONE"
           /\ \E m \in 1..Len(pend) : q[m].id = s /\ q[m].credit.st = "PENDING"
  <2>1. PICK m \in DOMAIN pend : pend[m].id = s /\ pend[m].credit.st = "PENDING"
    BY <1>3, <1>8
  <2>2. mem.credits[s].st = "PENDING"
    BY <2>1 DEF LedgerInv, QueueIInv, JustSettled
  <2>3. QED
    BY <1>5, <2>2 DEF Reserved, Pending
<1>9. QED
  BY <1>4, <1>6, <1>7, <1>8 DEF ReservedBefore
LEMMA ReservedIsIds ==
  ASSUME NEW L, NEW q, NEW k, NEW d
  PROVE  ReservedBefore(L, q, k, d) \in SUBSET OrderIds
BY DEF ReservedBefore, Exists

LEMMA RoomStays ==
  ASSUME LedgerInv, QueueRoom, pend' = pend, UNCHANGED config,
         db' = db \/ \E S \in SUBSET AllPending(db) : db' = CancelCredits(db, S)
  PROVE  QueueRoom'
<1>1. db \in LedgerType /\ config.maxActive \in Nat
  BY DEF LedgerInv, AgreedInv, Basic, TypeOK, Configs
<1>2. PICK S \in SUBSET AllPending(db) : db' = db \/ db' = CancelCredits(db, S)
  OBVIOUS
<1>3. S \in SUBSET OrderIds
  BY DEF AllPending
<1>4. db'.orders = db.orders
  BY <1>1, <1>2, <1>3, CancelEffect
<1>5. SUFFICES ASSUME NEW k \in DOMAIN pend, pend[k].credit.st = "PENDING",
                      db.orders[pend[k].id].st = "OPEN"
               PROVE  Cardinality(ReservedBefore(db', pend, k, db.orders[pend[k].id].dir))
                          < config.maxActive
  BY <1>4 DEF QueueRoom
<1> DEFINE d == db.orders[pend[k].id].dir
           A == ReservedBefore(db, pend, k, d)
           B == ReservedBefore(db', pend, k, d)
<1>6. B \subseteq A
  BY <1>1, <1>2, WithdrawsReserved
<1>7. A \in SUBSET OrderIds /\ B \in SUBSET A
  BY <1>6, ReservedIsIds
<1>8. Cardinality(A) < config.maxActive
  BY <1>5 DEF QueueRoom
<1> HIDE DEF A, B
<1>9. Cardinality(A) \in Nat /\ Cardinality(B) \in Nat /\ Cardinality(B) <= Cardinality(A)
  BY <1>7, FewerIds
<1>10. Cardinality(B) < config.maxActive
  BY <1>1, <1>8, <1>9
<1>11. QED
  BY <1>10 DEF B

LEMMA FlushesRoom ==
  ASSUME LedgerInv, QueueRoom, Flushes
  PROVE  QueueRoom'
<1> DEFINE e == Head(pend)
<1>1. /\ TypeOK /\ Stages /\ AgreedInv /\ CreditIInv /\ db \in LedgerType
      /\ pend \in Seq(Settlements) /\ config.maxActive \in Nat
  BY DEF LedgerInv, AgreedInv, Basic, TypeOK, Configs
<1>2. pend # <<>> /\ FlushHead /\ config' = config
  BY <1>1 DEF Flushes, Stages
<1>3. /\ pend' = Tail(pend) /\ Open(db') = Open(db) \ {e.id}
      /\ \A j \in OrderIds : SameOrder(db'.orders[j], db.orders[j])
  BY <1>1, <1>2, FlushEffect
<1>4. /\ DOMAIN pend' = 1..Len(pend') /\ DOMAIN pend = 1..Len(pend)
      /\ Len(pend) \in Nat
      /\ \A m \in 1..Len(pend') : m + 1 \in 1..Len(pend) /\ pend'[m] = pend[m + 1]
  BY <1>1, <1>2, <1>3, HeadTypes
<1> HIDE DEF e
<1>5. SUFFICES ASSUME NEW k \in DOMAIN pend', pend'[k].credit.st = "PENDING",
                      db'.orders[pend'[k].id].st = "OPEN"
               PROVE  Cardinality(ReservedBefore(db', pend', k, db'.orders[pend'[k].id].dir))
                          < config.maxActive
  BY <1>2 DEF QueueRoom
<1>6. k + 1 \in DOMAIN pend /\ pend'[k] = pend[k + 1] /\ pend[k + 1].id \in OrderIds
  <2>1. k + 1 \in DOMAIN pend /\ pend'[k] = pend[k + 1]
    BY <1>4
  <2>2. QED
    BY <1>1, <2>1, QueuedAreKnown DEF Exists
<1>7. db.orders[pend[k + 1].id].st = "OPEN"
      /\ db'.orders[pend'[k].id].dir = db.orders[pend[k + 1].id].dir
  <2>1. pend[k + 1].id \in Open(db')
    BY <1>5, <1>6 DEF Open
  <2>2. QED
    BY <1>3, <1>6, <2>1 DEF Open, SameOrder
<1> DEFINE d == db.orders[pend[k + 1].id].dir
           A == ReservedBefore(db, pend, k + 1, d)
           B == ReservedBefore(db', pend', k, d)
<1>8. B \subseteq A
  BY <1>1, <1>2, FlushReserved
<1>9. A \in SUBSET OrderIds /\ B \in SUBSET A
  BY <1>8, ReservedIsIds
<1>10. Cardinality(A) < config.maxActive
  BY <1>5, <1>6, <1>7 DEF QueueRoom
<1> HIDE DEF A, B
<1>11. Cardinality(A) \in Nat /\ Cardinality(B) \in Nat /\ Cardinality(B) <= Cardinality(A)
  BY <1>9, FewerIds
<1>12. Cardinality(B) < config.maxActive
  BY <1>1, <1>10, <1>11
<1>13. QED
  BY <1>7, <1>12 DEF B

LEMMA SettlesRoom ==
  ASSUME LedgerInv, QueueRoom, SettleInMemory
  PROVE  QueueRoom'
<1>1. /\ TypeOK /\ AgreedInv /\ CreditIInv /\ OrdersAgree /\ mem \in LedgerType
      /\ pend \in Seq(Settlements) /\ config.maxActive \in Nat
  BY DEF LedgerInv, AgreedInv, Basic, AgreeIInv, TypeOK, Configs
<1>2. PICK i \in Due :
         LET result == Result(mem.orders[i])
             credit == Earned(mem, i, result, config.enabled, runtime.activated,
                              config.maxActive)
         IN  /\ \A j \in Due : i <= j
             /\ i \in OrderIds /\ mem.orders[i].st = "OPEN" /\ mem.orders[i] \in Order
             /\ pend' = Append(pend, [id |-> i, result |-> result, credit |-> credit])
             /\ [id |-> i, result |-> result, credit |-> credit] \in Settlements
             /\ UNCHANGED <<tape, db, config, runtime, pc>> /\ pc = "settle"
  BY <1>1, SettleEffect
<1> DEFINE result == Result(mem.orders[i])
           credit == Earned(mem, i, result, config.enabled, runtime.activated,
                            config.maxActive)
           e == [id |-> i, result |-> result, credit |-> credit]
<1>3. credit.st = "PENDING" =>
         ~(Cardinality(Reserved(mem, mem.orders[i].dir)) >= config.maxActive)
  BY <1>1, <1>2, SettlingEarns
<1>4. pend' = Append(pend, e) /\ e \in Settlements /\ e.id = i /\ e.credit = credit
  BY <1>2
<1>5. Running /\ i \in Exists(db) /\ SameOrder(mem.orders[i], db.orders[i])
  <2>1. i \in Exists(mem)
    BY <1>2 DEF Exists
  <2>2. QED
    BY <1>1, <1>2, <2>1 DEF OrdersAgree, Running
<1> HIDE DEF result, credit, e
<1>6. /\ DOMAIN pend = 1..Len(pend) /\ DOMAIN pend' = 1..(Len(pend) + 1)
      /\ \A k \in DOMAIN pend : pend'[k] = pend[k]
      /\ pend'[Len(pend) + 1] = e /\ Len(pend) \in Nat
  BY <1>1, <1>4, SettleQueue
<1>7. SUFFICES ASSUME NEW k \in DOMAIN pend', pend'[k].credit.st = "PENDING",
                      db.orders[pend'[k].id].st = "OPEN"
               PROVE  Cardinality(ReservedBefore(db, pend', k, db.orders[pend'[k].id].dir))
                          < config.maxActive
  BY <1>2 DEF QueueRoom
<1>8. CASE k \in DOMAIN pend
  <2>1. pend'[k] = pend[k] /\ \A m \in 1..(k - 1) : pend'[m] = pend[m]
    BY <1>6, <1>8
  <2>2. ReservedBefore(db, pend', k, db.orders[pend[k].id].dir)
          = ReservedBefore(db, pend, k, db.orders[pend[k].id].dir)
    BY <2>1 DEF ReservedBefore
  <2>3. QED
    BY <1>7, <1>8, <2>1, <2>2 DEF QueueRoom
<1>9. CASE k = Len(pend) + 1
  <2> DEFINE d == mem.orders[i].dir
             A == Reserved(mem, d)
             B == ReservedBefore(db, pend', Len(pend) + 1, d)
  <2>1. db.orders[i].st = "OPEN" /\ credit.st = "PENDING" /\ db.orders[pend'[k].id].dir = d
    BY <1>4, <1>5, <1>6, <1>7, <1>9 DEF SameOrder
  <2>2. \A m \in 1..Len(pend) : pend'[m] = pend[m]
    BY <1>6
  <2>3. B \subseteq A
    BY <1>2, <2>1, <2>2, SettlingReserved
  <2>4. A \in SUBSET OrderIds /\ B \in SUBSET A
    BY <2>3 DEF Reserved, Pending, Active, Exists
  <2>5. ~(Cardinality(A) >= config.maxActive)
    BY <1>3, <2>1
  <2> HIDE DEF A, B
  <2>6. Cardinality(A) \in Nat /\ Cardinality(B) \in Nat /\ Cardinality(B) <= Cardinality(A)
    BY <2>4, FewerIds
  <2>7. Cardinality(B) < config.maxActive
    BY <1>1, <2>5, <2>6
  <2>8. QED
    BY <1>9, <2>1, <2>7 DEF B
<1>10. QED
  BY <1>6, <1>8, <1>9
LEMMA OpensRoom ==
  ASSUME LedgerInv, OpenInMemory
  PROVE  SaveRoom'
<1>1. TypeOK /\ Stages /\ mem \in LedgerType
  BY DEF LedgerInv, AgreedInv, Basic, TypeOK
<1>2. PICK i \in OrderIds, grants \in BOOLEAN, source \in {0} \cup Eligible(mem, cand.dir, now) :
         LET order == [st |-> "OPEN", dir |-> cand.dir, opened |-> now, grants |-> grants,
                       source |-> source]
         IN  /\ i \notin Exists(mem) /\ order \in Order
             /\ mem' = AddOrder(mem, i, order) /\ Newest' = i
  BY <1>1, OpenEffect
<1>3. PolicyAllows(cand.dir) /\ cand' = cand
  BY DEF OpenInMemory
<1>4. \A j \in OrderIds \ {i} : mem'.orders[j] = mem.orders[j]
  BY <1>1, <1>2, AddedOrders
<1>5. Open(mem') \ {i} = Open(mem) /\ OpenIn(mem', cand.dir) \ {i} = OpenIn(mem, cand.dir)
  <2>1. i \notin Open(mem)
    BY <1>2 DEF Exists, Open
  <2>2. QED
    BY <1>4, <2>1 DEF Open, OpenIn
<1>6. QED
  BY <1>2, <1>3, <1>5 DEF SaveRoom, PolicyAllows

RoomInv == LedgerInv /\ QueueRoom /\ SaveRoom

LEMMA InitRoom == Init => RoomInv
BY InitLedger DEF RoomInv, Init, QueueRoom, SaveRoom

LEMMA StepRoom == RoomInv /\ [Next]_vars => RoomInv'
<1> SUFFICES ASSUME LedgerInv, QueueRoom, SaveRoom, [Next]_vars PROVE QueueRoom' /\ SaveRoom'
  BY StepLedger DEF RoomInv
<1>1. TypeOK /\ Stages /\ CreditIInv /\ AgreedInv
  BY DEF LedgerInv, AgreedInv, Basic
<1>2. CASE Tick
  <2>1. UNCHANGED <<db, pend, config>> /\ pc' # "save"
    BY <1>2 DEF Tick, process
  <2>2. QED
    BY <2>1, RoomStays DEF SaveRoom
<1>3. CASE Quiet
  <2>1. UNCHANGED <<db, mem, pend, config>> /\ (pc' = "save" => pc = "save" /\ cand' = cand)
    BY <1>3 DEF Quiet, SettlementStage
  <2>2. SaveRoom'
    BY <2>1 DEF SaveRoom, Newest
  <2>3. QED
    BY <2>1, <2>2, RoomStays
<1>4. CASE Forgets
  <2>1. UNCHANGED <<db, config>> /\ pc' # "save" /\ (pend' = pend \/ pend' = <<>>)
    BY <1>4 DEF Forgets
  <2>2. CASE pend' = pend
    BY <2>1, <2>2, RoomStays DEF SaveRoom
  <2>3. CASE pend' = <<>>
    BY <2>1, <2>3 DEF QueueRoom, SaveRoom
  <2>4. QED
    BY <2>1, <2>2, <2>3
<1>5. CASE Prepares
  <2>1. pend' = <<>> /\ pc' # "save"
    BY <1>1, <1>5, PrepareEffect DEF Stages
  <2>2. QED
    BY <2>1 DEF QueueRoom, SaveRoom
<1>6. CASE Loads
  <2>1. UNCHANGED <<pend, config>> /\ pc' # "save"
    BY <1>6 DEF Loads
  <2>2. QED
    BY <1>1, <1>6, <2>1, RestoredEffect, RoomStays DEF Loads, SaveRoom
<1>7. ASSUME NEW S \in SUBSET AllPending(mem), Cancels(S) PROVE QueueRoom' /\ SaveRoom'
  <2>1. UNCHANGED <<pend, config>> /\ pc' # "save"
    BY <1>7 DEF Cancels
  <2>2. QED
    BY <1>1, <1>7, <2>1, CancelsCredits, RoomStays DEF SaveRoom
<1>8. CASE Flushes
  <2>1. pc' # "save"
    BY <1>8 DEF Flushes
  <2>2. QED
    BY <1>8, <2>1, FlushesRoom DEF SaveRoom
<1>9. CASE SettleInMemory
  <2>1. pc' # "save"
    BY <1>9 DEF SettleInMemory
  <2>2. QED
    BY <1>9, <2>1, SettlesRoom DEF SaveRoom
<1>10. CASE OpenInMemory
  <2>1. UNCHANGED <<db, pend, config>>
    BY <1>10 DEF OpenInMemory, disk
  <2>2. QED
    BY <1>10, <2>1, RoomStays, OpensRoom
<1>11. CASE SaveOpen
  <2>1. pend' = <<>> /\ pc' # "save"
    BY <1>1, <1>11, SaveEffect DEF Stages
  <2>2. QED
    BY <2>1 DEF QueueRoom, SaveRoom
<1>12. CASE Returns
  <2>1. pend' = <<>> /\ pc' # "save"
    BY <1>1, <1>12 DEF Returns, Stages
  <2>2. QED
    BY <2>1 DEF QueueRoom, SaveRoom
<1>13. QED
  BY <1>1, <1>2, <1>3, <1>4, <1>5, <1>6, <1>7, <1>8, <1>9, <1>10, <1>11, <1>12, StepKinds
-----------------------------------------------------------------------------
(* The ledger on disk implements DurableLedger *)

LEMMA SizesAgree == \A S : Durable!Cardinality(S) = Cardinality(S)
BY DEF Durable!Cardinality, Cardinality

\* The abstract ledger is the disk's, and speaks of it in the same words.
LEMMA DurableNames ==
  ASSUME db \in LedgerType
  PROVE  /\ Durable!ledger = db
         /\ Durable!OrderIds = OrderIds /\ Durable!Results = Results
         /\ Durable!EmptyLedger = EmptyLedger
         /\ \A L, S : Durable!CancelCredits(L, S) = CancelCredits(L, S)
         /\ \A d : Durable!DirLimit(d) = DirLimit(d)
         /\ \A st : Durable!Held(st) = Held(st)
         /\ \A c, s, i : Durable!Consume(c, s, i) = Consume(c, s, i)
         /\ Durable!Exists(db) = Exists(db)
         /\ Durable!Open(db) = Open(db)
         /\ \A d : Durable!OpenIn(db, d) = OpenIn(db, d)
         /\ \A d : Durable!Reserved(db, d) = Reserved(db, d)
         /\ \A d, t : Durable!Eligible(db, d, t) = Eligible(db, d, t)
<1>1. Durable!ledger = db
  BY DEF Durable!ledger, LedgerType
<1>2. Durable!OrderIds = OrderIds /\ Durable!Results = Results
  BY DEF Durable!OrderIds, OrderIds, Durable!Results, Results
<1>3. Durable!EmptyLedger = EmptyLedger
  BY <1>2 DEF Durable!EmptyLedger, EmptyLedger, Durable!NoOrder, NoOrder, Durable!NoCredit, NoCredit
<1>4. \A st : Durable!Held(st) = Held(st)
  BY DEF Durable!Held, Held
<1>5. \A L, S : Durable!CancelCredits(L, S) = CancelCredits(L, S)
  BY <1>2, <1>4 DEF Durable!CancelCredits, CancelCredits
<1>6. \A d : Durable!DirLimit(d) = DirLimit(d)
  BY DEF Durable!DirLimit, DirLimit
<1>7. \A c, s, i : Durable!Consume(c, s, i) = Consume(c, s, i)
  BY DEF Durable!Consume, Consume
<1>8. Durable!Exists(db) = Exists(db) /\ Durable!Open(db) = Open(db)
  BY <1>2 DEF Durable!Exists, Exists, Durable!Open, Open
<1>9. \A d : Durable!OpenIn(db, d) = OpenIn(db, d)
  BY <1>8 DEF Durable!OpenIn, OpenIn
<1>10. \A d : Durable!Pending(db, d) = Pending(db, d) /\ Durable!Active(db, d) = Active(db, d)
  BY <1>8 DEF Durable!Pending, Pending, Durable!Active, Active
<1>11. \A d : Durable!Reserved(db, d) = Reserved(db, d)
  BY <1>10 DEF Durable!Reserved, Reserved
<1>12. \A s : Durable!Expiry(db, s) = Expiry(db, s)
  BY DEF Durable!Expiry, Expiry
<1>13. \A d, t : Durable!Eligible(db, d, t) = Eligible(db, d, t)
  BY <1>10, <1>12 DEF Durable!Eligible, Eligible
<1>14. QED
  BY <1>1, <1>2, <1>3, <1>4, <1>5, <1>6, <1>7, <1>8, <1>9, <1>11, <1>13

\* Withdrawing waiting credits is a cancellation of the abstract ledger.
LEMMA WithdrawImplements ==
  ASSUME db \in LedgerType, NEW S \in SUBSET AllPending(db), db' = CancelCredits(db, S)
  PROVE  Durable!Next
<1>1. S \in SUBSET OrderIds /\ \A s \in S : db.credits[s].st = "PENDING"
  BY DEF AllPending
<1>2. db'.orders = db.orders
  BY <1>1, CancelEffect
<1>3. Durable!Cancel(S)
  BY <1>1, <1>2, DurableNames DEF Durable!Cancel, Durable!Cancellable
<1>4. QED
  BY <1>1, <1>3, DurableNames DEF Durable!Next

\* Saving an order opens it in the abstract ledger: there is room for it, and
\* the credit it spends is due and of its direction.
LEMMA SaveImplements ==
  ASSUME RoomInv, SaveOpen
  PROVE  Durable!Next
<1> DEFINE i == Newest
           o == mem.orders[Newest]
<1>1. /\ TypeOK /\ Stages /\ AgreedInv /\ CreditIInv /\ OrdersAgree /\ BeingOpened /\ QueueIInv
      /\ db \in LedgerType /\ mem \in LedgerType
  BY DEF RoomInv, LedgerInv, AgreedInv, Basic, AgreeIInv, TypeOK
<1>2. /\ i \in OrderIds /\ i \in Exists(mem) /\ o \in Order /\ db.orders[i].st = "NONE"
      /\ o.source # 0 => db.credits[o.source].st = "PENDING"
      /\ db' = AddOrder(db, i, o)
      /\ pc = "save" /\ pc' = "notify"
  BY <1>1, SaveEffect
<1>3. pend = <<>> /\ o.opened = now /\ Running /\ o.st = "OPEN" /\ o.dir = cand.dir
  BY <1>1, <1>2 DEF Stages, Running, BeingOpened
<1>4. o.source # 0 => o.source \in Eligible(db, o.dir, o.opened)
  BY <1>1, <1>2, <1>3 DEF CreditIInv, SavePaid, Eligible, Pending
<1>5. i \notin Exists(db) /\ Open(db) \subseteq Open(mem) \ {i}
      /\ OpenIn(db, o.dir) \subseteq OpenIn(mem, o.dir) \ {i}
  <2>1. i \notin Exists(db)
    BY <1>2 DEF Exists
  <2>2. \A j \in Open(db) : j \in Open(mem) /\ j # i /\ SameOrder(mem.orders[j], db.orders[j])
    <3> SUFFICES ASSUME NEW j \in Open(db)
                 PROVE  j \in Open(mem) /\ j # i /\ SameOrder(mem.orders[j], db.orders[j])
      OBVIOUS
    <3>1. j \in Exists(db)
      BY DEF Open, Exists
    <3>2. j \notin Queued
      BY <1>3 DEF Queued
    <3>3. QED
      BY <1>1, <1>3, <2>1, <3>1, <3>2 DEF QueueIInv, OpenKnown, OrdersAgree
  <2>3. QED
    BY <2>1, <2>2 DEF OpenIn, SameOrder
<1>6. Cardinality(Open(db)) < MaxOpen /\ Cardinality(OpenIn(db, o.dir)) < DirLimit(o.dir)
  <2> DEFINE A == Open(mem) \ {i}
             B == OpenIn(mem, o.dir) \ {i}
             C == Open(db)
             D == OpenIn(db, o.dir)
  <2>1. A \in SUBSET OrderIds /\ B \in SUBSET OrderIds /\ C \in SUBSET A /\ D \in SUBSET B
    BY <1>5 DEF Open, OpenIn
  <2>2. Cardinality(A) < MaxOpen /\ Cardinality(B) < DirLimit(o.dir)
    BY <1>2, <1>3 DEF RoomInv, SaveRoom
  <2>3. MaxOpen \in Nat /\ DirLimit(o.dir) \in Nat
    BY MonitorAssumption DEF DirLimit
  <2> HIDE DEF A, B, C, D
  <2>4. /\ Cardinality(A) \in Nat /\ Cardinality(C) \in Nat /\ Cardinality(C) <= Cardinality(A)
        /\ Cardinality(B) \in Nat /\ Cardinality(D) \in Nat /\ Cardinality(D) <= Cardinality(B)
    BY <2>1, FewerIds
  <2>5. Cardinality(C) < MaxOpen /\ Cardinality(D) < DirLimit(o.dir)
    BY <2>2, <2>3, <2>4
  <2>6. QED
    BY <2>5 DEF C, D
<1> HIDE DEF i, o
<1>7. o = [st |-> "OPEN", dir |-> o.dir, opened |-> o.opened, source |-> o.source,
           grants |-> o.grants]
  BY <1>2, <1>3 DEF Order
<1>8. db'.orders = [db.orders EXCEPT ![i] = o] /\ db'.credits = Consume(db.credits, o.source, i)
  BY <1>2 DEF AddOrder
<1>9. Durable!HasRoom(o.dir)
  <2>1. /\ Durable!ledger = db /\ Durable!Open(db) = Open(db)
        /\ Durable!OpenIn(db, o.dir) = OpenIn(db, o.dir)
        /\ Durable!DirLimit(o.dir) = DirLimit(o.dir)
    BY <1>1, DurableNames
  <2>2. QED
    BY <1>6, <2>1, SizesAgree DEF Durable!HasRoom
<1>10. Durable!OpenOrder(i, o.dir, o.opened, o.source, o.grants)
  BY <1>1, <1>2, <1>4, <1>7, <1>8, <1>9, DurableNames DEF Durable!OpenOrder
<1>11. /\ o.dir \in Directions /\ o.opened \in 1..MaxTime /\ o.source \in OrderIds \cup {0}
       /\ o.grants \in BOOLEAN
  BY <1>2 DEF Order
<1>12. QED
  BY <1>1, <1>2, <1>10, <1>11, DurableNames DEF Durable!Next

\* Writing a settlement settles the order of the abstract ledger, with the
\* credit it earns, which has room if it waits; or it withdraws the credit; or
\* it finds all written.
LEMMA FlushImplements ==
  ASSUME RoomInv, Flushes
  PROVE  Durable!Next \/ db' = db
<1> DEFINE e == Head(pend)
<1>1. /\ TypeOK /\ Stages /\ AgreedInv /\ CreditIInv /\ db \in LedgerType
      /\ pend \in Seq(Settlements) /\ config.maxActive \in Nat
      /\ config.maxActive <= Largest(MaxActiveChoices) /\ pend # <<>> /\ FlushHead
  BY DEF RoomInv, LedgerInv, AgreedInv, Basic, TypeOK, Configs, Stages, Flushes
<1>2. /\ e.id \in OrderIds /\ e.result \in Results /\ 1 \in DOMAIN pend
  BY <1>1, HeadTypes
<1>3. /\ e = pend[1] /\ e.id \in Exists(db)
      /\ e.credit \in {NoCredit, Held("PENDING"), Held("CANCELLED")}
      /\ e.credit # NoCredit <=> Earns(db.orders[e.id], e.result)
      /\ \/ /\ e.id \in Open(db) /\ db.credits[e.id] = NoCredit
            /\ db' = SettleOrder(db, e.id, e.result, e.credit)
         \/ db' = db
         \/ /\ db' = CancelCredits(db, {e.id})
            /\ db.credits[e.id].st = "PENDING"
  BY <1>1, FlushKinds
<1> HIDE DEF e
<1>4. CASE db' = CancelCredits(db, {e.id}) /\ db.credits[e.id].st = "PENDING"
  <2>1. {e.id} \in SUBSET AllPending(db)
    BY <1>2, <1>4 DEF AllPending
  <2>2. QED
    BY <1>1, <1>4, <2>1, WithdrawImplements
<1>5. CASE /\ e.id \in Open(db) /\ db.credits[e.id] = NoCredit
           /\ db' = SettleOrder(db, e.id, e.result, e.credit)
  <2>1. /\ db'.orders = [db.orders EXCEPT ![e.id].st = e.result]
        /\ db'.credits = [db.credits EXCEPT ![e.id] = e.credit]
        /\ db.orders[e.id].st = "OPEN"
    BY <1>5 DEF SettleOrder, Open
  <2>2. CASE e.credit = NoCredit
    <3>1. db'.credits = db.credits
      BY <1>1, <1>2, <1>5, <2>1, <2>2 DEF LedgerType
    <3>2. Durable!SettleOnly(e.id, e.result)
      BY <2>1, <3>1 DEF Durable!SettleOnly
    <3>3. QED
      BY <1>1, <1>2, <3>2, DurableNames DEF Durable!Next
  <2>3. ASSUME NEW st \in {"PENDING", "CANCELLED"}, e.credit = Held(st) PROVE Durable!Next
    <3>1. e.credit # NoCredit /\ NoCredit.st = "NONE" /\ e.credit.st = st
      BY <2>3 DEF NoCredit, Held
    <3>2. db.orders[e.id].source = 0 /\ db.orders[e.id].grants /\ e.result = "WIN"
      BY <1>3, <3>1 DEF Earns
    <3>3. st = "PENDING" =>
             Cardinality(Reserved(db, db.orders[e.id].dir)) < Largest(MaxActiveChoices)
      <4> SUFFICES ASSUME st = "PENDING"
                   PROVE  Cardinality(Reserved(db, db.orders[e.id].dir)) < Largest(MaxActiveChoices)
        OBVIOUS
      <4> DEFINE A == ReservedBefore(db, pend, 1, db.orders[e.id].dir)
                 B == Reserved(db, db.orders[e.id].dir)
      <4>1. Cardinality(A) < config.maxActive
        BY <1>2, <1>3, <2>1, <3>1 DEF RoomInv, QueueRoom
      <4>2. B \subseteq A
        BY DEF Reserved, Pending, Active, ReservedBefore
      <4>3. A \in SUBSET OrderIds /\ B \in SUBSET A
        BY <4>2, ReservedIsIds
      <4> HIDE DEF A, B
      <4>4. Cardinality(A) \in Nat /\ Cardinality(B) \in Nat /\ Cardinality(B) <= Cardinality(A)
        BY <4>3, FewerIds
      <4>5. Cardinality(B) < Largest(MaxActiveChoices)
        BY <1>1, <4>1, <4>4, LargestIsNat
      <4>6. QED
        BY <4>5 DEF B
    <3>4. Durable!SettleEarning(e.id, st)
      <4>1. /\ Durable!ledger = db /\ Durable!Held(st) = Held(st)
            /\ Durable!Reserved(db, db.orders[e.id].dir) = Reserved(db, db.orders[e.id].dir)
        BY <1>1, DurableNames
      <4>2. st = "PENDING" => Durable!MayWait(db.orders[e.id].dir)
        BY <3>3, <4>1, SizesAgree DEF Durable!MayWait
      <4>3. db.credits[e.id].st = "NONE" /\ db'.credits = [db.credits EXCEPT ![e.id] = Held(st)]
            /\ db'.orders = [db.orders EXCEPT ![e.id].st = "WIN"]
        BY <1>5, <2>1, <2>3, <3>1, <3>2
      <4>4. QED
        BY <2>1, <3>2, <4>1, <4>2, <4>3 DEF Durable!SettleEarning
    <3>5. QED
      BY <1>1, <1>2, <3>4, DurableNames DEF Durable!Next
  <2>4. QED
    BY <1>3, <2>2, <2>3
<1>6. QED
  BY <1>3, <1>4, <1>5

LEMMA StepImplements ==
  ASSUME RoomInv, [Next]_vars
  PROVE  [Durable!Next]_(Durable!vars)
<1>1. db \in LedgerType /\ LedgerInv
  BY DEF RoomInv, LedgerInv, AgreedInv, Basic, TypeOK
<1>2. db' = db => UNCHANGED Durable!vars
  BY DEF Durable!vars
<1>3. QED
  BY <1>1, <1>2, DiskSteps, WithdrawImplements, SaveImplements, FlushImplements

\* Whatever crashes, failed transactions, retries, restarts with other
\* settings and symbol switches do in between, the tables go through the
\* transactions of DurableLedger only.
THEOREM DiskImplementsDurableLedger == Spec => ImplementsDurableLedger
<1>1. Init => Durable!Init
  <2> SUFFICES ASSUME Init PROVE Durable!Init
    OBVIOUS
  <2>1. db = EmptyLedger /\ db \in LedgerType
    BY EmptyTypes DEF Init
  <2>2. QED
    BY <2>1, DurableNames DEF Durable!Init
<1>2. RoomInv /\ [Next]_vars => [Durable!Next]_(Durable!vars)
  BY StepImplements
<1>3. QED
  BY <1>1, <1>2, InitRoom, StepRoom, PTL DEF Spec, ImplementsDurableLedger, Durable!Spec

\* A second stage on disk was paid for by one credit, which it alone spent and
\* which a first stage of its direction had earned by winning, before.
THEOREM StakesOnDiskAreEarned == Spec => []DurableProvenance
<1>1. ASSUME RoomInv PROVE DurableProvenance
  <2>1. Provenance(db) /\ db \in LedgerType
    BY <1>1 DEF RoomInv, LedgerInv, CreditIInv, AgreedInv, Basic, TypeOK
  <2>2. \A s : Durable!Expiry(db, s) = Expiry(db, s)
    BY DEF Durable!Expiry, Expiry
  <2>3. QED
    BY <2>1, <2>2, DurableNames
    DEF DurableProvenance, Durable!StakeProvenance, Durable!SourceIsWonBaseOrder,
        Durable!ConsumedByItsOrder, Provenance, SourceWon, ConsumedWell
<1>2. QED
  BY <1>1, InitRoom, StepRoom, PTL DEF Spec
-----------------------------------------------------------------------------
(* The credits on disk respect the settings the service runs with *)

LEMMA NewestCredit ==
  ASSUME NEW L \in LedgerType, NEW S \in SUBSET Exists(L), S # {}
  PROVE  \E s \in S : \A r \in S : ~Older(L, s, r)
<1>1. \A s \in S : s \in 0..MaxOrders /\ Expiry(L, s) \in 0..(MaxTime + Lifetime)
  BY LedgerAssumption DEF LedgerType, Expiry, Order, NoOrder, Exists, OrderIds
<1>2. MaxTime + Lifetime \in Nat /\ MaxOrders \in Nat
  BY LedgerAssumption
<1> DEFINE E == {Expiry(L, s) : s \in S}
<1>3. PICK e \in E : \A x \in E : x <= e
  <2>1. E \subseteq 0..(MaxTime + Lifetime) /\ E # {}
    BY <1>1
  <2> HIDE DEF E
  <2>2. QED
    BY <1>2, <2>1, GreatestExists
<1> DEFINE T == {s \in S : Expiry(L, s) = e}
<1>4. PICK s \in T : \A r \in T : r <= s
  <2>1. T \subseteq 0..MaxOrders /\ T # {}
    BY <1>1, <1>3
  <2> HIDE DEF T
  <2>2. QED
    BY <1>2, <2>1, GreatestExists
<1>5. ASSUME NEW r \in S, Older(L, s, r) PROVE FALSE
  <2>1. Expiry(L, r) \in E /\ Expiry(L, s) = e /\ Expiry(L, r) <= e
    BY <1>3, <1>4
  <2>2. Expiry(L, r) \in Nat /\ Expiry(L, s) \in Nat /\ r \in Nat /\ s \in Nat
    BY <1>1, <1>4
  <2>3. Expiry(L, r) = e /\ s < r
    BY <1>5, <2>1, <2>2 DEF Older
  <2>4. r <= s
    BY <1>4, <2>3
  <2>5. QED
    BY <2>2, <2>3, <2>4
<1>6. QED
  BY <1>4, <1>5

\* reconcile: when a credit may still wait, the credits that wait and the
\* second stages in flight fit the capacity.  The newest credit that stays has
\* more than the excess of credits from itself on, and the newer ones go.
LEMMA LoadedFits ==
  ASSUME NEW L \in LedgerType, NEW cap \in Nat, NEW d \in Directions,
         Pending(CancelCredits(L, Excess(L, TRUE, cap)), d) # {}
  PROVE  Cardinality(Reserved(CancelCredits(L, Excess(L, TRUE, cap)), d)) <= cap
<1> DEFINE X == Excess(L, TRUE, cap)
           M == CancelCredits(L, X)
           P == Pending(L, d)
           R == Reserved(L, d)
           N(s) == NewerOrSame(L, d, s)
           Y == X \cap P
<1>1. X \subseteq AllPending(L)
  BY ExcessIsPending
<1>2. \A s \in P : s \in X <=> Cardinality(N(s)) <= Cardinality(R) - cap
  BY DEF Excess, Pending
<1> HIDE DEF X
<1>3. X \in SUBSET OrderIds /\ \A s \in X : L.credits[s].st = "PENDING"
  BY <1>1 DEF AllPending
<1>4. /\ M.orders = L.orders /\ Exists(M) = Exists(L) /\ Open(M) = Open(L)
      /\ \A s \in OrderIds \ X : M.credits[s] = L.credits[s]
      /\ \A s \in X : M.credits[s] = Held("CANCELLED")
  BY <1>3, CancelEffect
<1>5. Held("CANCELLED").st = "CANCELLED"
  BY DEF Held
<1>6. Pending(M, d) # {}
  BY DEF X
<1> HIDE DEF M
<1>7. Pending(M, d) = P \ Y
  BY <1>3, <1>4, <1>5 DEF Pending, Exists
<1>8. Active(M, d) = Active(L, d)
  BY <1>3, <1>4, <1>5 DEF Active, Exists
<1>9. P \cap Active(L, d) = {}
  BY DEF Pending, Active
<1>10. Reserved(M, d) = R \ Y /\ Y \in SUBSET R /\ R \in SUBSET OrderIds
  BY <1>7, <1>8, <1>9 DEF Reserved, Pending, Active, Exists
<1>11. PICK s \in P \ Y : \A r \in P \ Y : ~Older(L, s, r)
  <2>1. P \ Y \in SUBSET Exists(L) /\ P \ Y # {}
    BY <1>6, <1>7 DEF Pending
  <2> HIDE DEF P, Y
  <2>2. QED
    BY <2>1, NewestCredit
<1>12. N(s) \ {s} \in SUBSET Y /\ s \in N(s) /\ N(s) \in SUBSET OrderIds
  BY <1>11 DEF NewerOrSame, Pending, Exists
<1>13. ~(Cardinality(N(s)) <= Cardinality(R) - cap)
  BY <1>2, <1>11
<1> HIDE DEF N, Y, R, P
<1>14. IsFiniteSet(N(s)) /\ IsFiniteSet(R) /\ IsFiniteSet(Y)
  <2>1. Y \in SUBSET OrderIds
    BY <1>10
  <2>2. QED
    BY <1>10, <1>12, <2>1, FewerIds
<1>15. Cardinality(N(s) \ {s}) = Cardinality(N(s)) - 1
  BY <1>12, <1>14, FS_RemoveElement
<1>16. Cardinality(N(s) \ {s}) <= Cardinality(Y) /\ Cardinality(Y) \in Nat
       /\ Cardinality(N(s)) \in Nat /\ Cardinality(R) \in Nat
  BY <1>12, <1>14, FS_Subset, FS_CardinalityType
<1>17. Cardinality(R \ Y) = Cardinality(R) - Cardinality(Y)
  <2>1. R \cap Y = Y
    BY <1>10
  <2>2. Cardinality(R \ Y) = Cardinality(R) - Cardinality(R \cap Y)
    BY <1>14, FS_Difference
  <2>3. QED
    BY <2>1, <2>2
<1>18. Cardinality(R \ Y) <= cap
  BY <1>13, <1>15, <1>16, <1>17
<1>19. QED
  BY <1>10, <1>18 DEF M, X

\* Withdrawing credits reserves nothing new, nor makes a credit wait.
LEMMA WithdrawnFits ==
  ASSUME NEW L \in LedgerType, NEW S \in SUBSET AllPending(L), NEW d
  PROVE  /\ Pending(CancelCredits(L, S), d) \subseteq Pending(L, d)
         /\ Reserved(CancelCredits(L, S), d) \subseteq Reserved(L, d)
         /\ AllPending(CancelCredits(L, S)) \subseteq AllPending(L)
<1>1. S \in SUBSET OrderIds
  BY DEF AllPending
<1>2. Held("CANCELLED").st = "CANCELLED"
  BY DEF Held
<1> DEFINE M == CancelCredits(L, S)
<1>3. /\ M.orders = L.orders /\ Exists(M) = Exists(L) /\ Open(M) = Open(L)
      /\ \A s \in OrderIds \ S : M.credits[s] = L.credits[s]
      /\ \A s \in S : M.credits[s] = Held("CANCELLED")
  BY <1>1, CancelEffect
<1> HIDE DEF M
<1>4. /\ Pending(M, d) \subseteq Pending(L, d) /\ Active(M, d) \subseteq Active(L, d)
      /\ AllPending(M) \subseteq AllPending(L)
  BY <1>1, <1>2, <1>3 DEF Pending, Active, AllPending, Exists
<1>5. QED
  BY <1>4 DEF Reserved, M
\* Saving an order moves its credit from waiting to being spent.
LEMMA SavedFits ==
  ASSUME RoomInv, SaveOpen, NEW d
  PROVE  /\ Pending(db', d) \subseteq Pending(db, d)
         /\ Reserved(db', d) \subseteq Reserved(db, d)
         /\ AllPending(db') \subseteq AllPending(db)
<1> DEFINE i == Newest
           o == mem.orders[Newest]
<1>1. /\ TypeOK /\ Stages /\ AgreedInv /\ CreditIInv /\ db \in LedgerType
  BY DEF RoomInv, LedgerInv, AgreedInv, Basic, TypeOK
<1>2. /\ i \in OrderIds /\ o \in Order /\ db.orders[i].st = "NONE"
      /\ o.source # 0 => db.credits[o.source].st = "PENDING"
      /\ db' = AddOrder(db, i, o) /\ pc = "save"
  BY <1>1, SaveEffect
<1>3. o.source # 0 => o.source \in Exists(db)
  BY <1>1, <1>2 DEF CreditIInv, SavePaid
<1> HIDE DEF i, o
<1>4. o.source \in OrderIds \cup {0} /\ 0 \notin OrderIds
  BY <1>2, LedgerAssumption DEF Order, OrderIds
<1>5. /\ db'.orders[i] = o /\ Exists(db') = Exists(db) \cup {i}
      /\ \A j \in OrderIds \ {i} : db'.orders[j] = db.orders[j]
  BY <1>1, <1>2, AddedOrders
<1>6. /\ \A s \in OrderIds \ {o.source} : db'.credits[s] = db.credits[s]
      /\ o.source \in OrderIds => db'.credits[o.source] = [st |-> "CONSUMED", by |-> i]
  BY <1>1, <1>2, AddedCredits
<1>7. \A s \in OrderIds : db.credits[s].st # "NONE" => s # i /\ s \in Exists(db)
  BY <1>1, <1>2 DEF CreditIInv, Provenance, SourceWon, Exists
<1>8. \A s \in OrderIds : db.credits[s].st = "CONSUMED" => db.credits[s].by # i
  BY <1>1, <1>2 DEF CreditIInv, Provenance, ConsumedWell, Exists
<1>9. Pending(db', d) \subseteq Pending(db, d) /\ AllPending(db') \subseteq AllPending(db)
  <2>1. \A s \in OrderIds : db'.credits[s].st = "PENDING" =>
           s \in Exists(db) /\ s # i /\ db.credits[s].st = "PENDING"
    BY <1>4, <1>6, <1>7
  <2>2. QED
    BY <1>5, <2>1 DEF Pending, AllPending, Exists
<1>10. ASSUME NEW s \in Active(db', d) PROVE s \in Reserved(db, d)
  <2>1. /\ s \in OrderIds /\ s \in Exists(db') /\ db'.credits[s].st = "CONSUMED"
        /\ db'.credits[s].by \in Open(db') /\ db'.orders[s].dir = d
    BY DEF Active, Exists
  <2>2. CASE s = o.source
    <3>1. db.credits[s].st = "PENDING" /\ s \in Exists(db) /\ s # i
      BY <1>2, <1>3, <1>4, <1>7, <2>1, <2>2
    <3>2. QED
      BY <1>5, <2>1, <3>1 DEF Reserved, Pending
  <2>3. CASE s # o.source
    <3>1. db.credits[s] = db'.credits[s] /\ s # i /\ s \in Exists(db) /\ db.credits[s].by # i
      BY <1>6, <1>7, <1>8, <2>1, <2>3
    <3>2. db.credits[s].by \in Open(db) /\ db.orders[s].dir = d
      BY <1>5, <2>1, <3>1 DEF Open
    <3>3. QED
      BY <2>1, <3>1, <3>2 DEF Reserved, Active
  <2>4. QED
    BY <2>2, <2>3
<1>11. QED
  BY <1>9, <1>10 DEF Reserved

\* Writing a settlement makes no credit wait but the one it earned, which has
\* room, and which is earned only while the progression is on.
LEMMA FlushedFits ==
  ASSUME RoomInv, CreditsWithinSettings, Flushes, pc # "loading", pc # "down"
  PROVE  /\ AllPending(db') # {} => config.enabled
         /\ \A d \in Directions : Pending(db', d) # {} =>
               Cardinality(Reserved(db', d)) <= config.maxActive
<1> DEFINE e == Head(pend)
<1>1. /\ TypeOK /\ Stages /\ AgreedInv /\ CreditIInv /\ db \in LedgerType
      /\ pend \in Seq(Settlements) /\ config.maxActive \in Nat /\ pend # <<>> /\ FlushHead
  BY DEF RoomInv, LedgerInv, AgreedInv, Basic, TypeOK, Configs, Stages, Flushes
<1>2. /\ e.id \in OrderIds /\ e.result \in Results /\ 1 \in DOMAIN pend
  BY <1>1, HeadTypes
<1>3. /\ e = pend[1] /\ e.id \in Exists(db)
      /\ e.credit \in {NoCredit, Held("PENDING"), Held("CANCELLED")}
      /\ e.credit # NoCredit <=> Earns(db.orders[e.id], e.result)
      /\ \/ /\ e.id \in Open(db) /\ db.credits[e.id] = NoCredit
            /\ db' = SettleOrder(db, e.id, e.result, e.credit)
            /\ db'.credits[e.id] = e.credit
         \/ db' = db
         \/ /\ db' = CancelCredits(db, {e.id})
            /\ db.credits[e.id].st = "PENDING"
  BY <1>1, FlushKinds
<1>4. /\ \A j \in OrderIds \ {e.id} : db'.credits[j] = db.credits[j]
      /\ \A j \in OrderIds : SameOrder(db'.orders[j], db.orders[j])
      /\ Exists(db') = Exists(db) /\ Open(db') \subseteq Open(db)
  BY <1>1, FlushEffect
<1>5. /\ AllPending(db) # {} => config.enabled
      /\ \A d \in Directions : Pending(db, d) # {} =>
            Cardinality(Reserved(db, d)) <= config.maxActive
  BY DEF CreditsWithinSettings
<1>6. NoCredit.st = "NONE" /\ Held("PENDING").st = "PENDING" /\ Held("CANCELLED").st = "CANCELLED"
  BY DEF NoCredit, Held
<1> HIDE DEF e
<1>7. ASSUME NEW d \in Directions, Pending(db', d) \subseteq Pending(db, d),
             Reserved(db', d) \subseteq Reserved(db, d), Pending(db', d) # {}
      PROVE  Cardinality(Reserved(db', d)) <= config.maxActive
  <2>1. Reserved(db, d) \in SUBSET OrderIds /\ Reserved(db', d) \in SUBSET Reserved(db, d)
    BY <1>7 DEF Reserved, Pending, Active, Exists
  <2>2. /\ Cardinality(Reserved(db, d)) \in Nat /\ Cardinality(Reserved(db', d)) \in Nat
        /\ Cardinality(Reserved(db', d)) <= Cardinality(Reserved(db, d))
    BY <2>1, FewerIds
  <2>3. Cardinality(Reserved(db, d)) <= config.maxActive
    BY <1>5, <1>7
  <2>4. QED
    BY <1>1, <2>2, <2>3
<1>8. CASE db' = db
  BY <1>5, <1>8
<1>9. CASE db' = CancelCredits(db, {e.id}) /\ db.credits[e.id].st = "PENDING"
  <2>1. {e.id} \in SUBSET AllPending(db)
    BY <1>2, <1>9 DEF AllPending
  <2>2. \A d : /\ Pending(db', d) \subseteq Pending(db, d)
               /\ Reserved(db', d) \subseteq Reserved(db, d)
               /\ AllPending(db') \subseteq AllPending(db)
    BY <1>1, <1>9, <2>1, WithdrawnFits
  <2>3. QED
    BY <1>5, <1>7, <2>2
<1>10. CASE db.credits[e.id] = NoCredit /\ db'.credits[e.id] = e.credit /\ e.id \in Open(db)
  <2>1. \A s \in OrderIds : /\ db'.credits[s].st = "PENDING" => s = e.id \/ db.credits[s].st = "PENDING"
                            /\ db'.credits[s].st = "CONSUMED" => db'.credits[s] = db.credits[s]
    BY <1>3, <1>4, <1>6, <1>10
  <2>2. CASE e.credit # Held("PENDING")
    <3>1. \A s \in OrderIds : db'.credits[s].st = "PENDING" => db.credits[s].st = "PENDING"
      BY <1>3, <1>6, <1>10, <2>1, <2>2
    <3>2. AllPending(db') \subseteq AllPending(db)
      BY <3>1 DEF AllPending
    <3>3. \A d : Pending(db', d) \subseteq Pending(db, d) /\ Active(db', d) \subseteq Active(db, d)
      BY <1>4, <2>1, <3>1 DEF Pending, Active, SameOrder, Exists
    <3>4. QED
      BY <1>5, <1>7, <3>2, <3>3 DEF Reserved
  <2>3. CASE e.credit = Held("PENDING")
    <3>1. config.enabled
      BY <1>3, <1>6, <2>3 DEF Earns
    <3> DEFINE dd == db.orders[e.id].dir
    <3>2. \A d : /\ Pending(db', d) \subseteq Pending(db, d) \cup (IF d = dd THEN {e.id} ELSE {})
                 /\ Active(db', d) \subseteq Active(db, d)
      BY <1>4, <2>1 DEF Pending, Active, SameOrder, Exists
    <3>3. Cardinality(ReservedBefore(db, pend, 1, dd)) < config.maxActive
      BY <1>2, <1>3, <1>6, <1>10, <2>3 DEF RoomInv, QueueRoom, Open
    <3>4. Cardinality(Reserved(db', dd)) <= config.maxActive
      <4> DEFINE A == ReservedBefore(db, pend, 1, dd)
                 B == Reserved(db', dd)
      <4>1. B \subseteq A \cup {e.id}
        <5>1. Reserved(db, dd) \subseteq A
          BY DEF Reserved, Pending, Active, ReservedBefore
        <5>2. QED
          BY <3>2, <5>1 DEF Reserved
      <4>2. A \in SUBSET OrderIds /\ A \cup {e.id} \in SUBSET OrderIds
        BY <1>2, ReservedIsIds
      <4> HIDE DEF A, B
      <4>3. IsFiniteSet(A) /\ IsFiniteSet(B) /\ Cardinality(A) \in Nat /\ Cardinality(B) \in Nat
            /\ Cardinality(B) <= Cardinality(A \cup {e.id}) /\ Cardinality(A \cup {e.id}) \in Nat
        BY <4>1, <4>2, FewerIds
      <4>4. Cardinality(A \cup {e.id}) <= Cardinality(A) + 1
        <5>1. Cardinality(A \cup {e.id})
                = IF e.id \in A THEN Cardinality(A) ELSE Cardinality(A) + 1
          <6>1. IsFiniteSet(A)
            BY <4>3
          <6>2. QED
            BY <6>1, FS_AddElement
        <5>2. QED
          BY <4>3, <5>1
      <4>5. Cardinality(A) < config.maxActive
        BY <3>3 DEF A
      <4>6. Cardinality(B) <= config.maxActive
        BY <1>1, <4>3, <4>4, <4>5
      <4>7. QED
        BY <4>6 DEF B
    <3>5. \A d \in Directions : Pending(db', d) # {} =>
             Cardinality(Reserved(db', d)) <= config.maxActive
      BY <1>7, <3>2, <3>4 DEF Reserved
    <3>6. QED
      BY <3>1, <3>5
  <2>4. QED
    BY <2>2, <2>3
<1>11. QED
  BY <1>3, <1>8, <1>9, <1>10

LEMMA StepSettings == RoomInv /\ CreditsWithinSettings /\ [Next]_vars => CreditsWithinSettings'
<1> SUFFICES ASSUME RoomInv, CreditsWithinSettings, [Next]_vars, pc' \notin {"down", "loading"}
             PROVE  /\ AllPending(db') # {} => config'.enabled
                    /\ \A d \in Directions : Pending(db', d) # {} =>
                          Cardinality(Reserved(db', d)) <= config'.maxActive
  BY DEF CreditsWithinSettings
<1> DEFINE Goal == /\ AllPending(db') # {} => config'.enabled
                   /\ \A d \in Directions : Pending(db', d) # {} =>
                         Cardinality(Reserved(db', d)) <= config'.maxActive
<1>1. /\ TypeOK /\ Stages /\ CreditIInv /\ AgreedInv /\ db \in LedgerType
      /\ config.maxActive \in Nat /\ config.enabled \in BOOLEAN
  BY DEF RoomInv, LedgerInv, AgreedInv, Basic, TypeOK, Configs
<1>2. ASSUME UNCHANGED config, pc \notin {"down", "loading"},
             \A d : /\ Pending(db', d) \subseteq Pending(db, d)
                    /\ Reserved(db', d) \subseteq Reserved(db, d)
                    /\ AllPending(db') \subseteq AllPending(db)
      PROVE  Goal
  <2>1. AllPending(db') # {} => config'.enabled
    BY <1>2 DEF CreditsWithinSettings
  <2>2. ASSUME NEW d \in Directions, Pending(db', d) # {}
        PROVE  Cardinality(Reserved(db', d)) <= config'.maxActive
    <3>1. Reserved(db, d) \in SUBSET OrderIds /\ Reserved(db', d) \in SUBSET Reserved(db, d)
      BY <1>2 DEF Reserved, Pending, Active, Exists
    <3>2. /\ Cardinality(Reserved(db, d)) \in Nat /\ Cardinality(Reserved(db', d)) \in Nat
          /\ Cardinality(Reserved(db', d)) <= Cardinality(Reserved(db, d))
      BY <3>1, FewerIds
    <3>3. Cardinality(Reserved(db, d)) <= config.maxActive
      BY <1>2, <2>2 DEF CreditsWithinSettings
    <3>4. QED
      BY <1>1, <1>2, <3>2, <3>3
  <2>3. QED
    BY <2>1, <2>2
<1>3. CASE Tick \/ Quiet \/ Forgets \/ SettleInMemory \/ OpenInMemory \/ Returns
  <2>1. db' = db /\ config' = config /\ pc \notin {"down", "loading"}
    BY <1>3
    DEF Tick, Quiet, Forgets, SettleInMemory, OpenInMemory, Returns, SettlementStage, disk, process
  <2>2. QED
    BY <1>2, <2>1
<1>4. CASE Prepares
  BY <1>4 DEF Prepares
<1>5. CASE Loads
  <2>1. db' = Restored /\ config' = config
    BY <1>5 DEF Loads
  <2>2. CASE config.enabled
    <3>1. \A d \in Directions : Pending(Restored, d) # {} =>
             Cardinality(Reserved(Restored, d)) <= config.maxActive
      <4>1. Restored = CancelCredits(db, Excess(db, TRUE, config.maxActive))
        BY <1>1, <2>2 DEF Restored
      <4>2. QED
        BY <1>1, <4>1, LoadedFits
    <3>2. QED
      BY <2>1, <2>2, <3>1
  <2>3. CASE ~config.enabled
    <3>1. Restored = CancelCredits(db, AllPending(db))
      BY <1>1, <2>3 DEF Restored, Excess
    <3>2. AllPending(db) \in SUBSET OrderIds
      BY DEF AllPending
    <3>3. Held("CANCELLED").st = "CANCELLED"
      BY DEF Held
    <3>4. \A s \in OrderIds : Restored.credits[s].st # "PENDING"
      BY <1>1, <3>1, <3>2, <3>3, CancelEffect DEF AllPending
    <3>5. AllPending(Restored) = {} /\ \A d : Pending(Restored, d) = {}
      BY <3>4 DEF AllPending, Pending, Exists
    <3>6. QED
      BY <2>1, <3>5
  <2>4. QED
    BY <2>2, <2>3
<1>6. ASSUME NEW S \in SUBSET AllPending(mem), Cancels(S) PROVE Goal
  <2>1. config' = config /\ pc \notin {"down", "loading"}
    BY <1>6 DEF Cancels
  <2>2. \E T \in SUBSET AllPending(db) : db' = CancelCredits(db, T)
    BY <1>1, <1>6, CancelsCredits
  <2>3. QED
    BY <1>1, <1>2, <2>1, <2>2, WithdrawnFits
<1>7. CASE Flushes
  <2>1. config' = config /\ pc \notin {"down", "loading"}
    BY <1>7 DEF Flushes
  <2>2. QED
    BY <1>7, <2>1, FlushedFits
<1>8. CASE SaveOpen
  <2>1. config' = config /\ pc = "save"
    BY <1>1, <1>8, SaveEffect
  <2>2. QED
    BY <1>2, <1>8, <2>1, SavedFits
<1>9. QED
  BY <1>1, <1>3, <1>4, <1>5, <1>6, <1>7, <1>8, StepKinds

\* Whatever settings the service was run with before, whatever was in flight
\* when it stopped, and in whatever order settlements and openings reach the
\* disk: while it runs, no credit waits that its settings have no room for.
THEOREM CreditsFitTheSettings == Spec => []CreditsWithinSettings
<1>1. Init => CreditsWithinSettings
  BY DEF Init, CreditsWithinSettings
<1>2. QED
  BY <1>1, InitRoom, StepRoom, StepSettings, PTL DEF Spec
-----------------------------------------------------------------------------
(* Until the symbol is reset, memory is the disk and the queue *)

RowsMatch(i) == mem.orders[i] = db.orders[i] /\ mem.credits[i] = db.credits[i]

\* Off the queue the two are the same; what is queued is settled in memory
\* with the result and the credit that the disk has yet to see.
QueueMatches ==
    /\ \A i \in OrderIds \ Queued : RowsMatch(i)
    /\ \A k \in DOMAIN pend :
        /\ mem.orders[pend[k].id].st = pend[k].result
        /\ mem.credits[pend[k].id] = pend[k].credit
        /\ db.orders[pend[k].id].st = "OPEN"
        /\ db.credits[pend[k].id] = NoCredit

\* The order being saved and the credit it spends are all that differs.
SaveMatches ==
    LET s == mem.orders[Newest].source IN
    /\ \A i \in OrderIds \ {Newest} : mem.orders[i] = db.orders[i]
    /\ \A r \in OrderIds \ {s} : mem.credits[r] = db.credits[r]
    /\ s # 0 => db.credits[s] = Held("PENDING")

Exact ==
    switches = 0 /\ Running => IF pc = "save" THEN SaveMatches ELSE QueueMatches

LEMMA ExactFrame ==
  ASSUME Exact, UNCHANGED <<db, mem, pend>>, switches' = 0 /\ Running' => switches = 0 /\ Running,
         pc' = "save" <=> pc = "save"
  PROVE  Exact'
<1>1. Newest' = Newest /\ Queued' = Queued
  BY DEF Newest, Queued
<1>2. (SaveMatches => SaveMatches') /\ (QueueMatches => QueueMatches')
  BY <1>1 DEF SaveMatches, QueueMatches, RowsMatch
<1>3. QED
  BY <1>2 DEF Exact

LEMMA CancelsExact ==
  ASSUME LedgerInv, Exact, NEW S \in SUBSET AllPending(mem), Cancels(S)
  PROVE  Exact'
<1>1. TypeOK
  BY DEF LedgerInv, AgreedInv, Basic
<1>2. /\ S \in SUBSET OrderIds /\ ~CancelRefused(S)
      /\ db' = CancelCredits(db, S) /\ mem' = CancelCredits(mem, S)
      /\ db'.orders = db.orders /\ mem'.orders = mem.orders
      /\ pend' = pend /\ switches' = switches
  BY <1>1, CancelsEffect
<1>3. /\ \A s \in OrderIds \ S : db'.credits[s] = db.credits[s] /\ mem'.credits[s] = mem.credits[s]
      /\ \A s \in S : db'.credits[s] = Held("CANCELLED") /\ mem'.credits[s] = Held("CANCELLED")
  BY <1>1, <1>2, CancelEffect DEF TypeOK
<1>4. Running /\ pc # "save" /\ pc' # "save"
  BY DEF Cancels, Running
<1>5. SUFFICES ASSUME QueueMatches PROVE QueueMatches'
  BY <1>2, <1>4 DEF Exact
<1>6. Queued' = Queued
  BY <1>2 DEF Queued
<1>7. \A s \in S : db.credits[s].st # "NONE"
  BY <1>2 DEF CancelRefused
<1>8. \A k \in DOMAIN pend : pend[k].id \in OrderIds \ S
  <2>1. \A k \in DOMAIN pend : pend[k].id \in OrderIds
    BY QueuedAreKnown DEF LedgerInv, Exists
  <2>2. NoCredit.st = "NONE"
    BY DEF NoCredit
  <2>3. QED
    BY <1>5, <1>7, <2>1, <2>2 DEF QueueMatches
<1>9. \A i \in OrderIds \ Queued : RowsMatch(i)'
  BY <1>2, <1>3, <1>5 DEF QueueMatches, RowsMatch
<1>10. QED
  BY <1>2, <1>3, <1>5, <1>6, <1>8, <1>9 DEF QueueMatches, RowsMatch

LEMMA FlushesExact ==
  ASSUME LedgerInv, Exact, Flushes, pc = "flush", switches = 0
  PROVE  Exact'
<1> DEFINE e == Head(pend)
<1>1. /\ TypeOK /\ Stages /\ AgreedInv /\ CreditIInv /\ OrdersAgree /\ db \in LedgerType
      /\ mem \in LedgerType /\ pend \in Seq(Settlements) /\ pend # <<>> /\ FlushHead
      /\ mem' = mem /\ pc' # "save" /\ Running
  BY DEF LedgerInv, AgreedInv, Basic, AgreeIInv, TypeOK, Stages, Flushes, Running
<1>2. QueueMatches
  BY <1>1 DEF Exact
<1>3. /\ e = pend[1] /\ e.id \in Exists(db) /\ e.id \in OrderIds /\ db' \in LedgerType
      /\ pend' = Tail(pend) /\ db'.orders[e.id].st = e.result
      /\ \A j \in OrderIds \ {e.id} : /\ db'.orders[j] = db.orders[j]
                                      /\ db'.credits[j] = db.credits[j]
      /\ \A j \in OrderIds : SameOrder(db'.orders[j], db.orders[j])
      /\ Exists(db') = Exists(db)
  BY <1>1, FlushEffect
<1>4. /\ DOMAIN pend' = 1..Len(pend') /\ DOMAIN pend = 1..Len(pend) /\ 1 \in DOMAIN pend
      /\ \A m \in 1..Len(pend') : m + 1 \in 1..Len(pend) /\ pend'[m] = pend[m + 1]
  BY <1>1, <1>3, HeadTypes
<1>5. db'.credits[e.id] = e.credit
  <2>1. db.orders[e.id].st = "OPEN"
    BY <1>2, <1>3, <1>4 DEF QueueMatches
  <2>2. e.result # "OPEN"
    BY <1>1, HeadTypes DEF Results
  <2>3. QED
    BY <1>1, <2>1, <2>2, FlushKinds
<1>6. Queued' \subseteq Queued /\ Queued \subseteq Queued' \cup {e.id}
  BY <1>1, <1>3, FlushQueue
<1> HIDE DEF e
<1>7. mem.orders[e.id] = db'.orders[e.id] /\ mem.credits[e.id] = db'.credits[e.id]
  <2>1. mem.orders[e.id].st = e.result /\ mem.credits[e.id] = e.credit
    BY <1>2, <1>3, <1>4 DEF QueueMatches
  <2>2. SameOrder(mem.orders[e.id], db'.orders[e.id])
    BY <1>1, <1>3, SameIsEquivalence DEF OrdersAgree
  <2>3. mem.orders[e.id] \in Order /\ db'.orders[e.id] \in Order
    BY <1>1, <1>3 DEF OrdersAgree, Exists, LedgerType, NoOrder
  <2>4. QED
    BY <1>3, <1>5, <2>1, <2>2, <2>3 DEF Order, SameOrder
<1>8. \A i \in OrderIds \ Queued' : RowsMatch(i)'
  <2> SUFFICES ASSUME NEW i \in OrderIds \ Queued' PROVE RowsMatch(i)'
    OBVIOUS
  <2>1. CASE i = e.id
    BY <1>1, <1>7, <2>1 DEF RowsMatch
  <2>2. CASE i # e.id
    BY <1>1, <1>2, <1>3, <1>6, <2>2 DEF RowsMatch, QueueMatches
  <2>3. QED
    BY <2>1, <2>2
<1>9. ASSUME NEW k \in DOMAIN pend'
      PROVE  /\ mem.orders[pend'[k].id].st = pend'[k].result
             /\ mem.credits[pend'[k].id] = pend'[k].credit
             /\ db'.orders[pend'[k].id].st = "OPEN"
             /\ db'.credits[pend'[k].id] = NoCredit
  <2>1. k + 1 \in DOMAIN pend /\ pend'[k] = pend[k + 1] /\ k + 1 # 1
    BY <1>4
  <2>2. pend[k + 1].id # e.id
    BY <1>3, <1>4, <2>1 DEF LedgerInv, QueueIInv, QueueOrdered
  <2>3. pend[k + 1].id \in OrderIds
    BY <1>1, <2>1, QueuedAreKnown DEF Exists
  <2>4. QED
    BY <1>2, <1>3, <2>1, <2>2, <2>3 DEF QueueMatches
<1>10. QED
  BY <1>1, <1>8, <1>9 DEF Exact, QueueMatches

LEMMA SettlesExact ==
  ASSUME LedgerInv, Exact, SettleInMemory, switches = 0
  PROVE  Exact'
<1>1. /\ TypeOK /\ AgreedInv /\ CreditIInv /\ OrdersAgree /\ mem \in LedgerType
      /\ db \in LedgerType /\ pend \in Seq(Settlements)
  BY DEF LedgerInv, AgreedInv, Basic, AgreeIInv, TypeOK
<1>2. PICK i \in Due :
         LET result == Result(mem.orders[i])
             credit == Earned(mem, i, result, config.enabled, runtime.activated,
                              config.maxActive)
         IN  /\ i \in OrderIds /\ mem.orders[i].st = "OPEN" /\ mem.orders[i] \in Order
             /\ result \in Results /\ credit \in Credit
             /\ mem' = SettleOrder(mem, i, result, credit)
             /\ pend' = Append(pend, [id |-> i, result |-> result, credit |-> credit])
             /\ [id |-> i, result |-> result, credit |-> credit] \in Settlements
             /\ UNCHANGED <<tape, db, config, runtime, pc>> /\ pc = "settle"
  BY <1>1, SettleEffect
<1> DEFINE result == Result(mem.orders[i])
           credit == Earned(mem, i, result, config.enabled, runtime.activated,
                            config.maxActive)
           e == [id |-> i, result |-> result, credit |-> credit]
<1>3. mem' = SettleOrder(mem, i, result, credit) /\ result \in Results /\ credit \in Credit
      /\ pend' = Append(pend, e) /\ e \in Settlements
      /\ i \in Exists(mem) /\ e.id = i /\ e.result = result /\ e.credit = credit
  BY <1>2 DEF Exists
<1> HIDE DEF result, credit, e
<1>4. /\ \A j \in OrderIds \ {i} : /\ mem'.orders[j] = mem.orders[j]
                                   /\ mem'.credits[j] = mem.credits[j]
      /\ mem'.orders[i].st = result /\ mem'.credits[i] = credit
  BY <1>1, <1>3, SettleOrderEffect
<1>5. /\ DOMAIN pend = 1..Len(pend) /\ DOMAIN pend' = 1..(Len(pend) + 1)
      /\ \A k \in DOMAIN pend : pend'[k] = pend[k]
      /\ pend'[Len(pend) + 1] = e /\ Len(pend) \in Nat /\ Queued' = Queued \cup {i}
  BY <1>1, <1>3, SettleQueue
<1>6. QueueMatches /\ Running
  BY <1>2 DEF Exact, Running
<1>7. \A k \in DOMAIN pend : pend[k].id # i /\ pend[k].id \in OrderIds /\ pend[k].result # "OPEN"
  <2>1. \A k \in DOMAIN pend : pend[k].id \in OrderIds /\ pend[k].result # "OPEN"
    BY <1>1, QueuedAreKnown DEF Exists, Settlements, Results
  <2>2. QED
    BY <1>2, <1>6, <2>1 DEF QueueMatches
<1>8. i \in OrderIds \ Queued
  BY <1>2, <1>7 DEF Queued
<1>9. db.orders[i].st = "OPEN" /\ db.credits[i] = NoCredit
  <2>1. db.orders[i].st = "OPEN"
    BY <1>2, <1>6, <1>8 DEF QueueMatches, RowsMatch
  <2>2. QED
    BY <1>1, <1>2, <2>1, OpenHasNoCredit DEF CreditIInv
<1>10. \A j \in OrderIds \ Queued' : RowsMatch(j)'
  BY <1>2, <1>4, <1>5, <1>6 DEF QueueMatches, RowsMatch
<1>11. ASSUME NEW k \in DOMAIN pend'
       PROVE  /\ mem'.orders[pend'[k].id].st = pend'[k].result
              /\ mem'.credits[pend'[k].id] = pend'[k].credit
              /\ db'.orders[pend'[k].id].st = "OPEN"
              /\ db'.credits[pend'[k].id] = NoCredit
  <2>1. CASE k \in DOMAIN pend
    <3>1. pend'[k] = pend[k] /\ pend[k].id \in OrderIds \ {i} /\ db' = db
      BY <1>2, <1>5, <1>7, <2>1
    <3>2. QED
      BY <1>4, <1>6, <2>1, <3>1 DEF QueueMatches
  <2>2. CASE k = Len(pend) + 1
    BY <1>2, <1>3, <1>4, <1>5, <1>9, <2>2
  <2>3. QED
    BY <1>5, <2>1, <2>2
<1>12. QED
  BY <1>2, <1>10, <1>11 DEF Exact, QueueMatches
LEMMA OpensExact ==
  ASSUME LedgerInv, Exact, OpenInMemory, switches = 0
  PROVE  Exact'
<1>1. /\ TypeOK /\ Stages /\ CreditIInv /\ mem \in LedgerType
  BY DEF LedgerInv, AgreedInv, Basic, TypeOK
<1>2. PICK i \in OrderIds, grants \in BOOLEAN, source \in {0} \cup Eligible(mem, cand.dir, now) :
         LET order == [st |-> "OPEN", dir |-> cand.dir, opened |-> now, grants |-> grants,
                       source |-> source]
         IN  /\ i \notin Exists(mem) /\ order \in Order
             /\ mem' = AddOrder(mem, i, order)
             /\ Exists(mem') = Exists(mem) \cup {i} /\ Newest' = i
  BY <1>1, OpenEffect
<1> DEFINE order == [st |-> "OPEN", dir |-> cand.dir, opened |-> now, grants |-> grants,
                     source |-> source]
<1>3. order \in Order /\ mem' = AddOrder(mem, i, order) /\ order.source = source
  BY <1>2
<1> HIDE DEF order
<1>4. mem'.orders[i] = order /\ \A j \in OrderIds \ {i} : mem'.orders[j] = mem.orders[j]
  BY <1>1, <1>3, AddedOrders
<1>5. \A s \in OrderIds \ {source} : mem'.credits[s] = mem.credits[s]
  <2>1. \A s \in OrderIds \ {order.source} : AddOrder(mem, i, order).credits[s] = mem.credits[s]
    BY <1>1, <1>3, AddedCredits
  <2>2. QED
    BY <1>3, <2>1
<1>6. pc = "gate" /\ pc' = "save" /\ db' = db /\ pend = <<>> /\ Running
  BY <1>1 DEF OpenInMemory, disk, Stages, Running
<1>7. \A j \in OrderIds : RowsMatch(j)
  BY <1>6 DEF Exact, QueueMatches, Queued
<1>8. source # 0 => source \in OrderIds /\ db.credits[source] = Held("PENDING")
  <2>1. source # 0 => source \in OrderIds /\ mem.credits[source].st = "PENDING"
    BY DEF Eligible, Pending, Exists
  <2>2. source # 0 => mem.credits[source] \in Credit /\ mem.credits[source].by = 0
    BY <1>1, <2>1 DEF LedgerType, CreditIInv, Plain
  <2>3. source # 0 => mem.credits[source] = Held("PENDING")
    BY <2>1, <2>2 DEF Credit, Held
  <2>4. QED
    BY <1>7, <2>1, <2>3 DEF RowsMatch
<1>9. SaveMatches'
  BY <1>2, <1>3, <1>4, <1>5, <1>6, <1>7, <1>8 DEF SaveMatches, RowsMatch
<1>10. QED
  BY <1>6, <1>9 DEF Exact

LEMMA SavesExact ==
  ASSUME LedgerInv, Exact, SaveOpen, switches = 0
  PROVE  Exact'
<1> DEFINE i == Newest
           o == mem.orders[Newest]
<1>1. /\ TypeOK /\ Stages /\ CreditIInv /\ db \in LedgerType
  BY DEF LedgerInv, AgreedInv, Basic, TypeOK
<1>2. /\ i \in OrderIds /\ o \in Order /\ db' = AddOrder(db, i, o)
      /\ UNCHANGED <<mem, pend>> /\ pc = "save" /\ pc' = "notify"
  BY <1>1, SaveEffect
<1>3. o.source # 0 => mem.credits[o.source] = [st |-> "CONSUMED", by |-> i]
  BY <1>1, <1>2 DEF CreditIInv, SavePaid
<1>4. SaveMatches /\ pend = <<>>
  BY <1>1, <1>2 DEF Exact, Running, Stages
<1>5. /\ \A j \in OrderIds \ {i} : mem.orders[j] = db.orders[j]
      /\ \A r \in OrderIds \ {o.source} : mem.credits[r] = db.credits[r]
      /\ mem.orders[i] = o
  BY <1>4 DEF SaveMatches
<1> HIDE DEF i, o
<1>6. db'.orders[i] = o /\ \A j \in OrderIds \ {i} : db'.orders[j] = db.orders[j]
  BY <1>1, <1>2, AddedOrders
<1>7. /\ \A s \in OrderIds \ {o.source} : db'.credits[s] = db.credits[s]
      /\ o.source \in OrderIds => db'.credits[o.source] = [st |-> "CONSUMED", by |-> i]
  BY <1>1, <1>2, AddedCredits
<1>8. 0 \notin OrderIds
  BY LedgerAssumption DEF OrderIds
<1>9. \A j \in OrderIds : RowsMatch(j)'
  BY <1>2, <1>3, <1>5, <1>6, <1>7, <1>8 DEF RowsMatch
<1>10. pend' = <<>> /\ pc' # "save"
  BY <1>2, <1>4
<1>11. QED
  BY <1>9, <1>10 DEF Exact, QueueMatches

LEMMA ReturnsExact ==
  ASSUME LedgerInv, Exact, Returns, switches = 0
  PROVE  Exact'
<1> DEFINE i == Newest
           o == mem.orders[Newest]
<1>1. /\ TypeOK /\ Stages /\ OrdersAgree /\ db \in LedgerType /\ mem \in LedgerType
  BY DEF LedgerInv, AgreedInv, Basic, AgreeIInv, TypeOK
<1>2. /\ mem' = RemoveOrder(mem, i) /\ UNCHANGED <<db, pend>>
      /\ pc = "save" /\ pc' = "idle" /\ pend = <<>> /\ Running
  BY <1>1 DEF Returns, Stages, Running
<1>3. i \in Exists(mem) /\ i \in OrderIds
  BY <1>1, <1>2, NewestExists DEF Stages, Exists
<1>4. db.orders[i] = NoOrder
  <2>1. i \notin Exists(db)
    BY <1>1, <1>2, <1>3, LedgerAssumption DEF OrdersAgree, OrderIds
  <2>2. QED
    BY <1>1, <1>3, <2>1 DEF Exists, LedgerType, Order, Results
<1>5. /\ mem'.orders[i] = NoOrder
      /\ \A j \in OrderIds \ {i} : mem'.orders[j] = mem.orders[j]
      /\ \A r \in OrderIds \ {o.source} : mem'.credits[r] = mem.credits[r]
      /\ o.source # 0 => o.source \in OrderIds /\ mem'.credits[o.source] = Held("PENDING")
  BY <1>1, <1>2, <1>3, RemoveEffect
<1>6. SaveMatches
  BY <1>2 DEF Exact
<1>7. /\ \A j \in OrderIds \ {i} : mem.orders[j] = db.orders[j]
      /\ \A r \in OrderIds \ {o.source} : mem.credits[r] = db.credits[r]
      /\ o.source # 0 => db.credits[o.source] = Held("PENDING")
  BY <1>6 DEF SaveMatches
<1> HIDE DEF i, o
<1>8. 0 \notin OrderIds
  BY LedgerAssumption DEF OrderIds
<1>9. \A j \in OrderIds : RowsMatch(j)'
  BY <1>2, <1>4, <1>5, <1>7, <1>8 DEF RowsMatch
<1>10. QED
  BY <1>2, <1>9 DEF Exact, QueueMatches

LEMMA StepExact == LedgerInv /\ Exact /\ [Next]_vars => Exact'
<1> SUFFICES ASSUME LedgerInv, Exact, [Next]_vars PROVE Exact'
  OBVIOUS
<1>1. TypeOK /\ Stages /\ switches \in Nat
  BY DEF LedgerInv, AgreedInv, Basic, TypeOK
<1>2. CASE Tick
  <2>1. UNCHANGED <<db, mem, pend, pc, switches>>
    BY <1>2 DEF Tick, process, observed
  <2>2. QED
    BY <2>1, ExactFrame DEF Running
<1>3. CASE Quiet
  <2>1. UNCHANGED <<db, mem, pend, switches>> /\ (Running' => Running)
        /\ (pc' = "save" <=> pc = "save")
    BY <1>3 DEF Quiet, SettlementStage, Running
  <2>2. QED
    BY <2>1, ExactFrame
<1>4. CASE Forgets
  <2>1. ~Running'
    BY <1>4 DEF Forgets, Running
  <2>2. QED
    BY <2>1 DEF Exact
<1>5. CASE Prepares
  <2>1. ~Running'
    BY <1>5 DEF Prepares, Running
  <2>2. QED
    BY <2>1 DEF Exact
<1>6. CASE Loads
  <2>1. mem' = db' /\ pend' = pend /\ pc' # "save"
    BY <1>6 DEF Loads
  <2>2. CASE pend = <<>>
    BY <2>1, <2>2 DEF Exact, QueueMatches, RowsMatch
  <2>3. CASE pend # <<>>
    <3>1. switches' = switches + 1
      BY <1>1, <1>6, <2>3 DEF Loads, Stages
    <3>2. switches' # 0
      BY <1>1, <3>1
    <3>3. QED
      BY <3>2 DEF Exact
  <2>4. QED
    BY <2>2, <2>3
<1>7. ASSUME NEW S \in SUBSET AllPending(mem), Cancels(S) PROVE Exact'
  BY <1>7, CancelsExact
<1>8. CASE Flushes
  <2>1. switches' = switches
    BY <1>8 DEF Flushes
  <2>2. CASE pc = "flush" /\ switches = 0
    BY <1>8, <2>2, FlushesExact
  <2>3. CASE pc # "flush"
    <3>1. ~Running'
      BY <1>8, <2>3 DEF Flushes, Running
    <3>2. QED
      BY <3>1 DEF Exact
  <2>4. CASE switches # 0
    BY <2>1, <2>4 DEF Exact
  <2>5. QED
    BY <2>2, <2>3, <2>4
<1>9. CASE SettleInMemory
  <2>1. switches' = switches
    BY <1>1, <1>9, SettleEffect
  <2>2. QED
    BY <1>9, <2>1, SettlesExact DEF Exact
<1>10. CASE OpenInMemory
  <2>1. switches' = switches
    BY <1>10 DEF OpenInMemory, observed
  <2>2. QED
    BY <1>10, <2>1, OpensExact DEF Exact
<1>11. CASE SaveOpen
  <2>1. switches' = switches
    BY <1>1, <1>11, SaveEffect
  <2>2. QED
    BY <1>11, <2>1, SavesExact DEF Exact
<1>12. CASE Returns
  <2>1. switches' = switches
    BY <1>12 DEF Returns
  <2>2. QED
    BY <1>12, <2>1, ReturnsExact DEF Exact
<1>13. QED
  BY <1>1, <1>2, <1>3, <1>4, <1>5, <1>6, <1>7, <1>8, <1>9, <1>10, <1>11, <1>12, StepKinds

LEMMA InitExact == Init => Exact
BY DEF Init, Exact, Running

\* Until the symbol is reset for the first time, memory is what the disk
\* holds whenever nothing is queued and nothing is being opened, whatever
\* transactions failed and whatever restarts there were.  A reset that keeps
\* a queued settlement can break this.
THEOREM MemoryMatchesUntilReset == Spec => [](switches = 0 => MemoryMatchesDisk)
<1>1. ASSUME LedgerInv, Exact, switches = 0 PROVE MemoryMatchesDisk
  <2> SUFFICES ASSUME pc \in {"warmup", "idle", "decide", "gate"}, pend = <<>> PROVE mem = db
    BY DEF MemoryMatchesDisk
  <2>1. db \in LedgerType /\ mem \in LedgerType
    BY <1>1 DEF LedgerInv, AgreedInv, Basic, TypeOK
  <2>2. \A i \in OrderIds : RowsMatch(i)
    BY <1>1 DEF Exact, QueueMatches, Queued, Running
  <2>3. QED
    BY <2>1, <2>2, LedgersEqual DEF RowsMatch
<1>2. QED
  BY <1>1, InitLedger, StepLedger, InitExact, StepExact, PTL DEF Spec

-----------------------------------------------------------------------------
(* The disk refuses nothing that memory decided *)

\* A candidate recorded as opened has its order.
OpenedHaveOrders ==
    \A d \in Directions : <<d, "OPENED">> \in decided =>
        \E i \in Exists(db) : db.orders[i].dir = d /\ db.orders[i].opened = now

LEMMA OpenedCases ==
  ASSUME [Next]_vars, NEW d, <<d, "OPENED">> \in decided'
  PROVE  \/ <<d, "OPENED">> \in decided /\ now' = now
         \/ SaveOpen /\ d = cand.dir
<1> SUFFICES ASSUME ~SaveOpen PROVE <<d, "OPENED">> \in decided /\ now' = now
  BY DEF SaveOpen, Recorded, now
<1>1. CASE Tick
  BY <1>1 DEF Tick
<1>2. CASE Start
  <2>1. CASE FinishStart
    BY <2>1 DEF FinishStart, LoadLedger, now
  <2>2. ASSUME NEW enabled, NEW maxActive, PrepareStart(enabled, maxActive)
        PROVE  <<d, "OPENED">> \in decided /\ now' = now
    BY <2>2 DEF PrepareStart, now
  <2>3. ASSUME NEW ready, Seed(ready) PROVE <<d, "OPENED">> \in decided /\ now' = now
    BY <2>3 DEF Seed, now
  <2>4. QED
    BY <1>2, <2>1, <2>2, <2>3 DEF Start
<1>3. CASE Decide
  <2>1. CASE DecideWait \/ OpenInMemory \/ Notify
    BY <2>1 DEF DecideWait, OpenInMemory, Notify, disk, now
  <2>2. ASSUME NEW c, Replay(c) \/ BlockByRange(c)
        PROVE  <<d, "OPENED">> \in decided /\ now' = now
    BY <2>2 DEF Replay, BlockByRange, Recorded, now
  <2>3. ASSUME NEW c, NEW mode, JudgeCredits(c, mode)
        PROVE  <<d, "OPENED">> \in decided /\ now' = now
    BY <2>3 DEF JudgeCredits, now
  <2>4. ASSUME NEW recorded, Block(recorded)
        PROVE  <<d, "OPENED">> \in decided /\ now' = now
    BY <2>4 DEF Block, Recorded, now
  <2>5. QED
    BY <1>3, <2>1, <2>2, <2>3, <2>4 DEF Decide
<1>4. CASE Update
  <2>1. ASSUME NEW ready, BeginUpdate(ready)
        PROVE  <<d, "OPENED">> \in decided /\ now' = now
    BY <2>1 DEF BeginUpdate, disk, now
  <2>2. CASE BootstrapCancel \/ PersistWave \/ Flush \/ SettleInMemory \/ SettlementDone
    BY <2>2 DEF BootstrapCancel, PersistWave, Flush, SettleInMemory, SettlementDone, disk, now
  <2>3. QED
    BY <1>3, <1>4, <2>1, <2>2 DEF Update
<1>5. CASE Failures
  <2>1. CASE WarmupFails \/ BootstrapCancelFails \/ PersistWaveFails \/ FlushFails \/ BlockFails
             \/ SaveOpenFails
    BY <2>1
    DEF WarmupFails, BootstrapCancelFails, PersistWaveFails, FlushFails, BlockFails, SaveOpenFails,
        disk, now
  <2>2. ASSUME NEW c, JudgeCreditsFails(c) PROVE <<d, "OPENED">> \in decided /\ now' = now
    BY <2>2 DEF JudgeCreditsFails, disk, now
  <2>3. QED
    BY <1>5, <2>1, <2>2 DEF Failures
<1>6. CASE FlushWhileAway \/ Crash \/ ResetSymbol \/ LeaveSymbol
  BY <1>6 DEF FlushWhileAway, Crash, ResetSymbol, LoadLedger, LeaveSymbol, disk, now
<1>7. CASE UNCHANGED vars
  BY <1>7 DEF vars, disk, now
<1>8. QED
  BY <1>1, <1>2, <1>4, <1>5, <1>6, <1>7 DEF Next

LEMMA StepOpenedHaveOrders ==
  AgreedInv /\ OpenedHaveOrders /\ [Next]_vars => OpenedHaveOrders'
<1> SUFFICES ASSUME AgreedInv, OpenedHaveOrders, [Next]_vars, NEW d \in Directions,
                    <<d, "OPENED">> \in decided'
             PROVE  \E i \in Exists(db') : db'.orders[i].dir = d /\ db'.orders[i].opened = now'
  BY DEF OpenedHaveOrders
<1>1. CASE <<d, "OPENED">> \in decided /\ now' = now
  <2>1. PICK i \in Exists(db) : db.orders[i].dir = d /\ db.orders[i].opened = now
    BY <1>1 DEF OpenedHaveOrders
  <2>2. CASE SaveOpen
    <3>1. i \in Exists(db') /\ db'.orders[i] = db.orders[i]
      BY <2>2, SavedRow
    <3>2. QED
      BY <1>1, <2>1, <3>1
  <2>3. CASE /\ Exists(db') = Exists(db)
             /\ \A j \in OrderIds : SameOrder(db'.orders[j], db.orders[j])
    <3>1. i \in Exists(db') /\ SameOrder(db'.orders[i], db.orders[i])
      BY <2>3 DEF Exists
    <3>2. QED
      BY <1>1, <2>1, <3>1 DEF SameOrder
  <2>4. QED
    BY <2>2, <2>3, RowsGrow
<1>2. CASE SaveOpen /\ d = cand.dir
  <2>1. /\ Exists(db') = Exists(db) \cup {Newest} /\ db'.orders[Newest] = mem.orders[Newest]
        /\ mem.orders[Newest].dir = cand.dir /\ mem.orders[Newest].opened = now
        /\ tape' = tape
    BY <1>2, SavedRow
  <2>2. QED
    BY <1>2, <2>1 DEF now
<1>3. QED
  BY <1>1, <1>2, OpenedCases
RecordInv == RoomInv /\ OpeningsApart /\ OpenedHaveOrders

LEMMA InitRecord == Init => RecordInv
<1>1. Init => OpeningsApart
  BY EmptyTypes DEF Init, OpeningsApart
<1>2. Init => OpenedHaveOrders
  BY DEF Init, OpenedHaveOrders
<1>3. QED
  BY <1>1, <1>2, InitRoom DEF RecordInv

LEMMA StepRecord == RecordInv /\ [Next]_vars => RecordInv'
<1>1. RecordInv => AgreedInv
  BY DEF RecordInv, RoomInv, LedgerInv
<1>2. QED
  BY <1>1, StepRoom, StepOpeningsApart, StepOpenedHaveOrders DEF RecordInv

\* What the disk accepts from the queue, what a start accepts from the disk,
\* and the order that a recorded opening stands for.
RecordsAccepted ==
    /\ pend # <<>> => db.orders[Head(pend).id].st \in {"OPEN", Head(pend).result}
    /\ pc = "loading" => Accepted(db)
    /\ pc = "decide" => \A d \in Directions :
            <<d, "OPENED">> \in decided => Cardinality(RecordedOrders(d)) = 1

LEMMA RecordsAreAccepted == RecordInv => RecordsAccepted
<1> SUFFICES ASSUME RecordInv PROVE RecordsAccepted
  OBVIOUS
<1>1. /\ TypeOK /\ AgreedInv /\ ResultsRight /\ Provenance(db) /\ db \in LedgerType
      /\ pend \in Seq(Settlements) /\ now \in Nat
  BY DEF RecordInv, RoomInv, LedgerInv, AgreedInv, Basic, CreditIInv, TypeOK, now
<1>2. ASSUME pend # <<>> PROVE db.orders[Head(pend).id].st \in {"OPEN", Head(pend).result}
  <2>1. 1 \in DOMAIN pend /\ Head(pend) = pend[1]
    BY <1>1, <1>2, HeadTypes
  <2>2. db.orders[pend[1].id] \in Order /\ pend[1].id \in OrderIds
    BY <1>1, <2>1, QueuedAreKnown DEF Exists
  <2>3. db.orders[pend[1].id].st \in Results => db.orders[pend[1].id].st = pend[1].result
    BY <1>1, <2>1, <2>2 DEF ResultsRight, RowRight, RightOn
  <2>4. QED
    BY <2>1, <2>2, <2>3 DEF Order
<1>3. Accepted(db)
  <2>1. ASSUME NEW s \in OrderIds, NEW t \in OrderIds, db.credits[s].st = "CONSUMED",
               db.credits[t].st = "CONSUMED", db.credits[s].by = db.credits[t].by
        PROVE  s = t
    BY <1>1, <2>1 DEF Provenance, ConsumedWell
  <2>2. ASSUME NEW i \in Open(db), db.orders[i].source # 0
        PROVE  \E s \in OrderIds : db.credits[s].st = "CONSUMED" /\ db.credits[s].by = i
    <3>1. i \in Exists(db) /\ db.orders[i] \in Order
      BY <1>1 DEF Open, Exists, LedgerType, NoOrder
    <3>2. db.orders[i].source \in OrderIds
      BY <2>2, <3>1 DEF Order
    <3>3. QED
      BY <1>1, <2>2, <3>1, <3>2 DEF Provenance
  <2>3. QED
    BY <2>1, <2>2 DEF Accepted, NoneConsumedTwice, SecondsPaidFor
<1>4. ASSUME NEW d \in Directions, <<d, "OPENED">> \in decided
      PROVE  Cardinality(RecordedOrders(d)) = 1
  <2>1. PICK i \in Exists(db) : db.orders[i].dir = d /\ db.orders[i].opened = now
    BY <1>4 DEF RecordInv, OpenedHaveOrders
  <2>2. ASSUME NEW j \in Exists(db), db.orders[j].dir = d, db.orders[j].opened = now PROVE j = i
    <3>1. ~(i < j) /\ ~(j < i)
      BY <1>1, <2>1, <2>2, MonitorAssumption DEF RecordInv, OpeningsApart
    <3>2. i \in Nat /\ j \in Nat
      BY LedgerAssumption DEF Exists, OrderIds
    <3>3. QED
      BY <3>1, <3>2
  <2>3. RecordedOrders(d) = {i}
    BY <2>1, <2>2 DEF RecordedOrders
  <2>4. QED
    BY <2>3, FS_Singleton
<1>5. QED
  BY <1>2, <1>3, <1>4 DEF RecordsAccepted

\* The disk accepts every settlement at the head of the queue, a start accepts
\* what the disk holds, whatever the service was stopped in the middle of, and
\* a candidate recorded as opened has its one order: also after resets.
THEOREM QueueAndStartAreAccepted == Spec => []RecordsAccepted
BY RecordsAreAccepted, InitRecord, StepRecord, PTL DEF Spec

\* Until the symbol is reset, the disk never refuses what memory decided: the
\* order being saved is new to it, and the credit it spends waits there.
THEOREM NothingIsRefusedUntilReset == Spec => [](switches = 0 => NeverRefused)
<1>1. ASSUME RecordInv, Exact, switches = 0 PROVE NeverRefused
  <2>1. ASSUME pc = "save" PROVE ~SaveRefused(Newest, mem.orders[Newest])
    <3>1. /\ TypeOK /\ Stages /\ OrdersAgree /\ mem \in LedgerType
      BY <1>1 DEF RecordInv, RoomInv, LedgerInv, AgreedInv, Basic, AgreeIInv, TypeOK
    <3>2. Newest \in Exists(mem) /\ Newest \in OrderIds
      BY <2>1, <3>1, NewestExists DEF Stages, Exists
    <3>3. Newest \notin Exists(db)
      BY <2>1, <3>1, <3>2, LedgerAssumption DEF OrdersAgree, OrderIds
    <3>4. db.orders[Newest].st = "NONE"
      BY <3>2, <3>3 DEF Exists
    <3>5. mem.orders[Newest].source # 0 => db.credits[mem.orders[Newest].source] = Held("PENDING")
      BY <1>1, <2>1 DEF Exact, Running, SaveMatches
    <3>6. QED
      BY <3>4, <3>5 DEF SaveRefused, Held
  <2>2. QED
    BY <1>1, <2>1, RecordsAreAccepted DEF NeverRefused, RecordsAccepted
<1>2. RecordInv => LedgerInv
  BY DEF RecordInv, RoomInv
<1>3. QED
  BY <1>1, <1>2, InitRecord, StepRecord, InitExact, StepExact, PTL DEF Spec
=============================================================================
