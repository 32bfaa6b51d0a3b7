--------------------------- MODULE MonitorLedger ---------------------------
(***************************************************************************)
(* The order ledger of one symbol in the running service: MonitorState,    *)
(* its AccountSimulator in memory, the queue of settlements not yet on     *)
(* disk, the SQLite tables, and the process that crashes, is restarted     *)
(* with other settings, and is switched to another symbol and back.        *)
(*                                                                         *)
(* update_from_klines holds the state lock from its second half to its     *)
(* end, so nothing but a crash comes between its transactions.  One action *)
(* stands for one transaction (which commits or fails) or for the work in  *)
(* memory between two of them; pc names the point reached.                 *)
(*                                                                         *)
(* The market is the tape of closing prices, one per minute.  What the     *)
(* signals and the guards decide is a choice of the environment: the       *)
(* direction, which credits are stale, whether the candidate is blocked,   *)
(* whether it may use and may earn a credit.                               *)
(***************************************************************************)
EXTENDS Ledger, Sequences

CONSTANTS
    MaxOpen, MaxOpenLong, MaxOpenShort,     \* OrderPolicy
    MinGap,             \* OrderPolicy.min_order_gap_ms, in minutes
    EnabledChoices,     \* values of enable_stake_progression a start may use
    MaxActiveChoices,   \* values of stake_progression_max_active a start may use
    WaveReadyChoices,   \* what a wave evaluation may find: stable or not
    Prices,             \* closing prices
    MaxFaults,          \* bound: crashes and failed transactions
    MaxSwitches         \* bound: symbol switches

(* The gap the service ships with is two minutes; with none, two orders of  *)
(* one minute would differ by their signal keys, which are not modelled.    *)
ASSUME MonitorAssumption ==
    /\ MaxOpen \in Nat /\ MaxOpenLong \in Nat /\ MaxOpenShort \in Nat
    /\ MinGap \in Nat \ {0}
    /\ EnabledChoices \subseteq BOOLEAN
    /\ MaxActiveChoices \subseteq Nat \ {0}
    /\ \E n \in MaxActiveChoices : \A m \in MaxActiveChoices : m <= n
    /\ WaveReadyChoices \subseteq BOOLEAN
    /\ Prices \subseteq Nat
    /\ MaxFaults \in Nat /\ MaxSwitches \in Nat

VARIABLES
    tape,           \* closing prices so far; tape[t] is minute t
    (* on disk *)
    db,             \* orders and stake_progression_credits
    runtime,        \* stake_progression_runtime
    waveSaved,      \* wave_runtime holds a snapshot of this symbol
    decided,        \* decision_contexts: what is recorded, under the present
                    \* settings, of the candidates of the last minute
    (* in the process *)
    pc,             \* the point reached, "down" when the process is not running
    config,         \* enable_stake_progression, stake_progression_max_active
    mem,            \* AccountSimulator
    pend,           \* _pending_settlement_events
    bootReq,        \* _wave_runtime_bootstrap_required
    bootCancel,     \* _wave_bootstrap_cancel_pending
    cursor,         \* the last minute the market coordinator saw succeed
    cand,           \* the candidate under decision
    (* observed *)
    sent,           \* webhooks sent, per order
    legacy,         \* credits pending at a start that found no wave snapshot
    faults, switches

disk == <<db, runtime, waveSaved, decided>>
process == <<config, mem, pend, bootReq, bootCancel, cursor, cand>>
observed == <<sent, legacy, switches>>
vars == <<tape, disk, pc, process, observed, faults>>

now == Len(tape)
DirLimit(d) == IF d = "LONG" THEN MaxOpenLong ELSE MaxOpenShort
Verdicts == {"BLOCKED", "OPENED"}
NoCandidate == [dir |-> "WAIT", mode |-> "NORMAL"]

-----------------------------------------------------------------------------
(* The market *)

\* AccountSimulator._is_win: a flat price is a loss.
IsWin(d, entry, exit) == IF d = "LONG" THEN exit > entry ELSE exit < entry

ResultAt(o, exitMinute) ==
    IF IsWin(o.dir, tape[o.opened], tape[exitMinute]) THEN "WIN" ELSE "LOSS"

\* The candle whose close time is the order's expiry decides, not the latest.
ResultAtLatest(o) == ResultAt(o, now)
Result(o) == ResultAt(o, o.opened + Lifetime)

\* A minute closes.  Updates are much shorter than a minute, and what they
\* do depends only on the minutes already closed.
Tick ==
    /\ now < MaxTime
    /\ pc \in {"down", "idle", "away"}
    /\ \E p \in Prices : tape' = Append(tape, p)
    /\ decided' = {}
    /\ UNCHANGED <<db, runtime, waveSaved, pc, process, observed, faults>>

-----------------------------------------------------------------------------
(* Start, restart and symbol switch *)

Init ==
    /\ tape = <<>>
    /\ db = EmptyLedger
    /\ runtime = [known |-> FALSE, enabled |-> FALSE, activated |-> 0]
    /\ waveSaved = FALSE
    /\ decided = {}
    /\ pc = "down"
    /\ config = [enabled |-> FALSE, maxActive |-> 1]
    /\ mem = EmptyLedger
    /\ pend = <<>>
    /\ bootReq = FALSE /\ bootCancel = FALSE
    /\ cursor = 0
    /\ cand = NoCandidate
    /\ sent = [i \in OrderIds |-> 0]
    /\ legacy = {}
    /\ faults = 0 /\ switches = 0

ForgetProcess ==
    /\ mem' = EmptyLedger
    /\ bootReq' = FALSE /\ bootCancel' = FALSE
    /\ cursor' = 0
    /\ cand' = NoCandidate
    /\ legacy' = {}

Crash ==
    /\ pc # "down"
    /\ faults < MaxFaults
    /\ faults' = faults + 1
    /\ pc' = "down"
    /\ ForgetProcess
    /\ pend' = <<>>
    /\ UNCHANGED <<tape, disk, config, sent, switches>>

\* prepare_stake_progression: switching the progression on or off cancels
\* the pending credits of the earlier life; switching it on dates it.  The
\* clock reads later than the minute that closed last, so the first order
\* that can earn is one of the next minute.
ReopensProgression(enabled) == runtime.known /\ ~runtime.enabled /\ enabled
PrepareCancels(enabled) ==
    IF runtime.known THEN runtime.enabled # enabled ELSE ~enabled
PrepareStart(enabled, maxActive) ==
    /\ pc = "down"
    /\ db' = CancelCredits(db, IF PrepareCancels(enabled) THEN AllPending(db) ELSE {})
    /\ runtime' = [known |-> TRUE, enabled |-> enabled,
                   activated |-> IF ~runtime.known \/ ReopensProgression(enabled)
                                 THEN now + 1 ELSE runtime.activated]
    /\ config' = [enabled |-> enabled, maxActive |-> IF maxActive < MaxOpen
                                                     THEN maxActive ELSE MaxOpen]
    \* A decision is looked up under the hash of the settings it was made with.
    /\ decided' = IF config' = config THEN decided ELSE {}
    /\ pc' = "loading"
    /\ UNCHANGED <<tape, waveSaved, mem, pend, bootReq, bootCancel, cursor, cand,
                   observed, faults>>

\* The rest of _build_simulator and of the constructor: the rows are read,
\* the credits above the capacity are cancelled, in memory and then on disk
\* in one transaction whose failure ends the start (a Crash of the model).
\* Rows that contradict each other would be refused (NeverRefused).
NoneConsumedTwice(l) ==
    \A s, t \in OrderIds : l.credits[s].st = "CONSUMED" /\ l.credits[t].st = "CONSUMED"
                             /\ l.credits[s].by = l.credits[t].by => s = t
SecondsPaidFor(l) ==
    \A i \in Open(l) : l.orders[i].source # 0 =>
        \E s \in OrderIds : l.credits[s].st = "CONSUMED" /\ l.credits[s].by = i
Accepted(l) == NoneConsumedTwice(l) /\ SecondsPaidFor(l)

Restored == CancelCredits(db, Excess(db, config.enabled, config.maxActive))

LoadLedger ==
    LET loaded == Restored IN
    /\ Accepted(db)
    /\ db' = loaded
    /\ mem' = loaded
    /\ bootReq' = ~waveSaved
    /\ bootCancel' = (bootReq' /\ AllPending(loaded) # {})
    /\ legacy' = IF bootReq' THEN AllPending(loaded) ELSE {}
    /\ cursor' = 0
    /\ pc' = "warmup"
    /\ UNCHANGED <<tape, runtime, waveSaved, decided, config, cand, sent, faults>>

FinishStart ==
    /\ pc = "loading"
    /\ LoadLedger
    /\ UNCHANGED <<pend, switches>>

\* reset_symbol to this symbol, from another one or from itself.  The market
\* coordinator is paused, so no update is under way.  Preparing changes
\* nothing, for the settings are those of the start.  The queue of
\* settlements not yet on disk is kept.
ResetSymbol ==
    /\ pc \in {"idle", "away"}
    /\ switches < MaxSwitches
    /\ switches' = switches + 1
    /\ LoadLedger
    /\ UNCHANGED pend

\* reset_symbol to another symbol.
LeaveSymbol ==
    /\ pc = "idle"
    /\ switches < MaxSwitches
    /\ switches' = switches + 1
    /\ pc' = "away"
    /\ ForgetProcess
    /\ UNCHANGED <<tape, disk, config, pend, sent, faults>>

-----------------------------------------------------------------------------
(* Transactions that several handlers use *)

\* A transaction fails: nothing is written, the handler gives up.
StorageFails == faults < MaxFaults /\ faults' = faults + 1

\* cancel_stake_progression_credits is all or nothing and refuses a credit
\* that is not on disk or was consumed.
CancelRefused(S) == \E s \in S : db.credits[s].st \in {"NONE", "CONSUMED"}
CancelDiskOnly(S) ==
    /\ ~CancelRefused(S)
    /\ db' = CancelCredits(db, S)
    /\ mem' = mem
CancelBoth(S) ==
    /\ ~CancelRefused(S)
    /\ db' = CancelCredits(db, S)
    /\ mem' = CancelCredits(mem, S)

CancelFails(S) ==
    IF CancelRefused(S) THEN faults' = faults ELSE StorageFails

\* _upsert_progression_credit: a credit row can change only while pending.
Upsert(old, new) ==
    IF new.st = "NONE" THEN old
    ELSE IF old.st \in {"NONE", "PENDING"} THEN new ELSE old

\* save_settled_order_with_credit: a settled row is left as it is.
SettleRow(i, result, credit) ==
    [orders  |-> [db.orders EXCEPT ![i].st = result],
     credits |-> [db.credits EXCEPT ![i] = Upsert(@, credit)]]

-----------------------------------------------------------------------------
(* Warm-up: apply_warmup and seed_klines *)

\* The history cannot be fetched.
WarmupFails ==
    /\ pc = "warmup"
    /\ pc' = "idle"
    /\ UNCHANGED <<tape, disk, process, observed, faults>>

\* The history is seeded.  When the wave is stable and no snapshot existed,
\* the credits pending since then are cancelled, and only then the snapshot
\* is written.  A failing write ends the seeding and is not retried.
Seed(ready) ==
    LET due == bootReq /\ ready /\ bootCancel
        S   == IF due THEN AllPending(mem) ELSE {}
        persists == ~bootReq \/ ready
    IN
    /\ pc = "warmup"
    /\ pc' = "idle"
    /\ cursor' = now
    /\ \/ /\ CancelBoth(S)
          /\ bootCancel' = (bootCancel /\ ~due)
          /\ \/ /\ waveSaved' = (waveSaved \/ persists)
                /\ bootReq' = (bootReq /\ ~persists)
                /\ faults' = faults
             \/ /\ persists
                /\ StorageFails
                /\ UNCHANGED <<waveSaved, bootReq>>
       \/ /\ S # {}
          /\ CancelFails(S)
          /\ UNCHANGED <<db, mem, waveSaved, bootReq, bootCancel>>
    /\ UNCHANGED <<tape, runtime, decided, config, pend, cand, observed>>

-----------------------------------------------------------------------------
(* update_from_klines *)

\* Minutes after MaxTime bring updates but are not numbered.
Fresh == now > 0 /\ (now > cursor \/ now = MaxTime)

SettlementStage == IF pend = <<>> THEN "settle" ELSE "flush"

\* The klines are merged and the wave is advanced.
BeginUpdate(ready) ==
    /\ pc = "idle"
    /\ Fresh
    /\ pc' = IF bootReq /\ ready /\ bootCancel THEN "bootstrap"
             ELSE IF ~bootReq \/ ready THEN "wave"
             ELSE SettlementStage
    /\ UNCHANGED <<tape, disk, process, observed, faults>>

\* The update returns False: the minute is retried.
GiveUp(stage) ==
    /\ pc = stage
    /\ pc' = "idle"

BootstrapCancel ==
    /\ pc = "bootstrap"
    /\ CancelBoth(AllPending(mem))
    /\ bootCancel' = FALSE
    /\ pc' = "wave"
    /\ UNCHANGED <<tape, runtime, waveSaved, decided, config, pend, bootReq, cursor, cand,
                   observed, faults>>

BootstrapCancelFails ==
    /\ GiveUp("bootstrap")
    /\ CancelFails(AllPending(mem))
    /\ UNCHANGED <<tape, disk, process, observed>>

PersistWave ==
    /\ pc = "wave"
    /\ waveSaved' = TRUE
    /\ bootReq' = FALSE
    /\ pc' = SettlementStage
    /\ UNCHANGED <<tape, db, runtime, decided, config, mem, pend, bootCancel, cursor, cand,
                   observed, faults>>

PersistWaveFails ==
    /\ GiveUp("wave")
    /\ StorageFails
    /\ UNCHANGED <<tape, disk, process, observed>>

\* _flush_pending_settlement_events, one event.  It runs before settling and
\* again after, and inside the updates of another symbol.
FlushHeadKeeping ==
    /\ db' = SettleRow(Head(pend).id, Head(pend).result, Head(pend).credit)
    /\ pend' = pend
FlushHead ==
    LET e == Head(pend) IN
    /\ db.orders[e.id].st \in {"OPEN", e.result}
    /\ db' = SettleRow(e.id, e.result, e.credit)
    /\ pend' = Tail(pend)

Flush ==
    /\ pc = "flush"
    /\ FlushHead
    /\ pc' = IF Tail(pend) = <<>> THEN "settle" ELSE "flush"
    /\ UNCHANGED <<tape, runtime, waveSaved, decided, config, mem, bootReq, bootCancel,
                   cursor, cand, observed, faults>>

FlushFails ==
    /\ GiveUp("flush")
    /\ StorageFails
    /\ UNCHANGED <<tape, disk, process, observed>>

FlushWhileAway ==
    /\ pc = "away"
    /\ pend # <<>>
    /\ FlushHead
    /\ UNCHANGED <<tape, runtime, waveSaved, decided, pc, config, mem, bootReq, bootCancel,
                   cursor, cand, observed, faults>>

\* The orders whose expiry minute is among the klines, in id order.
DueThisMinute == {i \in Open(mem) : Expiry(mem, i) = now}
Due == {i \in Open(mem) : Expiry(mem, i) <= now}

SettleInMemory ==
    /\ pc = "settle"
    /\ \E i \in Due :
        LET result == Result(mem.orders[i])
            credit == Earned(mem, i, result, config.enabled, runtime.activated,
                             config.maxActive)
        IN /\ \A j \in Due : i <= j
           /\ mem' = SettleOrder(mem, i, result, credit)
           /\ pend' = Append(pend, [id |-> i, result |-> result, credit |-> credit])
    /\ UNCHANGED <<tape, disk, pc, config, bootReq, bootCancel, cursor, cand, observed, faults>>

SettlementDone ==
    /\ pc = "settle"
    /\ Due = {}
    /\ pc' = IF pend = <<>> THEN "decide" ELSE "flush"
    /\ UNCHANGED <<tape, disk, process, observed, faults>>

-----------------------------------------------------------------------------
(* _maybe_open_order *)

\* The update returns True: the coordinator moves its cursor.
Finish ==
    /\ pc' = "idle"
    /\ cursor' = now
    /\ cand' = NoCandidate

\* No signal: there is no credit to judge, but the start-up duty to cancel
\* the old credits is considered done.
DecideWait ==
    /\ pc = "decide"
    /\ Finish
    /\ bootCancel' = FALSE
    /\ UNCHANGED <<tape, disk, config, mem, pend, bootReq, observed, faults>>

\* What is decided of a candidate is recorded with it.  When the candidate of
\* this minute is already recorded (load_decision_context_for_candidate), the
\* recorded decision is returned.
Recorded(d, verdict) == decided \cup {<<d, verdict>>}

CommittedNever(d) == FALSE
Committed(d) == \E v \in Verdicts : <<d, v>> \in decided

RecordedOrders(d) == {i \in Exists(db) : db.orders[i].dir = d /\ db.orders[i].opened = now}

\* An order recorded and not in memory is read from disk, with all the others.
Replay(d) ==
    /\ pc = "decide"
    /\ Committed(d)
    /\ <<d, "OPENED">> \in decided => Cardinality(RecordedOrders(d)) = 1
    /\ IF <<d, "OPENED">> \in decided /\ ~(RecordedOrders(d) \subseteq Exists(mem))
       THEN db' = Restored /\ mem' = Restored
       ELSE UNCHANGED <<db, mem>>
    /\ Finish
    /\ UNCHANGED <<tape, runtime, waveSaved, decided, config, pend, bootReq, bootCancel,
                   observed, faults>>

\* The range policy blocks before the credits are looked at.
BlockByRange(d) ==
    /\ pc = "decide"
    /\ ~Committed(d)
    /\ decided' = Recorded(d, "BLOCKED")
    /\ Finish
    /\ UNCHANGED <<tape, db, runtime, waveSaved, config, mem, pend, bootReq, bootCancel,
                   observed, faults>>

Modes == {"NORMAL", "LOCKED", "RECOVERY", "PROBE"}

\* Which credits of the direction the wave batch guard and the wave withdraw.
\* LOCKED: the batch guard blocks; RECOVERY: its single recovery order;
\* PROBE: a recovery order that is also the probe of a degraded profile.
Withdrawn(mode, d) ==
    CASE mode \in {"LOCKED", "RECOVERY"} -> {Pending(mem, d)}
      [] mode = "PROBE" -> {{}}
      [] mode = "NORMAL" -> IF bootCancel THEN {Pending(mem, d)} ELSE SUBSET Pending(mem, d)

JudgeCredits(d, mode) ==
    /\ pc = "decide"
    /\ ~Committed(d)
    /\ \E S \in Withdrawn(mode, d) : CancelBoth(S)
    /\ bootCancel' = FALSE
    /\ cand' = [dir |-> d, mode |-> mode]
    /\ pc' = "gate"
    /\ UNCHANGED <<tape, runtime, waveSaved, decided, config, pend, bootReq, cursor,
                   observed, faults>>

JudgeCreditsFails(d) ==
    /\ GiveUp("decide")
    /\ ~Committed(d)
    /\ \E mode \in Modes : \E S \in Withdrawn(mode, d) \ {{}} : CancelFails(S)
    /\ UNCHANGED <<tape, disk, process, observed>>

\* Any guard from the wave direction on, or OrderPolicy, refuses.  The
\* decision is recorded, unless the signal was neither actionable nor worth
\* an observation.
Block(recorded) ==
    /\ pc = "gate"
    /\ decided' = IF recorded THEN Recorded(cand.dir, "BLOCKED") ELSE decided
    /\ Finish
    /\ UNCHANGED <<tape, db, runtime, waveSaved, config, mem, pend, bootReq, bootCancel,
                   observed, faults>>

BlockFails ==
    /\ GiveUp("gate") \/ GiveUp("decide")
    /\ StorageFails
    /\ cand' = NoCandidate
    /\ UNCHANGED <<tape, disk, config, mem, pend, bootReq, bootCancel, cursor, observed>>

\* OrderPolicy.evaluate.  A signal key seen before has the same minute and
\* direction as an order of memory, which the gap already refuses.
PolicyAllowsTooSoon(d) ==
    /\ Cardinality(Open(mem)) < MaxOpen
    /\ Cardinality(OpenIn(mem, d)) < DirLimit(d)
    /\ \A i \in OpenIn(mem, d) : now - mem.orders[i].opened >= MinGap - 1
PolicyAllows(d) ==
    /\ Cardinality(Open(mem)) < MaxOpen
    /\ Cardinality(OpenIn(mem, d)) < DirLimit(d)
    /\ \A i \in Exists(mem) : mem.orders[i].dir = d => now - mem.orders[i].opened >= MinGap

\* allow_progression: whether the order may consume a credit; allow_credit:
\* whether it will earn one.
Terms == {t \in [progression : BOOLEAN, grants : BOOLEAN] :
            /\ cand.mode \in {"RECOVERY", "PROBE"} => ~t.progression
            /\ cand.mode = "RECOVERY" => ~t.grants}

OpenInMemory ==
    /\ pc = "gate"
    /\ cand.mode # "LOCKED"
    /\ PolicyAllows(cand.dir)
    /\ now + Lifetime <= MaxTime
    /\ \E i \in OrderIds, t \in Terms :
        /\ IsNextId(mem, i)
        /\ mem' = AddOrder(mem, i,
                    [st |-> "OPEN", dir |-> cand.dir, opened |-> now, grants |-> t.grants,
                     source |-> Assign(mem, config.enabled /\ t.progression, cand.dir, now)])
    /\ pc' = "save"
    /\ UNCHANGED <<tape, disk, config, pend, bootReq, bootCancel, cursor, cand, observed, faults>>

\* save_open_order_decision: the order, the credit it consumed and the
\* decision in one transaction, which refuses an id already used and a credit
\* that cannot be consumed any more.
Newest == CHOOSE i \in Exists(mem) : \A j \in Exists(mem) : j <= i
SaveRefused(i, order) ==
    \/ db.orders[i].st # "NONE"
    \/ order.source # 0 /\ db.credits[order.source].st # "PENDING"

SaveOpen ==
    /\ pc = "save"
    /\ ~SaveRefused(Newest, mem.orders[Newest])
    /\ db' = AddOrder(db, Newest, mem.orders[Newest])
    /\ decided' = Recorded(cand.dir, "OPENED")
    /\ pc' = "notify"
    /\ UNCHANGED <<tape, runtime, waveSaved, process, observed, faults>>

\* The transaction fails and the order of memory is rolled back.
SaveOpenFailsUnnoticed ==
    /\ pc = "save"
    /\ StorageFails
    /\ pc' = "notify"
    /\ UNCHANGED <<tape, disk, process, observed>>
SaveOpenFails ==
    /\ GiveUp("save")
    /\ IF SaveRefused(Newest, mem.orders[Newest]) THEN faults' = faults ELSE StorageFails
    /\ mem' = RemoveOrder(mem, Newest)
    /\ cand' = NoCandidate
    /\ UNCHANGED <<tape, disk, config, pend, bootReq, bootCancel, cursor, observed>>

Notify ==
    /\ pc = "notify"
    /\ sent' = [sent EXCEPT ![Newest] = @ + 1]
    /\ Finish
    /\ UNCHANGED <<tape, disk, config, mem, pend, bootReq, bootCancel, legacy, switches, faults>>

-----------------------------------------------------------------------------
Decide ==
    \/ DecideWait
    \/ \E d \in Directions :
        \/ Replay(d)
        \/ BlockByRange(d)
        \/ \E mode \in Modes : JudgeCredits(d, mode)
    \/ \E recorded \in BOOLEAN : Block(recorded)
    \/ OpenInMemory
    \/ SaveOpen
    \/ Notify

Update ==
    \/ \E ready \in WaveReadyChoices : BeginUpdate(ready)
    \/ BootstrapCancel
    \/ PersistWave
    \/ Flush
    \/ SettleInMemory
    \/ SettlementDone
    \/ Decide

Start ==
    \/ \E enabled \in EnabledChoices, maxActive \in MaxActiveChoices :
            PrepareStart(enabled, maxActive)
    \/ FinishStart
    \/ \E ready \in WaveReadyChoices : Seed(ready)

Failures ==
    \/ WarmupFails
    \/ BootstrapCancelFails
    \/ PersistWaveFails
    \/ FlushFails
    \/ \E d \in Directions : JudgeCreditsFails(d)
    \/ BlockFails
    \/ SaveOpenFails

Next == Tick \/ Start \/ Update \/ FlushWhileAway \/ Failures \/ Crash \/ ResetSymbol \/ LeaveSymbol

Spec == Init /\ [][Next]_vars

\* An update that can go on goes on, and so does a start; a minute closes
\* while the service is ready for it; a process that is down is started again.
\* Failed transactions and crashes are not fair: they are bounded.
Fairness == WF_vars(Tick) /\ WF_vars(Start) /\ WF_vars(Update \/ Failures)

FairSpec == Spec /\ Fairness

-----------------------------------------------------------------------------
(* Properties *)

\* The shape of the state.
Runtimes == [known : BOOLEAN, enabled : BOOLEAN, activated : 0..(MaxTime + 1)]
Configs == [enabled : BOOLEAN, maxActive : Nat]
Settlements == [id : OrderIds, result : Results, credit : Credit]
Candidates == [dir : Directions \cup {"WAIT"}, mode : Modes]
Points == {"down", "loading", "warmup", "idle", "away", "bootstrap", "wave", "flush",
           "settle", "decide", "gate", "save", "notify"}
TypeOK ==
    /\ tape \in Seq(Prices) /\ now <= MaxTime
    /\ db \in LedgerType /\ mem \in LedgerType
    /\ runtime \in Runtimes
    /\ waveSaved \in BOOLEAN /\ bootReq \in BOOLEAN /\ bootCancel \in BOOLEAN
    /\ decided \subseteq (Directions \X Verdicts)
    /\ pc \in Points
    /\ config \in Configs
    /\ pend \in Seq(Settlements)
    /\ cursor \in 0..MaxTime
    /\ cand \in Candidates
    /\ sent \in [OrderIds -> Nat] /\ legacy \subseteq OrderIds
    /\ faults \in 0..MaxFaults /\ switches \in 0..MaxSwitches

\* While the service runs, the credits on disk respect the settings it runs
\* with: none waits when the progression is off, and per direction the
\* waiting ones and the second-stage orders in flight fit max_active.  A
\* restart with a smaller max_active may find more in flight than that; then
\* none may wait (reconcile, stake_progression.py).
CreditsWithinSettings ==
    pc \notin {"down", "loading"} =>
        /\ AllPending(db) # {} => config.enabled
        /\ \A d \in Directions : Pending(db, d) # {} =>
                Cardinality(Reserved(db, d)) <= config.maxActive

\* What the process believes is what the disk holds, whenever no settlement is
\* waiting to be written and no opening is under way: a rolled back opening,
\* a failed cancellation or a restart leaves no trace in memory.  (A reset of
\* the symbol can leave one, run monitor_reset.)
MemoryMatchesDisk ==
    pc \in {"warmup", "idle", "decide", "gate"} /\ pend = <<>> => mem = db

\* A settled order carries the result of the minute it expired in, however
\* late, and after whatever restarts, it was settled (README: a settlement
\* never borrows the later price of the recovery).
SettledAtExpiryPrice ==
    \A i \in Exists(db) : db.orders[i].st \in Results =>
        /\ Expiry(db, i) <= now
        /\ LET o == db.orders[i] IN
           (o.st = "WIN") <=> IsWin(o.dir, tape[o.opened], tape[Expiry(db, i)])

\* A webhook goes out at most once for an order, and only for an order that
\* is on disk.
WebhookOncePerDurableOrder ==
    \A i \in OrderIds : sent[i] > 0 => sent[i] = 1 /\ db.orders[i].st # "NONE"

\* A candidate recorded as not opened stays so: no restart or reset in the
\* same minute opens it after all (_reuse_committed_decision).
RecordedBlockStands ==
    [][\A i \in Exists(db') \ Exists(db) :
            <<db'.orders[i].dir, "BLOCKED">> \notin decided]_vars

\* The disk never refuses what memory decided: not the opening it is about to
\* save, nor a settlement at the head of the queue.  Nor does a start refuse
\* what the disk holds, whatever it was stopped in the middle of, and a
\* decision recorded as opened has the one order it stands for.
NeverRefused ==
    /\ pc = "save" => ~SaveRefused(Newest, mem.orders[Newest])
    /\ pend # <<>> => db.orders[Head(pend).id].st \in {"OPEN", Head(pend).result}
    /\ pc = "loading" => Accepted(db)
    /\ pc = "decide" => \A d \in Directions :
            <<d, "OPENED">> \in decided => Cardinality(RecordedOrders(d)) = 1

\* Orders of one direction are opened at least MinGap apart, across restarts,
\* rollbacks and resets.
OpeningsApart ==
    \A i, j \in Exists(db) :
        i < j /\ db.orders[i].dir = db.orders[j].dir =>
            db.orders[j].opened - db.orders[i].opened >= MinGap

\* Every open order is settled on disk in the end, unless the service is
\* switched to another symbol and left there.
OrdersSettle ==
    \A i \in OrderIds :
        (db.orders[i].st = "OPEN") ~> (db.orders[i].st \in Results \/ pc = "away")

\* A settlement that could not be written is written by a later update
\* ("the event is kept for the idempotent retry of the next update",
\* _flush_pending_settlement_events).
QueueDrains == (pend # <<>>) ~> (pend = <<>> \/ pc = "away")

\* No credit that was pending at a start without a wave snapshot survives the
\* first snapshot (docs/current-strategy.md on the first upgrade: all old
\* pending credits must have been cancelled before the snapshot is written).
OldCreditsCancelledFirst ==
    [][~waveSaved /\ waveSaved' => \A s \in legacy : db'.credits[s].st # "PENDING"]_vars

-----------------------------------------------------------------------------
(* The ledger on disk implements DurableLedger *)

Largest(S) == CHOOSE n \in S : \A m \in S : m <= n
Durable == INSTANCE DurableLedger WITH
    orders <- db.orders, credits <- db.credits, MaxActive <- Largest(MaxActiveChoices)

ImplementsDurableLedger == Durable!Spec
DurableProvenance == Durable!StakeProvenance
=============================================================================
