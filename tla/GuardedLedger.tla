---------------------------- MODULE GuardedLedger ----------------------------
(***************************************************************************)
(* The ledger under the guards of the monitor: which orders it opens,      *)
(* given what the waves of the market and the results of its own orders    *)
(* have told it (app/wave_state.py, app/wave_batch_guard.py,               *)
(* app/profile_degradation_guard.py, app/result_sequence_guard.py,         *)
(* app/rolling_edge.py and _maybe_open_order_locked in app/state.py).      *)
(* MonitorLedger leaves these choices to its environment; here every step  *)
(* is a transaction of DurableLedger with the guards as further conjuncts. *)
(*                                                                         *)
(* Each minute the update advances the wave and saves it (Minute), settles *)
(* the orders that have expired (Settle), withdraws the credits the        *)
(* candidate of the minute may not use (Judge) and opens it or not (Admit, *)
(* Refuse).  The process may stop; a restart resumes the wave it saved.    *)
(*                                                                         *)
(* There is one threshold segment and one timeframe, so a profile is a     *)
(* setup of the rolling edge.  The guards that ask about neither waves nor *)
(* results may refuse anything (Refuse).  A behaviour is that of one of    *)
(* the Services; a service of kind "ANY" uses the ledger as it likes.      *)
(* RecoveriesAfter and StaleByState are deliberate mistakes nothing uses.  *)
(***************************************************************************)
EXTENDS DurableLedger, SequencesExt

CONSTANTS
    Services,                       \* what the ledger is used by
    LongProfiles, ShortProfiles,    \* the profiles of each direction
    Raws,                           \* raw states the market shows
    History,                        \* minutes of klines a restart can fetch
    MinGap,                         \* OrderPolicy.min_order_gap_ms
    FailedToRest, FailedWindow, WaveCooldown,               \* WaveBatchGuardConfig
    LossStreak, ProfileCooldown,    \* profile_degradation_guard.py
    SequenceStreak, SequenceCooldown,                       \* ResultSequenceGuardConfig
    EdgeSamples, EdgeRate, EdgeEv,  \* RollingEdgeConfig, the rate in percent
    WinPnl, LossPnl,                \* of an order of the base stake, as EdgeEv
    MaxFaults                       \* bound: crashes and failed writes

Legs   == {"UP_LEG", "DOWN_LEG"}
Ranges == {"RANGE_HIGH", "RANGE_LOW", "RANGE_MID"}
Stable == Legs \cup {"RANGE_HIGH", "RANGE_LOW"}

(* A service has WaveBatchGuardConfig.batch_size, the minutes a selection   *)
(* stays in force, and the bounds of its orders and minutes.  The cooldowns *)
(* the service ships with, 60 minutes, are longer than an order lives.      *)
ASSUME GuardAssumption ==
    /\ LongProfiles \cap ShortProfiles = {}
    /\ LongProfiles # {} => "LONG" \in Directions
    /\ ShortProfiles # {} => "SHORT" \in Directions
    /\ Raws \subseteq Legs \cup Ranges
    /\ Services \subseteq [kind : {"MONITOR", "ANY"}, batch : Nat \ {0}, life : Nat \ {0},
                           orders : 0..MaxOrders, until : 0..MaxTime]
    /\ {History, LossStreak, SequenceStreak} \subseteq Nat \ {0}
    /\ {MinGap, FailedWindow, SequenceCooldown, EdgeSamples, WinPnl, LossPnl} \subseteq Nat
    /\ FailedToRest \in Nat \ {0, 1} /\ EdgeRate \in 0..100 /\ EdgeEv \in Int
    /\ {WaveCooldown, ProfileCooldown} \subseteq Nat
    /\ WaveCooldown >= Lifetime /\ ProfileCooldown >= Lifetime
    /\ MaxFaults \in Nat

VARIABLES
    service,    \* the one of this behaviour
    pc,         \* "idle", "settle", "gate" or "down"
    now,        \* the last minute that closed
    wave,       \* MonitorState.wave_state
    saved,      \* wave_runtime on disk
    missed,     \* raw states of the minutes after the one saved
    cand,       \* the profile of the candidate that was judged
    note,       \* what an order's row says of its wave and its guards
    faults

guards == <<service, pc, now, wave, saved, missed, cand, note, faults>>

Profiles == LongProfiles \cup ShortProfiles
DirOf(k) == IF k \in LongProfiles THEN "LONG" ELSE "SHORT"
NoNote == [key |-> "NONE"]

\* The version of the selection in force.
Version == now \div service.life

-----------------------------------------------------------------------------
(* The wave: a leg is confirmed by a second bar, a range state at once;     *)
(* since is confirmed_at.                                                   *)
Unknown == [state |-> "UNKNOWN", raw |-> "UNKNOWN", bars |-> 0, since |-> 0]

Turn(raw) == IF raw = "UP_LEG" THEN "TURN_UP" ELSE "TURN_DOWN"

Since(previous, state, t) == IF previous.state = state THEN previous.since ELSE t

(* analyze_wave, given what the last bars look like                         *)
AnalyzeWave(previous, raw, t) ==
    LET again == previous.raw = raw
        bars  == IF ~again THEN 1
                 ELSE Min({2, Max({1, previous.bars + (IF t > previous.since THEN 1 ELSE 0)})})
    IN  IF raw \notin Legs
        THEN [state |-> raw, raw |-> raw, bars |-> 0, since |-> Since(previous, raw, t)]
        ELSE IF bars < 2
        THEN [state |-> Turn(raw), raw |-> raw, bars |-> bars, since |-> t]
        ELSE [state |-> raw, raw |-> raw, bars |-> bars, since |-> Since(previous, raw, t)]

(* rebuild_wave and advance_wave: the bars end at minute t.                 *)
Walk(previous, raws, t) ==
    FoldLeftDomain(LAMBDA w, n : AnalyzeWave(w, raws[n], t - Len(raws) + n), previous, raws)

RebuildWave(raws, t) == Walk(Unknown, raws, t)

AdvanceWave(previous, raws, t) ==
    IF previous = Unknown \/ Len(raws) > History
    THEN RebuildWave(SubSeq(raws, Max({1, Len(raws) - History + 1}), Len(raws)), t)
    ELSE Walk(previous, raws, t)

Allowed(w) == CASE w.state \in {"UP_LEG", "RANGE_LOW"} -> {"LONG"}
                [] w.state \in {"DOWN_LEG", "RANGE_HIGH"} -> {"SHORT"}
                [] OTHER -> {}

(* _apply_wave_guard                                                        *)
WaveAllows(d) == d \in Allowed(wave)

-----------------------------------------------------------------------------
(* Sets of orders in the order of their settlement, which is at the expiry. *)
SettledOrders == {i \in OrderIds : Settled(i)}
SettledEarlier(i, j) ==
    \/ Expiry(ledger, i) < Expiry(ledger, j)
    \/ Expiry(ledger, i) = Expiry(ledger, j) /\ i < j

Losses(S) == {i \in S : orders[i].st = "LOSS"}
LastExpiry(S) == Max({0} \cup {Expiry(ledger, i) : i \in S})

\* The losses at the end of S with no win after them.
Trailing(S) ==
    {i \in Losses(S) : \A j \in S : SettledEarlier(i, j) => orders[j].st = "LOSS"}

-----------------------------------------------------------------------------
(* evaluate_wave_batch_guard.  A batch is what one wave, direction and      *)
(* selection have in common; recovery orders belong to none.                *)
BatchOf(i) == <<note[i].since, note[i].state, orders[i].dir, note[i].version>>
InBatches(S) == {i \in S : note[i].mode # "RECOVERY"}

(* _failed_batches, among the settled orders S                              *)
FirstOf(b, S) ==
    LET in == {i \in InBatches(S) : BatchOf(i) = b}
    IN  {i \in in : Cardinality({j \in in : SettledEarlier(j, i)}) < service.batch}

FailedBatches(S) ==
    {b \in {BatchOf(i) : i \in InBatches(S)} :
        Cardinality(FirstOf(b, S)) = service.batch /\ FirstOf(b, S) = Losses(FirstOf(b, S))}

(* _latest_cooldown_trigger, given when each failed batch was settled       *)
TriggerOf(times) ==
    LET near(b) == {c \in DOMAIN times : times[c] <= times[b] /\ times[b] - times[c] <= FailedWindow}
    IN  Max({0} \cup {times[b] : b \in {c \in DOMAIN times : Cardinality(near(c)) >= FailedToRest}})

Trigger(S) == TriggerOf([b \in FailedBatches(S) |-> LastExpiry(FirstOf(b, S))])

RecoveriesAfter(from) ==
    {i \in Exists(ledger) : note[i].mode = "RECOVERY" /\ orders[i].opened > from}
Recoveries(from) ==
    {i \in Exists(ledger) : note[i].mode = "RECOVERY" /\ orders[i].opened >= from}

(* _recovery_decision, given the trigger and the recovery orders since it:  *)
(* "NONE" when the guard has nothing against an order.                      *)
RestedSince(t) == IF now < t + WaveCooldown THEN "COOLDOWN" ELSE "RECOVERY"

RecoveryDecision(trigger, tries) ==
    CASE trigger = 0 -> "NONE"
      [] trigger # 0 /\ tries = {} -> RestedSince(trigger)
      [] trigger # 0 /\ tries # {} ->
           CASE orders[Max(tries)].st = "OPEN" -> "PENDING"
             [] orders[Max(tries)].st = "WIN"  -> "NONE"
             [] orders[Max(tries)].st = "LOSS" -> RestedSince(Expiry(ledger, Max(tries)))

RecoveryMode ==
    LET trigger == Trigger(SettledOrders)
    IN  RecoveryDecision(trigger, Recoveries(trigger + WaveCooldown))

BatchDecision(recovery, members) ==
    CASE recovery # "NONE" -> recovery
      [] recovery = "NONE" /\ wave.since > 0 /\ Losses(members) # {} -> "LOCKED"
      [] recovery = "NONE" /\ wave.since > 0 /\ Losses(members) = {}
         /\ Cardinality(members) >= service.batch -> "FULL"
      [] OTHER -> "NORMAL"

BatchMode(d) ==
    BatchDecision(RecoveryMode, {i \in InBatches(Exists(ledger)) :
                                   BatchOf(i) = <<wave.since, wave.state, d, Version>>})

-----------------------------------------------------------------------------
(* evaluate_profile_degradation_guard: the orders of one profile under one  *)
(* selection; a probe is known by the loss that called for it.              *)
OfProfile(S, k, v) == {i \in S : note[i].key = k /\ note[i].version = v}

OpenProbes(k, trigger) ==
    {i \in OfProfile(Open(ledger), k, Version) : note[i].probe = trigger}

ProfileTrigger(k) == LastExpiry(OfProfile(SettledOrders, k, Version))

ProfileMode(k) ==
    LET run     == Trailing(OfProfile(SettledOrders, k, Version))
        trigger == ProfileTrigger(k)
    IN  CASE Cardinality(run) < LossStreak -> "NORMAL"
          [] Cardinality(run) >= LossStreak /\ OpenProbes(k, trigger) # {} -> "PENDING"
          [] Cardinality(run) >= LossStreak /\ OpenProbes(k, trigger) = {} ->
               IF now < trigger + ProfileCooldown THEN "COOLDOWN" ELSE "READY"

(* evaluate_result_sequence_guard, of the scope DIRECTION                   *)
SequenceBlocks(d) ==
    LET S == {i \in SettledOrders : orders[i].dir = d}
    IN  /\ Cardinality(Trailing(S)) >= SequenceStreak
        /\ now < LastExpiry(S) + SequenceCooldown

(* rolling_edge_snapshot and should_degrade: too few wins or too little     *)
(* earned; an order counts with the base stake (_rolling_edge_status).      *)
EdgeOrders(k) == {i \in SettledOrders : note[i].key = k}

EdgeGone(k) ==
    LET n      == Cardinality(EdgeOrders(k))
        losses == Cardinality(Losses(EdgeOrders(k)))
        wins   == n - losses
    IN  /\ n >= EdgeSamples
        /\ \/ 100 * wins < EdgeRate * n
           \/ WinPnl * wins - LossPnl * losses <= EdgeEv * n

-----------------------------------------------------------------------------
(* The credits a candidate of direction d may not use                       *)
(* (_stale_progression_credit_source_ids): those earned in another wave or  *)
(* under another selection.                                                 *)
StaleByState(d) ==
    IF wave.state \notin Stable THEN Pending(ledger, d)
    ELSE {s \in Pending(ledger, d) : note[s].state # wave.state \/ note[s].version # Version}
StaleCredits(d) ==
    IF wave.state \notin Stable THEN Pending(ledger, d)
    ELSE {s \in Pending(ledger, d) :
             \/ note[s].state # wave.state \/ note[s].since # wave.since
             \/ note[s].version # Version}

WithdrawnIn(batch, mode, d) ==
    CASE batch = "RECOVERY" /\ mode = "READY" -> {}
      [] batch = "NORMAL" -> StaleCredits(d)
      [] OTHER -> Pending(ledger, d)

Withdrawn(k) == WithdrawnIn(BatchMode(DirOf(k)), ProfileMode(k), DirOf(k))

\* OrderPolicy.evaluate, beside the room that OpenOrder asks for.
GapKept(d) == \A i \in Exists(ledger) : orders[i].dir = d => now - orders[i].opened >= MinGap

-----------------------------------------------------------------------------
(* A minute closes.  When the wave cannot be saved the update ends there.   *)
Faulty == faults < MaxFaults /\ faults' = faults + 1

Minute ==
    /\ pc = "idle" /\ now < service.until
    /\ now' = now + 1
    /\ \E raw \in Raws :
        /\ wave' = AnalyzeWave(wave, raw, now + 1)
        /\ \/ saved' = wave' /\ missed' = <<>> /\ pc' = "settle" /\ UNCHANGED faults
           \/ missed' = Append(missed, raw) /\ Faulty /\ UNCHANGED <<saved, pc>>
    /\ UNCHANGED <<vars, service, cand, note>>

\* The orders whose expiry minute is among the klines, in id order.
Due == {i \in Open(ledger) : Expiry(ledger, i) <= now /\ now - Expiry(ledger, i) < History}

Settle ==
    /\ pc = "settle" /\ Due # {}
    /\ \E result \in Results :
          LET i      == Min(Due)
              credit == Earned(ledger, i, result, TRUE, 1, MaxActive)
          IN  IF credit = credits[i] THEN SettleOnly(i, result)
              ELSE SettleEarning(i, credit.st)
    /\ UNCHANGED guards

\* There is no candidate, or it is refused before its credits are judged.
Wait ==
    /\ pc = "settle" /\ Due = {} /\ pc' = "idle"
    /\ UNCHANGED <<vars, service, now, wave, saved, missed, cand, note, faults>>

Judge(k) ==
    /\ pc = "settle" /\ Due = {} /\ pc' = "gate"
    /\ cand' = k
    /\ Cancel(Withdrawn(k))
    /\ UNCHANGED <<service, now, wave, saved, missed, note, faults>>

Refuse ==
    /\ pc = "gate" /\ pc' = "idle"
    /\ cand' = "NONE"
    /\ UNCHANGED <<vars, service, now, wave, saved, missed, note, faults>>

\* The order of the guards does not show: each of them ends the decision.
AdmitIn(batch, mode, d) ==
    LET probe == mode = "READY"
    IN  /\ pc' = "idle"
        /\ WaveAllows(d)
        /\ GapKept(d)
        /\ batch \in {"NORMAL", "RECOVERY"}
        /\ mode \in {"NORMAL", "READY"}
        /\ ~SequenceBlocks(d)
        /\ ~EdgeGone(cand)
        /\ \E i \in OrderIds :
              /\ IsNextId(ledger, i) /\ i <= service.orders
              /\ OpenOrder(i, d, now, Assign(ledger, batch = "NORMAL" /\ ~probe, d, now),
                           batch = "NORMAL" \/ probe)
              /\ note' = [note EXCEPT ![i] =
                    [key |-> cand, state |-> wave.state, since |-> wave.since,
                     version |-> Version, mode |-> batch,
                     probe |-> IF probe THEN ProfileTrigger(cand) ELSE 0]]
        /\ cand' = "NONE"
        /\ UNCHANGED <<service, now, wave, saved, missed, faults>>

Admit == pc = "gate" /\ AdmitIn(BatchMode(DirOf(cand)), ProfileMode(cand), DirOf(cand))

-----------------------------------------------------------------------------
(* The process stops, minutes pass, and a new process walks its wave over   *)
(* the klines since the one it saved, or over all it can fetch when they    *)
(* do not reach back so far (advance_wave; seed_klines saves the result).   *)
Crash ==
    /\ pc # "down" /\ Faulty
    /\ pc' = "down" /\ cand' = "NONE" /\ wave' = Unknown
    /\ UNCHANGED <<vars, service, now, saved, missed, note>>

Pass ==
    /\ pc = "down" /\ now < service.until
    /\ now' = now + 1
    /\ \E raw \in Raws : missed' = Append(missed, raw)
    /\ UNCHANGED <<vars, service, pc, wave, saved, cand, note, faults>>

Restart ==
    /\ pc = "down" /\ pc' = "idle"
    /\ wave' = AdvanceWave(saved, missed, now)
    /\ saved' = wave' /\ missed' = <<>>
    /\ UNCHANGED <<vars, service, now, cand, note, faults>>

-----------------------------------------------------------------------------
GuardedInit ==
    /\ Init
    /\ service \in Services
    /\ pc = "idle" /\ now = 0 /\ cand = "NONE"
    /\ wave = Unknown /\ saved = Unknown /\ missed = <<>>
    /\ note = [i \in OrderIds |-> NoNote]
    /\ faults = 0

Monitor ==
    /\ service.kind = "MONITOR"
    /\ \/ Minute \/ Settle \/ Wait \/ Refuse \/ Admit \/ Crash \/ Pass \/ Restart
       \/ \E k \in Profiles : Judge(k)

Anyone ==
    /\ service.kind = "ANY"
    /\ Next
    /\ \A i \in OrderIds : orders[i].st = "NONE" /\ orders'[i].st # "NONE" =>
           i <= service.orders /\ orders'[i].opened <= service.until
    /\ UNCHANGED guards

GuardedNext == Monitor \/ Anyone

GuardedSpec == GuardedInit /\ [][GuardedNext]_<<vars, guards>>

-----------------------------------------------------------------------------
(* Properties *)

\* What was settled when order i was opened, and the orders of S opened
\* before it had all expired.
Known(i) == {j \in SettledOrders : Expiry(ledger, j) <= orders[i].opened}
Alone(i, S) == \A j \in S : j < i => Expiry(ledger, j) <= orders[i].opened

\* After losses the service tries one order at a time until one wins: the
\* profile that lost LossStreak in a row, and after batches that failed
\* together the whole ledger.  The guards only look for an open probe and an
\* open recovery order; that nothing else is open follows from the cooldowns.
RestAfterLosses ==
    service.kind = "MONITOR" =>
        \A i \in Exists(ledger) :
            LET same == OfProfile(Exists(ledger), note[i].key, note[i].version)
                rest == Trigger(Known(i))
                won  == {j \in Known(i) : /\ note[j].mode = "RECOVERY"
                                          /\ orders[j].opened >= rest + WaveCooldown
                                          /\ orders[j].st = "WIN"}
            IN  /\ Cardinality(Trailing(same \cap Known(i))) >= LossStreak => Alone(i, same)
                /\ rest # 0 /\ won = {} => Alone(i, Exists(ledger))

\* A second-stage order belongs to the wave and the selection in which its
\* credit was earned, across restarts and minutes without a candidate.
SecondStageInItsWave ==
    service.kind = "MONITOR" =>
        \A i \in Exists(ledger) :
            orders[i].source # 0 =>
                LET s == orders[i].source
                IN  <<note[s].state, note[s].since, note[s].version>>
                      = <<note[i].state, note[i].since, note[i].version>>
=============================================================================
