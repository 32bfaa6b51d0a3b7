----------------------------- MODULE DailyProfiles -----------------------------
(***************************************************************************)
(* The profiles an order must belong to, from observation to admission.    *)
(*                                                                         *)
(* Once a minute the monitor (app/state.py, update_from_klines) settles    *)
(* the observations that have expired and recomputes the adaptive state of *)
(* their profiles (Settle), brings the daily selection up to date          *)
(* (Select, app/daily_profile_selector.py), and decides on the candidates  *)
(* of the minute, admitting at most one and opening an observation for     *)
(* each (Decide, app/profile_admission.py).  The process may stop between  *)
(* these steps; a restart reads what the database has                      *)
(* (app/storage.py), possibly with another limit on the selection.         *)
(*                                                                         *)
(* Time is in minutes.  Day d is evaluated over what was known before      *)
(* d * DayLength (07:50) and is in force for a day from Activation minutes *)
(* later (08:00).                                                          *)
(*                                                                         *)
(* WithLaterSettled, CountsEveryBuild, NewestInForce and WithoutBuffer are *)
(* deliberate mistakes that nothing uses.                                  *)
(***************************************************************************)
EXTENDS AdaptiveReplay

CONSTANTS
    Profiles, Shorts,           \* the profiles, and those of direction SHORT
    DayLength, Activation,      \* minutes of a day, minutes from 07:50 to 08:00
    Life,                       \* minutes from the opening to the expiry
    KlineWindow,                \* minutes of klines an update still holds
    FastDays, StableDays,       \* lookback_days, effective_stable_lookback_days
    MinSamples, MinRate,        \* of both the entry and the retention, in percent
    JointFailures, Limits,      \* joint_failures_to_exit, max_active_profiles
    LongMaxWins, ShortMaxWins,  \* resident_n12_limit
    HealthEvery, HealthLookback, MinHealth,     \* profile_health_guard.py
    ShortFloor,                 \* resident_win_rate_floor of SHORT, in percent
    FastWins,                   \* N12 wins of the fast channel
    StartTime, MaxTime, MaxObservations, MaxRestarts, MaxFaults     \* bounds

\* What the health guard looks back on is within what a restart reads: a
\* day and four hours, where it reads two days or more.
ASSUME DailyAssumption ==
    /\ Profiles \subseteq Nat /\ IsFiniteSet(Profiles) /\ Shorts \subseteq Profiles
    /\ DayLength \in Nat /\ Activation \in 1..(DayLength - 1)
    /\ Life \in Nat \ {0} /\ KlineWindow \in Nat \ {0}
    /\ FastDays \in Nat \ {0} /\ StableDays \in Nat /\ StableDays >= FastDays
    /\ MinSamples \in Nat \ {0} /\ {MinRate, ShortFloor} \subseteq 0..100
    /\ JointFailures \in Nat \ {0} /\ Limits \subseteq Nat /\ Limits # {}
    /\ {LongMaxWins, ShortMaxWins} \cup FastWins \subseteq Nat
    /\ {HealthEvery, HealthLookback, MinHealth} \subseteq Nat \ {0}
    /\ HealthEvery + HealthLookback <= (StableDays + 1) * DayLength
    /\ {StartTime, MaxTime, MaxRestarts, MaxFaults} \subseteq Nat
    /\ StartTime >= DayLength /\ MaxTime >= StartTime

VARIABLES
    now,            \* the minute of the last closed kline
    pc,             \* what the update does next; "down" when there is no process
    observations,   \* MonitorState.observations
    states,         \* adaptive_profile_states, with their evaluated_at
    latest, active, \* daily_profile_selection, active_daily_profile_selection
    limit,          \* max_active_profiles of the running process
    order,          \* the order this minute opened
    table,          \* observation_signals on disk
    history,        \* daily_profile_selections on disk, by day
    unread,         \* profiles whose last refresh could not read the table
    amended,        \* what a recorded selection was built on has changed since
    restarts, faults

memory  == <<observations, states, latest, active, limit>>
disk    == <<table, history>>
counted == <<amended, restarts, faults>>
vars    == <<now, pc, memory, order, disk, unread, counted>>

-----------------------------------------------------------------------------
(* Observations and the windows of a day.                                   *)
Observation(k, t, w) ==
    [key |-> k, opened |-> t, expires |-> t + Life, settled |-> 0, won |-> w, dec |-> 0]

Settled(S) == {o \in S : o.settled # 0}
Open(S)    == S \ Settled(S)
Of(S, k)   == {o \in S : o.key = k}

Day(t)            == t \div DayLength
LookbackEnd(d)    == d * DayLength
EffectiveFrom(d)  == LookbackEnd(d) + Activation

(* _eligible_for_window                                                     *)
WithLaterSettled(S, d, days) ==
    {o \in Settled(S) : /\ o.opened >= LookbackEnd(d) - days * DayLength
                        /\ o.opened < LookbackEnd(d)}
Eligible(S, d, days) ==
    {o \in Settled(S) : /\ o.opened >= LookbackEnd(d) - days * DayLength
                        /\ o.opened < LookbackEnd(d)
                        /\ o.settled < LookbackEnd(d)}

(* _window_summary: entry and retention ask for the same by default.        *)
Samples(S, d, days, k) == Independent(Of(Eligible(S, d, days), k))

Qualified(s) ==
    Len(s) >= MinSamples /\ 100 * Wins(s) >= MinRate * Len(s) /\ Pnl(s) >= 0

-----------------------------------------------------------------------------
(* The selection of a day (build_daily_selection).  A row is what it says   *)
(* of a profile: how it qualifies, which being ranked out does not change,  *)
(* the failed days in a row, the day evaluated, and the samples of the fast *)
(* window.                                                                  *)
None == [day |-> 0, status |-> "NONE", limit |-> 0, rows |-> <<>>, places |-> <<>>]

CountsEveryBuild(row, d) == row.runs + 1
FailedRuns(row, d) == IF row.day = d THEN row.runs ELSE row.runs + 1

(* _candidate_summary                                                       *)
Candidate(fastest, stable, d, previous, k) ==
    LET fast   == Qualified(fastest)
        kept   == fast \/ Qualified(stable)
        known  == k \in DOMAIN previous.rows
        was    == k \in DOMAIN previous.places
        failed == FailedRuns(previous.rows[k], d)
        row(state, runs) == [state |-> state, runs |-> runs, day |-> d,
                             size |-> Len(fastest), wins |-> Wins(fastest)]
    IN  CASE was /\ kept -> row("RETAINED", 0)
          [] was /\ ~kept /\ failed >= JointFailures -> row("DEGRADED_EXIT", failed)
          [] was /\ ~kept /\ failed < JointFailures -> row("QUALIFICATION_WATCH", failed)
          [] ~was /\ fast -> row("SELECTED", 0)
          [] ~was /\ ~fast /\ known /\ previous.rows[k].state = "DEGRADED_EXIT"
               -> row("DEGRADED_EXIT", previous.rows[k].runs)
          [] OTHER -> row("NOT_QUALIFIED", 0)

(* _candidate_sort_key: by win rate, then samples, then key.                *)
Ahead(r, s, j, k) ==
    LET x == r.wins * Max({s.size, 1})
        y == s.wins * Max({r.size, 1})
    IN  \/ x > y
        \/ x = y /\ r.size > s.size
        \/ x = y /\ r.size = s.size /\ j < k

(* The profiles that qualify, and the place of each among them: selected,   *)
(* sorted.                                                                  *)
Ranking(of) ==
    LET ranked == {k \in DOMAIN of : of[k].state \in {"RETAINED", "SELECTED", "QUALIFICATION_WATCH"}}
    IN  [k \in ranked |-> 1 + Cardinality({j \in ranked : Ahead(of[j], of[k], j, k)})]

(* The places within the limit: limited.                                    *)
Selection(d, of, max) ==
    [day |-> d, status |-> "READY", limit |-> max, rows |-> of,
     places |-> Restrict(Ranking(of), {k \in DOMAIN Ranking(of) : max = 0 \/ Ranking(of)[k] <= max})]

Build(S, d, previous, max) ==
    LET keys == {o.key : o \in Eligible(S, d, StableDays)} \cup DOMAIN previous.rows
    IN  Selection(d, [k \in keys |-> Candidate(Samples(S, d, FastDays, k),
                                               Samples(S, d, StableDays, k), d, previous, k)], max)

-----------------------------------------------------------------------------
(* What the database answers (app/storage.py).                              *)
Newest(h) == IF DOMAIN h = {} THEN None ELSE h[Max(DOMAIN h)]

(* load_daily_profile_selection_as_of: no row is of a later day.            *)
AsOf(h, d) == LET upTo == {e \in DOMAIN h : e <= d}
              IN  IF upTo = {} THEN None ELSE h[Max(upTo)]

Effective(snapshot, t) ==
    /\ snapshot.status \in {"READY", "FALLBACK"}
    /\ EffectiveFrom(snapshot.day) <= t /\ t < EffectiveFrom(snapshot.day + 1)

(* load_daily_profile_selection                                             *)
NewestInForce(h, t) == Newest(h)
InForce(h, t) ==
    LET on == {d \in DOMAIN h : Effective(h[d], t)}
    IN  IF on = {} THEN None ELSE h[Max(on)]

(* save_daily_profile_selection: one row a day, the last one saved.         *)
Saved(h, snapshot) ==
    [d \in DOMAIN h \cup {snapshot.day} |-> IF d = snapshot.day THEN snapshot ELSE h[d]]

(* An observation is one row: _insert_decision_observation leaves a row     *)
(* that is there as it is, and _update_observation_settlement writes the    *)
(* result into a row that is open and leaves a settled one.                 *)
RowsOf(S, o) == {p \in S : p.key = o.key /\ p.opened = o.opened}

(* save_decision_bundle, one for every candidate that is observed; and      *)
(* save_observations, the settlements of a minute in one transaction.       *)
WithDecisions(S, new) == S \cup {o \in new : RowsOf(S, o) = {}}

WithSettlements(S, again) ==
    LET written == {o \in again : Open(RowsOf(S, o)) # {}}
    IN  (S \ UNION {RowsOf(S, o) : o \in written}) \cup written

(* load_observations_for_profile: the lookback and one day more, back from  *)
(* the last opening.                                                        *)
WithoutBuffer(S) ==
    IF S = {} THEN {}
    ELSE LET last == Max({o.opened : o \in S})
         IN  Open(S) \cup {o \in S : o.opened >= last - StableDays * DayLength}
RuntimeRows(S) ==
    IF S = {} THEN {}
    ELSE LET last == Max({o.opened : o \in S})
         IN  Open(S) \cup {o \in S : o.opened >= last - (StableDays + 1) * DayLength}

(* load_adaptive_profile_observations                                       *)
AdaptiveRows(S, at) == {o \in Settled(S) : o.settled >= at - Lookback /\ o.settled < at}

-----------------------------------------------------------------------------
(* The first step of an update: what has expired is settled if its minute   *)
(* is still among the klines (_settle_observations), then the profiles it   *)
(* touches are recomputed from the table (_refresh_adaptive_profile_keys).  *)
Due(S, t) == {o \in Open(S) : o.expires <= t /\ t - o.expires < KlineWindow}

Settle1(o) == [o EXCEPT !.settled = o.expires]

Results(due) == {Settle1(o) : o \in due}

(* A settlement that comes after a selection it is dated before.            *)
Backdated(due) == \E o \in due, d \in DOMAIN history : o.expires < LookbackEnd(d)

Dated(state, at) == [state |-> state, at |-> at]

(* The states at the instant after the last settlement.                     *)
Refreshed(S, keys, at) ==
    [k \in Profiles |->
        IF k \in keys THEN Dated(StateOf(Of(AdaptiveRows(S, at), k), k), at) ELSE states[k]]

Faulty == faults < MaxFaults /\ faults' = faults + 1
Sound  == UNCHANGED faults

Settle ==
    LET t    == now + 1
        due  == Due(observations, t)
        keys == {o.key : o \in due}
        at   == Max({o.expires : o \in due}) + 1
    IN  /\ pc = "settle" /\ now < MaxTime
        /\ now' = t /\ pc' = "select" /\ order' = <<>>
        /\ \/ due = {} /\ Sound /\ UNCHANGED <<observations, table, states, unread>>
           \/ due # {} /\ Sound
              /\ observations' = (observations \ due) \cup Results(due)
              /\ table' = WithSettlements(table, Results(due))
              /\ states' = Refreshed(table', keys, at)
              /\ unread' = unread \ keys
           \/ due # {} /\ Faulty          \* the write failed: all as before
              /\ UNCHANGED <<observations, table, states, unread>>
           \/ due # {} /\ Faulty          \* the read failed: the old states stay
              /\ observations' = (observations \ due) \cup Results(due)
              /\ table' = WithSettlements(table, Results(due))
              /\ unread' = unread \cup keys
              /\ UNCHANGED states
        /\ amended' = (amended \/ (table' # table /\ Backdated(due)))
        /\ UNCHANGED <<latest, active, limit, history, restarts>>

-----------------------------------------------------------------------------
(* The second step: a selection for the day, unless the process has one     *)
(* made with its own limit, which an ERROR never is; then the one in force  *)
(* (_refresh_daily_profile_selection).                                      *)
Stale(snapshot, d) ==
    snapshot.status \in {"NONE", "ERROR"} \/ snapshot.day # d \/ snapshot.limit # limit

(* _daily_profile_fallback: what was last recorded, for the new day; with   *)
(* nothing recorded an ERROR, which has no configuration.                   *)
Fallback(previous, d) ==
    IF previous = None THEN [None EXCEPT !.day = d, !.status = "ERROR"]
    ELSE [previous EXCEPT !.day = d, !.status = "FALLBACK"]

ActiveOf(h, next, current, t) ==
    CASE Effective(next, t) -> next
      [] ~Effective(next, t) /\ Effective(current, t) -> current
      [] OTHER -> InForce(h, t)

Select ==
    LET d        == Day(now)
        previous == AsOf(history, d)
        built    == Build(observations, d, previous, limit)
    IN  /\ pc = "select" /\ pc' = "decide"
        /\ \/ ~Stale(latest, d) /\ Sound /\ UNCHANGED <<latest, history>>
           \/ Stale(latest, d) /\ Sound
              /\ latest' = built
              /\ history' = Saved(history, built)
           \/ Stale(latest, d) /\ Faulty
              /\ latest' = Fallback(previous, d)
              /\ UNCHANGED history
        /\ active' = ActiveOf(history', latest', active, now)
        /\ UNCHANGED <<now, observations, states, limit, order, table, unread,
                       amended, restarts>>

(* A read outside the try fails: that of the row before, or that of the     *)
(* selection in force.  The update ends there; the coordinator takes the    *)
(* minute up again with the next one.                                       *)
SelectRaises ==
    LET d        == Day(now)
        previous == AsOf(history, d)
        built    == Build(observations, d, previous, limit)
    IN  /\ pc = "select" /\ pc' = "settle" /\ Faulty
        /\ \/ Stale(latest, d) /\ UNCHANGED <<latest, history, active>>
           \/ /\ \/ ~Stale(latest, d) /\ UNCHANGED <<latest, history>>
                 \/ Stale(latest, d) /\ latest' = built /\ history' = Saved(history, built)
                 \/ Stale(latest, d) /\ latest' = Fallback(previous, d) /\ UNCHANGED history
              /\ ~Effective(latest', now) /\ ~Effective(active, now)
              /\ active' = None
        /\ UNCHANGED <<now, observations, states, limit, order, table, unread,
                       amended, restarts>>

-----------------------------------------------------------------------------
(* The third step: admission (evaluate_profile_admission).                  *)
Direction(k) == IF k \in Shorts THEN "SHORT" ELSE "LONG"

(* What admission is told of a candidate (ProfileAdmissionContext): rank is *)
(* its place in the selection, 0 when it has none; primary says that it is  *)
(* the signal the strategy chose itself; second that its direction has an   *)
(* order open.                                                              *)
RankIn(snapshot, k) ==
    IF k \in DOMAIN snapshot.places THEN snapshot.places[k] ELSE 0

Context(snapshot, k, primary, second, state) ==
    [key |-> k, rank |-> RankIn(snapshot, k), primary |-> primary, second |-> second,
     state |-> state,
     sample |-> IF k \in DOMAIN snapshot.rows
                THEN [size |-> snapshot.rows[k].size, wins |-> snapshot.rows[k].wins]
                ELSE [size |-> 0, wins |-> 0]]

(* evaluate_profile_admission of one that is selected, and of one that is   *)
(* not: the fast channel, which the primary signal may not take.            *)
Resident(c) ==
    /\ c.rank # 0
    /\ c.state.status \in {"ACTIVE", "WATCH"}
    /\ c.state.n12.wins <= (IF c.key \in Shorts THEN ShortMaxWins ELSE LongMaxWins)
    /\ c.key \in Shorts => c.sample.size > 0
                           /\ 100 * c.sample.wins >= ShortFloor * c.sample.size
    /\ c.state.status = "WATCH" => ~c.second

Fast(c) ==
    /\ c.rank = 0 /\ c.key \in Shorts /\ ~c.primary /\ ~c.second
    /\ c.state.status = "ACTIVE"
    /\ c.state.n12.wins \in FastWins
    /\ WinPnl * c.state.n20.wins >= LossPnl * (c.state.n20.size - c.state.n20.wins)

(* select_admitted_candidate: residents in the order of the selection, then *)
(* the fast channel.                                                        *)
SelectAdmitted(contexts) ==
    LET resident == {c \in contexts : Resident(c)}
        fast     == {c \in contexts : Fast(c)}
        first    == CHOOSE c \in resident : \A d \in resident : c.rank <= d.rank
    IN  CASE resident # {} -> <<[key |-> first.key, channel |-> "RESIDENT"]>>
          [] resident = {} /\ fast # {} ->
               <<[key |-> Min({c.key : c \in fast}), channel |-> "FAST"]>>
          [] OTHER -> <<>>

(* _attach_adaptive_profile_state                                           *)
StateFor(k) == states[k].state

(* _profile_admission_context: seconds are the directions that have an open *)
(* order.                                                                   *)
Admitted(cands, primary, seconds) ==
    SelectAdmitted({Context(active, k, k = primary, Direction(k) \in seconds, StateFor(k)) :
                      k \in cands})

(* The health of the selected profiles of a direction, evaluated every      *)
(* HealthEvery minutes over the HealthLookback minutes before               *)
(* (evaluate_profile_health_guard): too many losses stop the direction      *)
(* until the next evaluation.                                               *)
EvaluatedAt(t) == t - (t % HealthEvery)

HealthSamples(S, keys, t) ==
    UNION {ToSet(Independent({o \in Of(Settled(S), k) :
                                 /\ o.opened >= EvaluatedAt(t) - HealthLookback
                                 /\ o.opened < EvaluatedAt(t)
                                 /\ o.settled <= EvaluatedAt(t)})) : k \in keys}

Degraded(S, snapshot, k, t) ==
    LET keys == {j \in DOMAIN snapshot.places : Direction(j) = Direction(k)}
        sample == HealthSamples(S, keys, t)
        wins   == Cardinality({o \in sample : o.won})
    IN  /\ Cardinality(sample) >= MinHealth
        /\ 2 * wins < Cardinality(sample)

(* With no selection in force the primary signal needs no profile.          *)
Offered(cands, primary, seconds) ==
    IF active.status \notin {"READY", "FALLBACK"}
    THEN IF primary \in cands THEN <<[key |-> primary, channel |-> "STATIC"]>> ELSE <<>>
    ELSE Admitted(cands, primary, seconds)

(* _new_observation: none while one of the profile runs.                    *)
Running(k) == \E o \in Open(Of(observations, k)) : now < o.expires

(* _record_observation_candidates                                           *)
ObservedOf(cands, won) == {Observation(k, now, k \in won) : k \in {j \in cands : ~Running(j)}}

(* cands are the candidates of the minute, primary the one the strategy     *)
(* chose (0 when it chose none); won those that will turn out a WIN.  The order   *)
(* opens unless one of the other guards objects.  A bundle that cannot be   *)
(* written takes its observation out of memory again; when it is the        *)
(* order's, no other candidate is recorded.                                 *)
DecideOn(cands, primary, seconds, lost, won) ==
    LET opened == ObservedOf(cands \ lost, won)
        offer  == Offered(cands, primary, seconds)
    IN  /\ pc = "decide" /\ pc' = "settle"
        /\ Cardinality(observations \cup opened) <= MaxObservations
        /\ \/ lost = {} /\ Sound
           \/ Cardinality(lost) = 1 /\ Faulty
           \/ lost = cands /\ Cardinality(lost) > 1 /\ Faulty
        /\ observations' = observations \cup opened
        /\ table' = WithDecisions(table, opened)
        /\ \/ order' = <<>>
           \/ /\ offer # <<>> /\ offer[1].key \notin lost
              /\ offer[1].channel = "RESIDENT" =>
                    ~Degraded(observations, active, offer[1].key, now)
              /\ order' = offer
        /\ UNCHANGED <<now, states, latest, active, limit, history, unread, amended, restarts>>

Decide ==
    \E cands \in SUBSET Profiles, seconds \in SUBSET {"LONG", "SHORT"} :
    \E primary \in cands \cup {0}, lost \in SUBSET cands :
    \E won \in SUBSET (cands \ lost) : DecideOn(cands, primary, seconds, lost, won)

-----------------------------------------------------------------------------
(* The process stops between two steps; minutes pass; a new process reads   *)
(* its rows, rebuilds every state as of the present and takes the newest    *)
(* selection as the latest (MonitorState.__init__).                         *)
Crash ==
    /\ pc # "down" /\ restarts < MaxRestarts
    /\ pc' = "down" /\ restarts' = restarts + 1
    /\ observations' = {} /\ unread' = {} /\ order' = <<>>
    /\ states' = [k \in Profiles |-> Dated(Empty, 0)]
    /\ latest' = None /\ active' = None
    /\ UNCHANGED <<now, limit, disk, amended, faults>>

Pass ==
    /\ pc = "down" /\ now < MaxTime
    /\ now' = now + 1
    /\ UNCHANGED <<pc, memory, order, disk, unread, counted>>

Restart ==
    /\ pc = "down" /\ pc' = "settle"
    /\ observations' = RuntimeRows(table)
    /\ states' = [k \in Profiles |->
                     Dated(StateOf(AdaptiveRows(table, now + 1), k), now + 1)]
    /\ latest' = Newest(history) /\ active' = None
    /\ limit' \in Limits
    /\ amended' = (amended \/ limit' # limit)
    /\ UNCHANGED <<now, order, disk, unread, restarts, faults>>

Init ==
    /\ now = StartTime /\ pc = "settle" /\ limit \in Limits
    /\ observations = {} /\ table = {} /\ history = <<>> /\ unread = {}
    /\ states = [k \in Profiles |-> Dated(Empty, 0)]
    /\ latest = None /\ active = None /\ order = <<>>
    /\ restarts = 0 /\ faults = 0 /\ amended = FALSE

Next == Settle \/ Select \/ SelectRaises \/ Decide \/ Crash \/ Pass \/ Restart

Spec == Init /\ [][Next]_vars

-----------------------------------------------------------------------------
TypeOK ==
    /\ now \in StartTime..MaxTime
    /\ pc \in {"settle", "select", "decide", "down"}
    /\ \A o \in observations \cup table :
           o.opened \in Nat /\ (o.settled = 0 \/ o.settled >= o.expires)
    /\ DOMAIN states = Profiles /\ unread \subseteq Profiles
    /\ DOMAIN history \subseteq 1..Day(MaxTime) /\ limit \in Limits
    /\ amended \in BOOLEAN /\ restarts \in 0..MaxRestarts /\ faults \in 0..MaxFaults

(* A process restarted at any moment would select for the day what the      *)
(* running one selects: the day of buffer it loads covers every window      *)
(* (docs/current-strategy.md:1720).                                         *)
RecalculationStands ==
    pc \in {"settle", "decide"} /\ RuntimeRows(table) # observations =>
        LET d == Day(now)
        IN  Build(RuntimeRows(table), d, AsOf(history, d), limit)
              = Build(observations, d, AsOf(history, d), limit)

(* However often a day is evaluated, a profile leaves the selection only    *)
(* when it failed on JointFailures recorded days in a row.                  *)
DaysBeforeExit ==
    \A d \in DOMAIN history : \A k \in DOMAIN history[d].rows :
        LET before == {e \in DOMAIN history : e < d}
            run    == {e \in before : Cardinality({f \in before : f > e}) < JointFailures - 1}
            was(e) == IF k \in DOMAIN history[e].rows THEN history[e].rows[k].state
                      ELSE "UNKNOWN"
        IN  /\ history[d].rows[k].state = "DEGRADED_EXIT"
            /\ before # {} => was(Max(before)) # "DEGRADED_EXIT"
            => Cardinality(run) = JointFailures - 1
               /\ \A e \in run : was(e) = "QUALIFICATION_WATCH"

(* An order that a profile admitted rests on what is recorded: the          *)
(* selection in force is the row of its day, or after a failure the last    *)
(* row there was; the state of the profile is the one its settled rows      *)
(* give, the newest included, unless they could not be read; and no profile *)
(* is asked for only when no selection is recorded for the time.            *)
SelectionOnRecord ==
    /\ Effective(active, now)
    /\ IF active.status = "READY" THEN active = history[active.day]
       ELSE active.rows = AsOf(history, active.day).rows

StateOnRecord(k) ==
    LET at == states[k].at
        known == Of(Settled(table), k)
    IN  \/ k \in unread
        \/ /\ \A o \in known : o.settled < at
           /\ states[k].state = StateOf(AdaptiveRows(known, at), k)

AdmittedOnRecord ==
    order # <<>> =>
        LET o == order[1]
        IN  IF o.channel = "STATIC" THEN InForce(history, now) = None
            ELSE /\ SelectionOnRecord /\ StateOnRecord(o.key)
                 /\ o.channel = "RESIDENT" =>
                       o.key \in DOMAIN active.places /\ ~Degraded(table, active, o.key, now)
                 /\ states[o.key].state.status # "PAUSED"
=============================================================================
