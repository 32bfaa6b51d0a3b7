----------------------------- MODULE ProfileReplay -----------------------------
(***************************************************************************)
(* scripts/replay_daily_profile_selector.py beside the monitor it judges:  *)
(* from the settled observations of a database it computes the states the  *)
(* profiles had (task "replay": event by event, Replay), and the orders    *)
(* the monitor would have opened under a policy of admission (task         *)
(* "backtest": group by group of what was observed in the same minute,     *)
(* Trade).                                                                 *)
(*                                                                         *)
(* The rows are those a database may hold, those of earlier versions of    *)
(* the program included, which settled late and named a decision twice.    *)
(* A row of a backtest also keeps the place ord its decision gave it among *)
(* the candidates, 0 for the primary signal.  Stakes, and what the reports *)
(* count, are left out.                                                    *)
(* StateOfOpened is a deliberate mistake that nothing uses.                *)
(***************************************************************************)
EXTENDS DailyProfiles

CONSTANTS
    Histories,              \* sets of rows a replayed history is drawn from
    MaxReplayed,            \* bound: rows replayed
    Databases,              \* sets of rows a backtest is run on
    Policies,               \* "BASELINE", "ADAPTIVE" or "ADMISSION"
    Morning,                \* minutes from midnight to 07:50
    MaxOpenOrders, MaxPerDirection, MinGap,     \* ReplayExecutionConfig
    LossPause               \* losses of a segment in a row that end its day

(* Settled rows; the observation key <<key, opened>> is unique in a table.  *)
HistoryRow ==
    [key : Nat, opened : Nat, expires : Nat, settled : Nat, won : BOOLEAN, dec : Nat]
BacktestRow ==
    [ord : Nat, key : Nat, opened : Nat, expires : Nat, settled : Nat, won : BOOLEAN,
     dec : Nat]

ASSUME ReplayAssumption ==
    /\ MaxReplayed \in Nat /\ Morning \in Nat
    /\ Policies \subseteq {"BASELINE", "ADAPTIVE", "ADMISSION"}
    /\ {MaxOpenOrders, MaxPerDirection, LossPause} \subseteq Nat \ {0} /\ MinGap \in Nat
    /\ \A S \in Histories : S \subseteq HistoryRow
    /\ \A S \in Databases :
          /\ S \subseteq BacktestRow /\ IsFiniteSet(S)
          /\ \A e, f \in S : <<e.key, e.opened>> = <<f.key, f.opened>> => e = f
          /\ \A e \in S : e.opened \in 1..MaxTime
    /\ \A S \in Histories \cup Databases : \A e \in S :
          e.opened < e.expires /\ e.opened < e.settled

VARIABLES
    task,       \* which program runs: "monitor", "replay" or "backtest"
    rows,       \* what its database holds
    done,       \* the rows replayed so far
    window,     \* AdaptiveGlobalProfileWindowReplay
    policy,     \* of the backtest
    minute,     \* the last group of the backtest
    book        \* its orders

script == <<rows, done, window, policy, minute, book>>

-----------------------------------------------------------------------------
(* The replay: the next row of the history, in causal order, goes through   *)
(* the global window (_build_adaptive_event_rows).                          *)
Replay(e) ==
    /\ Cardinality(done) < MaxReplayed
    /\ \A f \in done : /\ CausallyBefore(f, e)
                       /\ <<f.key, f.opened>> # <<e.key, e.opened>>
    /\ done' = done \cup {e}
    /\ window' = AdvanceWindow(window, e, e.settled + 1)
    /\ UNCHANGED <<rows, policy, minute, book>>

(* The schedule, day after day (_build_schedule).                           *)
Scheduled(S, last, max) ==
    LET of[d \in 0..last] ==
            IF d = 0 THEN None
            ELSE Build({o \in Settled(S) : o.settled < LookbackEnd(d)}, d, of[d - 1], max)
    IN  of[last]

-----------------------------------------------------------------------------
(* The states of every profile in the order of their events                 *)
(* (_adaptive_timeline), and the last one before an opening: of an event    *)
(* that had settled by then.                                                *)
AtEntry(line, e, w) ==
    [window  |-> w,
     entries |-> Append(line.entries, [key |-> e.key, opened |-> e.opened, settled |-> e.settled,
                                       state |-> TrackerOf(w, e.key).state])]

Timeline(S) ==
    FoldLeft(LAMBDA line, e : AtEntry(line, e, AdvanceWindow(line.window, e, e.settled + 1)),
             [window |-> NewWindow, entries |-> <<>>], Causal(S)).entries

StateOfOpened(line, k, t) ==
    LET known == {i \in 1..Len(line) : line[i].key = k /\ line[i].opened < t}
    IN  IF known = {} THEN Empty ELSE line[Max(known)].state
StateBefore(line, k, t) ==
    LET known == {i \in 1..Len(line) : line[i].key = k /\ line[i].settled < t}
    IN  IF known = {} THEN Empty ELSE line[Max(known)].state

-----------------------------------------------------------------------------
(* The book of a backtest: its orders, those open, and the losses in a row  *)
(* of each segment on each date (_SegmentLossLedger; here every profile is  *)
(* a segment of its own).                                                   *)
NoBook == [trades |-> {}, open |-> {}, losses |-> <<>>]

Date(t) == (t + Morning) \div DayLength

LossesOf(b, k, date) ==
    IF <<date, k>> \in DOMAIN b.losses THEN b.losses[<<date, k>>] ELSE 0

SettleOne(b, e) ==
    LET of == <<Date(e.settled), e.key>>
    IN  [b EXCEPT !.open = @ \ {e},
                  !.losses = (of :> IF e.won THEN 0 ELSE LossesOf(b, e.key, Date(e.settled)) + 1)
                                 @@ @]

(* _settle_due_orders                                                       *)
SettleDue(b, t) == FoldLeft(SettleOne, b, BySettlement({e \in b.open : e.settled <= t}))

(* _admission_contexts                                                      *)
Contexts(group, snapshot, line, b, t) ==
    {Context(snapshot, e.key, e.ord = 0,
             \E o \in b.open : Direction(o.key) = Direction(e.key),
             StateBefore(line, e.key, t)) : e \in group}

(* The candidate a policy chooses, with the two that know no admission.     *)
Chosen(group, snapshot, line, b, t) ==
    LET offer  == SelectAdmitted(Contexts(group, snapshot, line, b, t))
        listed == {e.key : e \in group} \cap DOMAIN snapshot.places
        first  == CHOOSE k \in listed : \A j \in listed : RankIn(snapshot, k) <= RankIn(snapshot, j)
        status == StateBefore(line, first, t).status
        second == \E o \in b.open : Direction(o.key) = Direction(first)
    IN  CASE policy = "ADMISSION" -> {e \in group : offer # <<>> /\ e.key = offer[1].key}
          [] policy = "BASELINE" -> {e \in group : listed # {} /\ e.key = first}
          [] policy = "ADAPTIVE" ->
               {e \in group : /\ listed # {} /\ e.key = first
                              /\ status # "PAUSED"
                              /\ status = "WATCH" => ~second}

(* The guards of the execution.                                             *)
Opens(b, e) ==
    LET same == {o \in b.trades : Direction(o.key) = Direction(e.key)}
    IN  /\ Cardinality(b.open) < MaxOpenOrders
        /\ \A o \in same : e.opened - o.opened >= MinGap
        /\ Cardinality(b.open \cap same) < MaxPerDirection
        /\ LossesOf(b, e.key, Date(e.opened)) < LossPause

(* One group of _execute_replay: what was opened at t in the day in force.  *)
Group(S, t) == {e \in S : e.opened = t}

Trading(b, taken) == [b EXCEPT !.trades = @ \cup taken, !.open = @ \cup taken]

TradedOn(S, d, line, t, b) ==
    Trading(b, {e \in Chosen(Group(S, t), Scheduled(S, d, limit), line, b, t) : Opens(b, e)})

Traded(S, line, t, b) ==
    LET d == Max({0} \cup {e \in 1..Day(t) : EffectiveFrom(e) <= t})
    IN  IF d = 0 THEN b ELSE TradedOn(S, d, line, t, SettleDue(b, t))

Minutes(S) == {e.opened : e \in S}

Trade ==
    LET later == {t \in Minutes(rows) : t > minute}
    IN  /\ later # {}
        /\ minute' = Min(later)
        /\ book' = Traded(rows, Timeline(rows), Min(later), book)
        /\ UNCHANGED <<rows, done, window, policy>>

(* At the end of the rows what is still open is settled.                    *)
Report ==
    /\ \A t \in Minutes(rows) : t <= minute
    /\ minute <= MaxTime /\ minute' = MaxTime + 1
    /\ book' = SettleDue(book, Max({e.settled : e \in rows}))
    /\ UNCHANGED <<rows, done, window, policy>>

-----------------------------------------------------------------------------
ReplayInit ==
    /\ Init
    /\ done = {} /\ window = NewWindow /\ minute = 0 /\ book = NoBook
    /\ \/ task = "monitor" /\ rows = {} /\ policy = "BASELINE" /\ limit = Max(Limits)
       \/ task = "replay" /\ rows \in Histories /\ policy = "BASELINE" /\ limit = Min(Limits)
       \/ task = "backtest" /\ rows \in Databases /\ policy \in Policies

Monitor  == task = "monitor" /\ Next /\ UNCHANGED script
History  == task = "replay" /\ (\E e \in rows : Replay(e)) /\ UNCHANGED vars
Backtest == task = "backtest" /\ (Trade \/ Report) /\ UNCHANGED vars

ReplayNext == (Monitor \/ History \/ Backtest) /\ UNCHANGED task

ReplaySpec == ReplayInit /\ [][ReplayNext]_<<vars, task, script>>

-----------------------------------------------------------------------------
(* After every row of a history the window that was kept up to date answers *)
(* what a computation from scratch over its last Lookback minutes answers,  *)
(* for every profile, in whatever order the rows were opened, overlapped    *)
(* and left the window, and whichever decisions they share.                 *)
ReplayIsExact ==
    done # {} =>
        LET at == Max({e.settled : e \in done}) + 1
        IN  \A k \in {e.key : e \in done} :
                StateAt(TrackerOf(window, k), at).state = StateOf(AdaptiveRows(done, at), k)

(* A backtest does not look ahead: had one observation ended otherwise,     *)
(* every order opened before it was settled would be the same, and had it   *)
(* never been made, every order opened before it (the leak the script       *)
(* counts in _count_leakage_violations, over all it decides by).            *)
Run(S, line) ==
    FoldLeft(LAMBDA b, t : Traded(S, line, t, b), NoBook, Sorted(Minutes(S), <))

Booked(S) == {<<e.key, e.opened>> : e \in Run(S, Timeline(S)).trades}

Until(trades, t) == {x \in trades : x[2] < t}

ReplayIsCausal ==
    task = "backtest" /\ minute > MaxTime =>
        LET orders == {<<e.key, e.opened>> : e \in book.trades}
        IN  \A e \in rows :
               LET other == [e EXCEPT !.won = ~@]
               IN  /\ Until(Booked((rows \ {e}) \cup {other}), e.settled) = Until(orders, e.settled)
                   /\ Until(Booked(rows \ {e}), e.opened) = Until(orders, e.opened)

(* The selections the live process recorded, minute by minute and across    *)
(* restarts, are those the schedule of the replay computes from the final   *)
(* table day after day (_build_schedule): neither used what the other could *)
(* not know.  Excused are a day the process recorded nothing, and a limit   *)
(* or a settlement that changed after the row was written.                  *)
ScheduleAgrees ==
    \A d \in DOMAIN history :
        LET days == {e \in 1..d : \E o \in table : Day(o.opened) < e}
        IN  ~amended /\ days \subseteq DOMAIN history
            => LET s == Scheduled(table, d, history[d].limit)
               IN  s.rows = history[d].rows /\ s.places = history[d].places
=============================================================================
