--------------------------- MODULE ShadowExperiment ---------------------------
(***************************************************************************)
(* The experiment the shadow optimizer's worker runs: one champion and its *)
(* challengers, each with a runtime of its own, fed with the same batches  *)
(* of closed minutes.  Each arm commits a batch in a transaction of its    *)
(* own, with its orders, its coverage of the days and its cursor.  A batch *)
(* that does not continue an arm's minutes freezes the arm, and so does an *)
(* analysis, an update or a write that fails.                              *)
(*                                                                         *)
(* Here: the batches, the transactions, crashes between them, recovery,    *)
(* experiments that are taken up again or superseded, the daily evaluation *)
(* and what it may promote.  How a promotion is applied is module          *)
(* ChampionHandover; here it is applied or refused some time later.        *)
(* Whether the gates on win rates pass is the environment's choice.        *)
(***************************************************************************)
EXTENDS Integers, Sequences, FiniteSets, SequencesExt

CONSTANTS
    NumArms,        \* arm 1 is seeded as the champion
    DayLength,      \* minutes of a day
    EvaluateAt,     \* minute of the day of the evaluation: 07:50
    ActivateAt,     \* minute of the day of the activation: 08:00
    MinDays,        \* MIN_COMPLETE_DAYS
    Cooldown,       \* days between promotions
    Lasts,          \* minutes an order is open
    MaxMinute,      \* bound
    MaxRestarts,    \* bound: of the whole service
    MaxFaults       \* bound: what fails, and batches the queue refuses

ASSUME ExperimentAssumption ==
    /\ NumArms \in Nat \ {0} /\ DayLength \in Nat \ {0} /\ MaxMinute \in Nat
    /\ EvaluateAt \in 0..ActivateAt /\ ActivateAt \in 0..DayLength - 1
    /\ MinDays \in Nat /\ Cooldown \in Nat
    /\ Lasts \in Nat \ {0} /\ MaxRestarts \in Nat /\ MaxFaults \in Nat

Arms == 1..NumArms
Minutes == 0..MaxMinute
Day(m) == m \div DayLength
MinuteOfDay(m) == m % DayLength
DayNums == 0..Day(MaxMinute)
None == -1          \* no cursor yet, or no day yet
Nothing == [kind |-> "none"]

VARIABLES
    now,            \* the last minute that closed
    toPublish,      \* the next minute the monitor publishes, None while it is down
    eventQ,         \* the batches in the queue
    (* the worker's memory *)
    worker,         \* "down", "idle", or "batch" while the arms take a batch
    next,           \* the arm whose turn it is
    rt,             \* the arms' runtimes
    signatures,     \* the settled flags of the orders the arm believes stored
    failed, retired, champion,
    promotion,      \* _pending_promotion
    asks,           \* _pending_lifecycle
    evaluatedDay, activatedDay,     \* of the scheduler
    (* the shadow database *)
    exp,            \* the newest experiment
    rows,           \* its arms' rows
    (* bounds *)
    restarts, faults

scheduler == <<evaluatedDay, activatedDay>>
memory == <<worker, next, rt, signatures, failed, retired, champion, promotion, asks, scheduler>>
disk == <<exp, rows>>
monitor == <<now, toPublish>>
bounds == <<restarts, faults>>
vars == <<monitor, eventQ, memory, disk, bounds>>

\* TornWrite, ReusesBehind, ReusesIncomplete, OnlyFailed and NoCooldown are
\* deliberate mistakes that show what the properties notice.

Fault == faults < MaxFaults /\ faults' = faults + 1

-----------------------------------------------------------------------------
(* ShadowRuntime: one arm *)

NoDay == [first |-> None, last |-> None, count |-> 0]

\* taken, the batches so far, is observed only.
FreshRuntime ==
    [cursor |-> None, invalid |-> FALSE, days |-> [d \in DayNums |-> NoDay],
     orders |-> <<>>, taken |-> <<>>]

\* Which minutes an arm's policy opens an order at: any fixed rule does.
DecidesToOpen(a, m) == (m + a) % 2 = 0

\* One update per batch: orders are settled, then one may be opened.
Orders(a, orders, hi) ==
    LET settled == [i \in 1..Len(orders) |->
                      [orders[i] EXCEPT !.settled = @ \/ orders[i].at + Lasts <= hi]]
    IN  IF DecidesToOpen(a, hi) THEN Append(settled, [at |-> hi, settled |-> FALSE]) ELSE settled

LesserOf(a, b) == IF a < b THEN a ELSE b
GreaterOf(a, b) == IF a < b THEN b ELSE a

\* event_coverage_by_day, advanced by the minutes of the batch
Coverage(days, lo, hi) ==
    [d \in DayNums |->
       LET new == {MinuteOfDay(m) : m \in {k \in lo..hi : Day(k) = d}}
           least == CHOOSE x \in new : \A y \in new : x <= y
           most == CHOOSE x \in new : \A y \in new : y <= x
       IN  IF new = {} THEN days[d]
           ELSE [first |-> IF days[d].count = 0 THEN least ELSE LesserOf(days[d].first, least),
                 last |-> IF days[d].count = 0 THEN most ELSE GreaterOf(days[d].last, most),
                 count |-> days[d].count + Cardinality(new)]]

CompleteDays(r) ==
    {d \in DayNums : r.days[d] = [first |-> 0, last |-> DayLength - 1, count |-> DayLength]}

Known(r, batch) == r.cursor # None /\ batch.hi <= r.cursor
Continues(r, batch) == r.cursor = None \/ batch.lo = r.cursor + 1

Process(a, r, batch) ==
    [r EXCEPT !.cursor = batch.hi,
              !.days = Coverage(@, batch.lo, batch.hi),
              !.orders = Orders(a, @, batch.hi),
              !.taken = Append(@, batch)]

-----------------------------------------------------------------------------
(* save_event_bundle *)

\* An arm's rows: the event cursor, the runtime state, the orders.
NoRows == [last |-> None, state |-> FreshRuntime, orders |-> <<>>, gaps |-> 0]

Flags(orders) == [i \in 1..Len(orders) |-> orders[i].settled]

\* _changed_orders: those whose signature is not the one stored.
Changed(a, orders) ==
    {i \in 1..Len(orders) : i > Len(signatures[a]) \/ signatures[a][i] # orders[i].settled}

StoredOrders(a, orders) ==
    [i \in 1..Len(orders) |->
        IF i \in Changed(a, orders) \/ i > Len(rows[a].orders) THEN orders[i] ELSE rows[a].orders[i]]

\* An event must come after the arm's last one; the last one again changes nothing.
Advances(a, hi) == rows[a].last = None \/ hi > rows[a].last

Bundle(a, r, hi) ==
    [last |-> hi, state |-> [r EXCEPT !.orders = <<>>], orders |-> StoredOrders(a, r.orders),
     gaps |-> rows[a].gaps]

GapBundle(a, r, hi) ==
    [rows[a] EXCEPT !.last = hi, !.state = [r EXCEPT !.orders = <<>>], !.gaps = @ + 1]

\* What a write that fails leaves behind.
TornWrite(a, r) == [rows EXCEPT ![a].orders = StoredOrders(a, r.orders)]
FailedWrite(a, r) == rows

-----------------------------------------------------------------------------
(* Building a ShadowOptimizer from the seed of the monitor *)

Init ==
    /\ now = 0 /\ toPublish = None /\ eventQ = <<>>
    /\ worker = "down" /\ next = 1
    /\ rt = [a \in Arms |-> FreshRuntime] /\ signatures = [a \in Arms |-> <<>>]
    /\ failed = {} /\ retired = {} /\ champion = 1
    /\ promotion = Nothing /\ asks = Nothing
    /\ evaluatedDay = None /\ activatedDay = None
    /\ exp = [id |-> 0, effectiveFrom |-> 0, champion |-> 1, retired |-> {}, history |-> <<>>]
    /\ rows = [a \in Arms |-> NoRows]
    /\ restarts = 0 /\ faults = 0

Cursors == {rows[a].last : a \in Arms} \ {None}
IncompleteCheckpoint ==
    /\ Cursors # {}
    /\ \E a \in Arms : rows[a].last = None
SeedAhead(seed) ==
    IF Cursors # {} THEN \E c \in Cursors : seed > c ELSE seed >= exp.effectiveFrom

\* There is an experiment that runs: the last one created.
Running == exp.id # 0

ReusesBehind(seed) == Running /\ ~IncompleteCheckpoint
ReusesIncomplete(seed) == Running /\ ~SeedAhead(seed)
Reusable(seed) == Running /\ ~IncompleteCheckpoint /\ ~SeedAhead(seed)

\* from_persistence: the orders are kept in rows of their own.
Checkpoint(a) == [rows[a].state EXCEPT !.orders = rows[a].orders]

\* from_checkpoint: a seed that is ahead of the arm's cursor freezes it.
Recovered(a, seed) ==
    IF rows[a].last = None THEN FreshRuntime
    ELSE [Checkpoint(a) EXCEPT !.invalid = @ \/ seed > Checkpoint(a).cursor]

\* create_experiment: new arms of a new name, that have no rows yet.
CreateExperiment(seed) ==
    /\ exp' = [id |-> exp.id + 1, effectiveFrom |-> seed + 1, champion |-> 1,
               retired |-> {}, history |-> <<>>]
    /\ rows' = [a \in Arms |-> NoRows]

\* same: the definitions of the arms and the generation are those stored.
BuildOptimizer(seed, same) ==
    /\ worker' = "idle" /\ next' = 1
    /\ failed' = {} /\ promotion' = Nothing /\ asks' = Nothing
    /\ evaluatedDay' = None /\ activatedDay' = None
    /\ IF same /\ Reusable(seed)
       THEN /\ rt' = [a \in Arms |-> Recovered(a, seed)]
            /\ signatures' = [a \in Arms |-> Flags(rows[a].orders)]
            /\ champion' = exp.champion /\ retired' = exp.retired
            /\ UNCHANGED disk
       ELSE /\ rt' = [a \in Arms |-> FreshRuntime]
            /\ signatures' = [a \in Arms |-> <<>>]
            /\ champion' = 1 /\ retired' = {}
            /\ CreateExperiment(seed)

-----------------------------------------------------------------------------
(* The monitor *)

Tick ==
    /\ now < MaxMinute /\ now' = now + 1
    /\ UNCHANGED <<toPublish, eventQ, memory, disk, bounds>>

\* The warm-up ends where the archives end, somewhere before now; the first
\* batch is what REST still returns of the minutes since then, up to now.
Start ==
    /\ worker = "down"
    /\ \E seed \in -1..now - 1, same \in BOOLEAN :
          /\ \E first \in seed + 1..now : eventQ' = <<[lo |-> first, hi |-> now]>>
          /\ BuildOptimizer(seed, same)
    /\ toPublish' = now + 1
    /\ UNCHANGED <<now, bounds>>

Publish ==
    /\ toPublish # None /\ toPublish <= now
    /\ \E hi \in toPublish..now :
          /\ toPublish' = hi + 1
          /\ IF eventQ = <<>>
             THEN eventQ' = <<[lo |-> toPublish, hi |-> hi]>> /\ UNCHANGED faults
             ELSE Fault /\ UNCHANGED eventQ
    /\ UNCHANGED <<now, memory, disk, restarts>>

\* The worker ends with the service; what it knew is lost.
Stop ==
    /\ worker # "down" /\ restarts < MaxRestarts
    /\ restarts' = restarts + 1
    /\ toPublish' = None /\ eventQ' = <<>>
    /\ worker' = "down" /\ next' = 1
    /\ rt' = [a \in Arms |-> FreshRuntime] /\ signatures' = [a \in Arms |-> <<>>]
    /\ failed' = {} /\ retired' = {} /\ champion' = 1
    /\ promotion' = Nothing /\ asks' = Nothing
    /\ evaluatedDay' = None /\ activatedDay' = None
    /\ UNCHANGED <<now, disk, faults>>

-----------------------------------------------------------------------------
(* process_batch: arm after arm *)

Batch == Head(eventQ)

OnlyFailed == failed
Skipped == failed \cup retired

\* With no arm left the batch is dropped at once.
NoneActive == NumArms + 2

TakeBatch ==
    /\ worker = "idle" /\ eventQ # <<>>
    /\ worker' = "batch" /\ next' = IF Arms \subseteq Skipped THEN NoneActive ELSE 1
    /\ UNCHANGED <<monitor, eventQ, rt, signatures, failed, retired, champion, promotion, asks,
                   scheduler, disk, bounds>>

\* The arms share one analysis, for they differ in their admission policies only.
\* When it fails they all freeze before any arm's turn, and nothing is written.
AnalyserFails ==
    /\ worker = "idle" /\ eventQ # <<>> /\ Fault
    /\ ~(Arms \subseteq Skipped)
    /\ rt' = [a \in Arms |-> IF a \in Skipped THEN rt[a] ELSE [rt[a] EXCEPT !.invalid = TRUE]]
    /\ failed' = failed \cup (Arms \ Skipped)
    /\ worker' = "batch" /\ next' = 1
    /\ UNCHANGED <<monitor, eventQ, signatures, retired, champion, promotion, asks, scheduler,
                   disk, restarts>>

Turn(a) == worker = "batch" /\ next = a /\ a \in Arms
Passed == next' = next + 1

ArmSkips ==
    /\ Turn(next)
    /\ \/ next \in Skipped
       \/ ~rt[next].invalid /\ Known(rt[next], Batch)
       \/ rt[next].invalid /\ rt[next].cursor = Batch.hi
    /\ Passed
    /\ UNCHANGED <<monitor, eventQ, worker, rt, signatures, failed, retired, champion, promotion,
                   asks, scheduler, disk, bounds>>

ArmTakes ==
    /\ Turn(next) /\ next \notin Skipped
    /\ LET r == rt[next]
           processed == Process(next, r, Batch)
       IN  /\ ~r.invalid /\ ~Known(r, Batch) /\ Continues(r, Batch)
           /\ signatures' = [signatures EXCEPT ![next] = Flags(processed.orders)]
           /\ \/ /\ Advances(next, Batch.hi)
                 /\ rows' = [rows EXCEPT ![next] = Bundle(next, processed, Batch.hi)]
                 /\ rt' = [rt EXCEPT ![next] = processed]
                 /\ UNCHANGED <<failed, faults>>
              \/ /\ Fault
                 /\ rows' = FailedWrite(next, processed)
                 /\ rt' = [rt EXCEPT ![next] = [processed EXCEPT !.invalid = TRUE]]
                 /\ failed' = failed \cup {next}
    /\ Passed
    /\ UNCHANGED <<monitor, eventQ, worker, retired, champion, promotion, asks, scheduler, exp,
                   restarts>>

\* A gap freezes the runtime; a frozen runtime records each further event as a
\* gap, until a write of one fails.
ArmFreezes ==
    /\ Turn(next) /\ next \notin Skipped
    /\ LET r == [rt[next] EXCEPT !.invalid = TRUE]
       IN  /\ \/ rt[next].invalid /\ rt[next].cursor # Batch.hi
              \/ ~rt[next].invalid /\ ~Known(rt[next], Batch) /\ ~Continues(rt[next], Batch)
           /\ rt' = [rt EXCEPT ![next] = r]
           /\ \/ /\ Advances(next, Batch.hi)
                 /\ rows' = [rows EXCEPT ![next] = GapBundle(next, r, Batch.hi)]
                 /\ UNCHANGED <<failed, faults>>
              \/ /\ rows[next].last >= Batch.hi
                 /\ failed' = IF rows[next].last = Batch.hi THEN failed ELSE failed \cup {next}
                 /\ UNCHANGED <<rows, faults>>
              \/ /\ Fault
                 /\ failed' = failed \cup {next}
                 /\ UNCHANGED rows
    /\ Passed
    /\ UNCHANGED <<monitor, eventQ, worker, signatures, retired, champion, promotion, asks,
                   scheduler, exp, restarts>>

-----------------------------------------------------------------------------
(* After the arms: the rollback, the evaluation and the activation *)

\* list_lifecycle_history orders by the time of application.
LatestChange == Last(exp.history)

Rollbacks(at) ==
    IF /\ next # NoneActive /\ asks = Nothing /\ exp.history # <<>>
       /\ LatestChange.kind = "PROMOTION" /\ LatestChange.to = champion /\ at >= LatestChange.at
    THEN {Nothing, [kind |-> "ROLLBACK", from |-> champion, to |-> LatestChange.from, at |-> at]}
    ELSE {Nothing}

\* MIN_COMPLETE_DAYS is one of the gates, the others are left to chance.
Eligible ==
    {a \in Arms \ (failed \cup retired \cup {champion}) :
        Cardinality(CompleteDays(rt[a])) >= MinDays}

NoCooldown(at) == FALSE
InCooldown(at) ==
    \E i \in 1..Len(exp.history) :
       exp.history[i].kind = "PROMOTION" /\ exp.history[i].at > at - Cooldown * DayLength

Selected(at) ==
    IF InCooldown(at) THEN {Nothing}
    ELSE {Nothing} \cup [from : {champion}, to : Eligible]

EvaluationDue(at) == MinuteOfDay(at) >= EvaluateAt /\ evaluatedDay # Day(at)
ActivationDue(at) == MinuteOfDay(at) >= ActivateAt /\ activatedDay # Day(at)
DayDone(due, day, at) == IF due THEN Day(at) ELSE day

\* A rollback drops the promotion set aside; the evaluation replaces it; the
\* activation sends it unless a request is under way, and comes once a day.
EndBatch ==
    /\ worker = "batch" /\ next > NumArms
    /\ LET at == Batch.hi
       IN  /\ \E rollback \in Rollbacks(at),
                  selected \in IF EvaluationDue(at) THEN Selected(at) ELSE {promotion, Nothing} :
                 /\ ~EvaluationDue(at) => selected = IF rollback = Nothing THEN promotion ELSE Nothing
                 /\ LET activates == /\ ActivationDue(at) /\ selected # Nothing
                                     /\ asks = Nothing /\ rollback = Nothing
                    IN  /\ promotion' = IF activates THEN Nothing ELSE selected
                        /\ asks' = IF activates
                                   THEN [kind |-> "PROMOTION", from |-> selected.from,
                                         to |-> selected.to, at |-> at]
                                   ELSE IF rollback # Nothing THEN rollback ELSE asks
           /\ evaluatedDay' = DayDone(EvaluationDue(at), evaluatedDay, at)
           /\ activatedDay' = DayDone(ActivationDue(at), activatedDay, at)
    /\ worker' = "idle" /\ next' = 1 /\ eventQ' = Tail(eventQ)
    /\ UNCHANGED <<monitor, rt, signatures, failed, retired, champion, disk, bounds>>

-----------------------------------------------------------------------------
(* resolve_lifecycle_request *)

Record(at) ==
    /\ exp' = [exp EXCEPT !.champion = asks.to,
                  !.history = Append(@, [kind |-> asks.kind, from |-> asks.from, to |-> asks.to,
                                         at |-> at]),
                  !.retired = IF asks.kind = "ROLLBACK" THEN @ \cup {asks.from} ELSE @]
    /\ champion' = asks.to
    /\ retired' = IF asks.kind = "ROLLBACK" THEN retired \cup {asks.from} ELSE retired

\* The monitor refuses a request whose source is no longer its policy.
Applied ==
    /\ worker = "idle" /\ asks # Nothing /\ asks.from = champion
    /\ \E at \in asks.at..now : Record(at)
    /\ asks' = Nothing
    /\ UNCHANGED <<monitor, eventQ, worker, next, rt, signatures, failed, promotion, scheduler,
                   rows, restarts, faults>>

Refused ==
    /\ worker = "idle" /\ asks # Nothing
    /\ asks' = Nothing
    /\ UNCHANGED <<monitor, eventQ, worker, next, rt, signatures, failed, retired, champion,
                   promotion, scheduler, disk, bounds>>

-----------------------------------------------------------------------------
Service == Tick \/ Start \/ Publish \/ Stop
Arm == ArmSkips \/ ArmTakes \/ ArmFreezes
Next == Service \/ TakeBatch \/ AnalyserFails \/ Arm \/ EndBatch \/ Applied \/ Refused

Spec == Init /\ [][Next]_vars

-----------------------------------------------------------------------------
Batches == {b \in [lo : Minutes, hi : Minutes] : b.lo <= b.hi}
Requests == [kind : {"PROMOTION", "ROLLBACK"}, from : Arms, to : Arms, at : Minutes]
OrderSeqs == Seq([at : Minutes, settled : BOOLEAN])
Covers == [first : None..DayLength - 1, last : None..DayLength - 1, count : Nat]
Runtimes == [cursor : None..MaxMinute, invalid : BOOLEAN, days : [DayNums -> Covers],
             orders : OrderSeqs, taken : Seq(Batches)]
Rows == [last : None..MaxMinute, state : Runtimes, orders : OrderSeqs, gaps : Nat]
Experiments == [id : Nat, effectiveFrom : Minutes, champion : Arms, retired : SUBSET Arms,
                history : Seq(Requests)]

TypeOK ==
    /\ now \in Minutes /\ toPublish \in None..MaxMinute + 1
    /\ eventQ \in Seq(Batches) /\ Len(eventQ) <= 1
    /\ worker \in {"down", "idle", "batch"} /\ next \in 1..NoneActive
    /\ worker = "batch" => eventQ # <<>>
    /\ rt \in [Arms -> Runtimes] /\ signatures \in [Arms -> Seq(BOOLEAN)]
    /\ failed \subseteq Arms /\ retired \subseteq Arms /\ champion \in Arms
    /\ promotion \in [from : Arms, to : Arms] \cup {Nothing}
    /\ asks \in Requests \cup {Nothing}
    /\ evaluatedDay \in None..Day(MaxMinute) /\ activatedDay \in None..Day(MaxMinute)
    /\ exp \in Experiments /\ rows \in [Arms -> Rows]
    /\ restarts \in Nat /\ faults \in Nat

MinutesOf(batches) == UNION {b.lo..b.hi : b \in batches}
DaysWithin(minutes) == {d \in DayNums : d * DayLength..(d + 1) * DayLength - 1 \subseteq minutes}

\* An arm's cursor and orders are those of the batches it took, one after the
\* other without a hole.
IsOf(a, r) ==
    LET batches == ToSet(r.taken)
        orders  == {[at |-> b.hi, settled |-> b.hi + Lasts <= r.cursor] :
                       b \in {c \in batches : DecidesToOpen(a, c.hi)}}
    IN  /\ \A i \in 1..Len(r.taken) - 1 : r.taken[i + 1].lo = r.taken[i].hi + 1
        /\ r.cursor = IF r.taken = <<>> THEN None ELSE Last(r.taken).hi
        /\ ToSet(r.orders) = orders /\ Len(r.orders) = Cardinality(orders)
        /\ CompleteDays(r) = DaysWithin(MinutesOf(batches))

\* What an arm has committed is the outcome of the batches it took, whatever
\* failed, crashed or was replayed: no order is lost, doubled or left open,
\* no minute is passed over, and a day counts as complete, towards the seven
\* an arm needs, if and only if the arm took each of its minutes.  So is what
\* a sound arm holds in memory.
ArmIsItsBatches ==
    \A a \in Arms :
       /\ IsOf(a, [rows[a].state EXCEPT !.orders = rows[a].orders])
       /\ a \notin failed => IsOf(a, rt[a])

\* The evaluation compares like with like: the arms that are neither frozen
\* nor failed nor retired have the same complete days, although each arm
\* commits by itself and a crash can come between two of them.
LikeForLike ==
    [][evaluatedDay' # evaluatedDay /\ worker' = "idle" /\ worker = "batch" =>
          \A a, b \in Arms \ Skipped :
             ~rt[a].invalid /\ ~rt[b].invalid => CompleteDays(rt[a]) = CompleteDays(rt[b])]_vars

\* The promotions of an experiment are Cooldown days apart, counted from when
\* they were applied, which may be long after they were asked for.
PromotionsApart ==
    \A i, j \in 1..Len(exp.history) :
       i < j /\ {exp.history[i].kind, exp.history[j].kind} = {"PROMOTION"} =>
          exp.history[j].at >= exp.history[i].at + Cooldown * DayLength

\* An arm that was rolled back takes no more batches and is never champion again.
RetiredStays ==
    [][\A a \in retired \cap retired' : rt'[a] = rt[a] /\ champion' # a]_vars

\* Only a gap in the minutes freezes an arm: taking an experiment up again
\* after the service was down does not.
RestartFreezesNone ==
    [][worker = "down" /\ worker' = "idle" =>
          \A a \in Arms : rt'[a].invalid => rows[a].state.invalid]_vars
=============================================================================
