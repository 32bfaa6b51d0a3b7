--------------------------- MODULE ChampionHandover ---------------------------
(***************************************************************************)
(* How the shadow optimizer's champion becomes the policy that admits      *)
(* orders.  The worker process asks for a change through the lifecycle     *)
(* queue; the supervisor's thread hands the request to the monitor, which  *)
(* applies it at once, or waits until no order is open or the deadline has *)
(* come; a detached thread writes the receipt and sends the result back;   *)
(* only then does the worker record its new champion.                      *)
(*                                                                         *)
(* The market events and the verdicts on the arms are the environment's;   *)
(* the arms themselves are module ShadowExperiment.                        *)
(*                                                                         *)
(* A parameter hash covers the policy of the arm and, through the runtime  *)
(* configuration, the policy in force when the experiment was seeded: it   *)
(* is the pair of an experiment's base and the arm's policy.               *)
(***************************************************************************)
EXTENDS Integers, Sequences, FiniteSets, SequencesExt

CONSTANTS
    Policies,
    BasePolicy,     \* the policy of the command line
    Symbols,
    FirstSymbol,
    Deadline,       \* minutes a change waits for open orders
    MaxTime,        \* bound: minutes
    MaxRequests,    \* bound: requests of the worker
    MaxExperiments, \* bound
    MaxSwitches,    \* bound: symbol switches of one life
    MaxRestarts,    \* bound
    MaxFaults,      \* bound: lost receipts, workers that die
    QueueSize       \* queue_size of the event queue

ASSUME HandoverAssumption ==
    /\ BasePolicy \in Policies /\ FirstSymbol \in Symbols
    /\ Deadline \in Nat \ {0} /\ MaxTime \in Nat /\ QueueSize \in Nat \ {0}
    /\ MaxRequests \in Nat /\ MaxExperiments \in Nat /\ MaxSwitches \in Nat
    /\ MaxRestarts \in Nat /\ MaxFaults \in Nat

VARIABLES
    (* the monitor process *)
    now,            \* close of the latest minute
    life,           \* "down", "restored" (before the worker starts), "up"
    context,        \* [sym, gen]
    formal,         \* profile_admission_policy
    open,           \* whether an order is open
    pend,           \* _pending_shadow_policy_change
    receipting,     \* the receipt threads
    publishing,     \* the context whose minute is about to be published
    (* the supervisor *)
    supContext,     \* _symbol_context
    eventQ, lifecycleQ, resultQ,
    (* the worker process *)
    worker,
    (* the shadow database *)
    experiments, receipts,
    (* observed, and bounds *)
    asked,          \* requests made so far
    observed,       \* in this life a receipt was lost; ever, receipt threads overlapped
    restarts, faults

monitor == <<now, life, context, formal, open, pend>>
queues == <<eventQ, lifecycleQ, resultQ>>
disk == <<experiments, receipts>>
vars == <<monitor, receipting, publishing, supContext, queues, worker, disk,
          asked, observed, restarts, faults>>

\* Times are in half minutes: a minute's close, and the wall clock after it.
CloseOf(minute) == 2 * minute
WallAfter(minute) == 2 * minute + 1
Times == 0..2 * MaxTime + 1

Nothing == [kind |-> "none"]
NothingOdd == [receiptLost |-> FALSE, overlapped |-> FALSE]
Context(s, g) == [sym |-> s, gen |-> g]
Contexts == [sym : Symbols, gen : 0..MaxSwitches]

\* What shadow_runtime_seed says of the monitor.
Seed == [context |-> context, base |-> formal]

ExperimentIds == 1..Len(experiments)
Fault == faults < MaxFaults /\ faults' = faults + 1

\* RejectsNothing, UnsavedSends, IgnoresOthers and WaitsForGood are deliberate
\* mistakes that show what the properties notice.

-----------------------------------------------------------------------------
(* request_shadow_policy_change and _apply_pending_shadow_policy_change_locked *)

RejectsNothing(req) == FALSE
Rejected(req) ==
    \/ req.context # context
    \/ req.expected # formal

WaitsForGood(req, time, isOpen) == isOpen
Waits(req, time, isOpen) == isOpen /\ time < req.at + CloseOf(Deadline)

Apply(req, time) ==
    /\ formal' = req.to
    /\ receipting' = receipting \cup
          {[req |-> req, at |-> time, stage |-> "save", seed |-> Nothing]}
    /\ pend' = Nothing
    /\ observed' = [observed EXCEPT !.overlapped = @ \/ receipting # {}]

\* The request is already known to fit the context and the policy in force.
Submit(req, time) ==
    IF Waits(req, time, open)
    THEN pend' = req /\ UNCHANGED <<formal, receipting, observed>>
    ELSE Apply(req, time)

-----------------------------------------------------------------------------
(* The worker's experiment, found or made when a ShadowOptimizer is built *)

\* The newest experiment of the symbol is taken up again if it fits the seed
\* and its checkpoint is whole and not behind the seed (usable).
Reusable(seed, usable) ==
    LET ofSymbol == {e \in ExperimentIds : experiments[e].context.sym = seed.context.sym}
        newest == CHOOSE e \in ofSymbol : \A f \in ofSymbol : f <= e
    IN  IF /\ usable /\ ofSymbol # {}
           /\ experiments[newest].context = seed.context
           /\ experiments[newest].base = seed.base
        THEN newest ELSE 0

Optimizer(seed, e, champion) ==
    [st |-> "run", pc |-> "drain", seed |-> seed, exp |-> e, champion |-> champion,
     asks |-> Nothing, promotion |-> Nothing, broken |-> FALSE]

NoWorker == [st |-> "none"]

\* Bound: where MaxExperiments are on disk already, the worker's story ends.
BuildOptimizer(seed) ==
    \E usable \in BOOLEAN :
       LET e == Reusable(seed, usable)
       IN  IF e # 0
           THEN /\ worker' = Optimizer(seed, e, experiments[e].champion)
                /\ UNCHANGED experiments
           ELSE IF Len(experiments) < MaxExperiments
           THEN /\ experiments' = Append(experiments,
                      [context |-> seed.context, base |-> seed.base, champion |-> seed.base,
                       history |-> <<>>, retired |-> {}])
                /\ worker' = Optimizer(seed, Len(experiments'), seed.base)
           ELSE worker' = NoWorker /\ UNCHANGED experiments

Running == worker.st = "run"

-----------------------------------------------------------------------------
Init ==
    /\ now = 0 /\ life = "down" /\ context = Context(FirstSymbol, 0)
    /\ formal = BasePolicy /\ open = FALSE /\ pend = Nothing
    /\ receipting = {} /\ publishing = Nothing
    /\ supContext = context
    /\ eventQ = <<>> /\ lifecycleQ = <<>> /\ resultQ = <<>>
    /\ worker = NoWorker
    /\ experiments = <<>> /\ receipts = <<>>
    /\ asked = 0 /\ observed = NothingOdd /\ restarts = 0 /\ faults = 0

-----------------------------------------------------------------------------
(* Start: the policy of the last receipt is restored, then the worker starts *)

\* load_latest_formal_policy_receipt: the latest by the time of application;
\* among several the order is that of a hash.
LatestReceipts(symbol) ==
    LET ofSymbol == {r \in ToSet(receipts) : r.req.context.sym = symbol}
    IN  IF ofSymbol = {} THEN {Nothing}
        ELSE {r \in ofSymbol : \A q \in ofSymbol : q.at <= r.at}

\* The arms are those of a seed with the policy of the command line: a
\* parameter hash of an experiment with another base is unknown.
Restorable(r) ==
    /\ r # Nothing
    /\ experiments[r.req.exp].base = BasePolicy
    /\ r.req.to # BasePolicy

RestoreRequest(r) ==
    [id |-> MaxRequests + restarts + 1, kind |-> "RESTORE", exp |-> r.req.exp,
     context |-> Context(FirstSymbol, 0), to |-> r.req.to, expected |-> BasePolicy,
     at |-> WallAfter(now)]

\* The orders loaded from the disk are in memory already.
StartMonitor ==
    /\ life = "down"
    /\ life' = "restored"
    /\ \E r \in LatestReceipts(FirstSymbol) :
          IF Restorable(r)
          THEN Submit(RestoreRequest(r), WallAfter(now))
          ELSE UNCHANGED <<formal, pend, receipting, observed>>
    /\ UNCHANGED <<now, context, open, publishing, supContext, queues, worker, disk,
                   asked, restarts, faults>>

StartWorker ==
    /\ life = "restored"
    /\ life' = "up"
    /\ supContext' = context
    /\ worker' = [st |-> "starting", seed |-> Seed]
    /\ UNCHANGED <<now, context, formal, open, pend, receipting, publishing, queues, disk,
                   asked, observed, restarts, faults>>

\* The process ends or is killed, and its child with it.
Stop ==
    /\ life = "up" /\ restarts < MaxRestarts
    /\ restarts' = restarts + 1
    /\ life' = "down"
    /\ formal' = BasePolicy /\ pend' = Nothing
    /\ context' = Context(FirstSymbol, 0) /\ supContext' = context'
    /\ receipting' = {} /\ publishing' = Nothing
    /\ eventQ' = <<>> /\ lifecycleQ' = <<>> /\ resultQ' = <<>>
    /\ worker' = NoWorker /\ observed' = [observed EXCEPT !.receiptLost = FALSE]
    /\ UNCHANGED <<now, open, disk, asked, faults>>

-----------------------------------------------------------------------------
(* The monitor *)

\* update_from_klines: orders are settled, the pending change is considered,
\* then orders may be opened.  At MaxTime minutes go on without the clock.
Minute ==
    /\ life = "up" /\ publishing = Nothing
    /\ now' = IF now < MaxTime THEN now + 1 ELSE now
    /\ \E still \in {FALSE, open} :
          IF pend = Nothing \/ Waits(pend, CloseOf(now'), still)
          THEN UNCHANGED <<formal, pend, receipting, observed>>
          ELSE IF Rejected(pend)
          THEN pend' = Nothing /\ UNCHANGED <<formal, receipting, observed>>
          ELSE Apply(pend, CloseOf(now'))
    /\ open' \in BOOLEAN
    /\ publishing' = [kind |-> "minute", context |-> context]
    /\ UNCHANGED <<life, context, supContext, queues, worker, disk, asked, restarts, faults>>

Room == Len(eventQ) < QueueSize

\* try_publish, outside the state's lock: the symbol may have been switched.
Publish ==
    /\ publishing # Nothing
    /\ publishing' = Nothing
    /\ LET c == publishing.context
           reset == c # supContext
       IN  IF /\ worker.st \in {"starting", "run"}
              /\ Room
              /\ reset => context = c
           THEN /\ eventQ' = Append(eventQ,
                      [context |-> c, at |-> CloseOf(now), seed |-> IF reset THEN Seed ELSE Nothing])
                /\ supContext' = c
           ELSE UNCHANGED <<eventQ, supContext>>
    /\ UNCHANGED <<monitor, receipting, lifecycleQ, resultQ, worker, disk, asked, observed,
                   restarts, faults>>

\* reset_symbol cancels the pending change; the policy in force stays.
SwitchSymbol ==
    /\ life = "up" /\ context.gen < MaxSwitches
    /\ \E s \in Symbols : context' = Context(s, context.gen + 1)
    /\ pend' = Nothing
    /\ open' \in BOOLEAN
    /\ UNCHANGED <<now, life, formal, receipting, publishing, supContext, queues, worker, disk,
                   asked, observed, restarts, faults>>

-----------------------------------------------------------------------------
(* The supervisor's status thread *)

HandleRequest ==
    /\ life = "up" /\ lifecycleQ # <<>>
    /\ lifecycleQ' = Tail(lifecycleQ)
    /\ LET req == Head(lifecycleQ)
       IN  IF Rejected(req)
           THEN /\ resultQ' = Append(resultQ, [id |-> req.id, applied |-> FALSE, seed |-> Nothing])
                /\ UNCHANGED <<formal, pend, receipting, observed>>
           ELSE Submit(req, req.at) /\ UNCHANGED resultQ
    /\ UNCHANGED <<now, life, context, open, publishing, supContext, eventQ, worker, disk,
                   asked, restarts, faults>>

-----------------------------------------------------------------------------
(* The receipt thread: record_formal_policy_receipt *)

Becomes(job, jobs) == receipting' = (receipting \ {job}) \cup jobs

SaveReceipt ==
    /\ \E job \in receipting :
          /\ job.stage = "save"
          /\ receipts' = Append(receipts, [req |-> job.req, at |-> job.at])
          /\ Becomes(job, {[job EXCEPT !.stage = "seed"]})
    /\ UNCHANGED <<monitor, publishing, supContext, queues, worker, experiments, asked,
                   observed, restarts, faults>>

\* Whether the thread goes on after the write raised.
UnsavedSends(job) == {[job EXCEPT !.stage = "seed"]}
Unsaved(job) == {}

SaveReceiptFails ==
    /\ Fault
    /\ \E job \in receipting : job.stage = "save" /\ Becomes(job, Unsaved(job))
    /\ observed' = [observed EXCEPT !.receiptLost = TRUE]
    /\ UNCHANGED <<monitor, publishing, supContext, queues, worker, disk, asked, restarts>>

TakeSeed ==
    /\ \E job \in receipting :
          /\ job.stage = "seed"
          /\ Becomes(job, {[job EXCEPT !.stage = "put", !.seed = Seed]})
    /\ UNCHANGED <<monitor, publishing, supContext, queues, worker, disk, asked, observed,
                   restarts, faults>>

\* Before the worker is started there is no queue to put the result in.
SendResult ==
    /\ \E job \in receipting :
          /\ job.stage = "put"
          /\ Becomes(job, {})
          /\ resultQ' = IF life = "up"
                        THEN Append(resultQ, [id |-> job.req.id, applied |-> TRUE, seed |-> job.seed])
                        ELSE resultQ
    /\ UNCHANGED <<monitor, publishing, supContext, eventQ, lifecycleQ, worker, disk, asked,
                   observed, restarts, faults>>

-----------------------------------------------------------------------------
(* The worker: results first, then one batch *)

WorkerBegins ==
    /\ worker.st = "starting"
    /\ BuildOptimizer(worker.seed)
    /\ UNCHANGED <<monitor, receipting, publishing, supContext, queues, receipts, asked,
                   observed, restarts, faults>>

WorkerDies ==
    /\ worker.st \in {"starting", "run"} /\ Fault
    /\ worker' = [st |-> "dead"]
    /\ UNCHANGED <<monitor, receipting, publishing, supContext, queues, disk, asked,
                   observed, restarts>>

Resolved(result) == worker.asks # Nothing /\ worker.asks.id = result.id

\* A policy was applied that this optimizer did not ask for.
IgnoresOthers(result) == FALSE
Unasked(result) == result.applied

\* resolve_lifecycle_request with an applied result: one transaction.
RecordChampion(req) ==
    experiments' = [experiments EXCEPT
       ![worker.exp].champion = req.to,
       ![worker.exp].history = Append(@, [id |-> req.id, kind |-> req.kind,
                                          from |-> req.expected, to |-> req.to]),
       ![worker.exp].retired = IF req.kind = "ROLLBACK" THEN @ \cup {req.expected} ELSE @]

TakeResult ==
    /\ Running /\ worker.pc = "drain" /\ resultQ # <<>>
    /\ resultQ' = Tail(resultQ)
    /\ LET result == Head(resultQ)
           req == worker.asks
       IN  IF Resolved(result)
           THEN IF result.applied
                THEN /\ RecordChampion(req)
                     /\ worker' = [worker EXCEPT !.champion = req.to, !.asks = Nothing]
                ELSE worker' = [worker EXCEPT !.asks = Nothing] /\ UNCHANGED experiments
           ELSE IF Unasked(result)
           THEN BuildOptimizer(result.seed)
           ELSE UNCHANGED <<worker, experiments>>
    /\ UNCHANGED <<monitor, receipting, publishing, supContext, eventQ, lifecycleQ, receipts,
                   asked, observed, restarts, faults>>

Drained ==
    /\ Running /\ worker.pc = "drain" /\ resultQ = <<>> /\ eventQ # <<>>
    /\ worker' = [worker EXCEPT !.pc = "wait"]
    /\ UNCHANGED <<monitor, receipting, publishing, supContext, queues, disk, asked,
                   observed, restarts, faults>>

\* A reset batch rebuilds the optimizer first.  Events of another context
\* than the optimizer's raise in every arm, which are frozen for good.
TakeBatch ==
    /\ Running /\ worker.pc = "wait" /\ eventQ # <<>>
    /\ eventQ' = Tail(eventQ)
    /\ LET batch == Head(eventQ)
       IN  IF batch.seed # Nothing
           THEN BuildOptimizer(batch.seed)
           ELSE /\ worker' = [worker EXCEPT !.pc = "drain",
                                 !.broken = @ \/ worker.seed.context # batch.context]
                /\ UNCHANGED experiments
    /\ UNCHANGED <<monitor, receipting, publishing, supContext, lifecycleQ, resultQ, receipts,
                   asked, observed, restarts, faults>>

AtBatch ==
    /\ Running /\ worker.pc = "wait" /\ eventQ # <<>> /\ ~worker.broken
    /\ Head(eventQ).seed = Nothing /\ Head(eventQ).context = worker.seed.context

History == experiments[worker.exp].history
Promotable == Policies \ (experiments[worker.exp].retired \cup {worker.champion})

\* evaluate sets a promotion aside, or drops it, or is not due yet.
Promotions == {Nothing, worker.promotion} \cup [from : {worker.champion}, to : Promotable]

Evaluate ==
    /\ AtBatch
    /\ \E p \in Promotions \ {worker.promotion} :
          worker' = [worker EXCEPT !.pc = "drain", !.promotion = p]
    /\ eventQ' = Tail(eventQ)
    /\ UNCHANGED <<monitor, receipting, publishing, supContext, lifecycleQ, resultQ, disk,
                   asked, observed, restarts, faults>>

\* Bound: a request is made early enough for its deadline to come.
Asks(kind, from, to, promotion) ==
    /\ asked < MaxRequests /\ Head(eventQ).at + CloseOf(Deadline) <= CloseOf(MaxTime)
    /\ asked' = asked + 1
    /\ LET req == [id |-> asked + 1, kind |-> kind, exp |-> worker.exp,
                   context |-> worker.seed.context, to |-> to, expected |-> from,
                   at |-> Head(eventQ).at]
       IN  /\ worker' = [worker EXCEPT !.pc = "drain", !.asks = req, !.promotion = promotion]
           /\ lifecycleQ' = Append(lifecycleQ, req)
    /\ eventQ' = Tail(eventQ)
    /\ UNCHANGED <<monitor, receipting, publishing, supContext, resultQ, disk, observed,
                   restarts, faults>>

\* activate_pending, in the batch of the evaluation or in a later one
ActivatePending ==
    /\ AtBatch /\ worker.asks = Nothing
    /\ \E p \in Promotions \ {Nothing} : Asks("PROMOTION", p.from, p.to, Nothing)

\* evaluate_rollback_if_needed comes before the evaluation of the same batch.
Rollback ==
    /\ AtBatch /\ worker.asks = Nothing /\ History # <<>>
    /\ LET latest == Last(History)
       IN  /\ latest.kind = "PROMOTION" /\ latest.to = worker.champion
           /\ \E p \in Promotions \ {worker.promotion} :
                 Asks("ROLLBACK", worker.champion, latest.from, p)

-----------------------------------------------------------------------------
Monitor == StartMonitor \/ StartWorker \/ Minute \/ Publish
Receipt == SaveReceipt \/ TakeSeed \/ SendResult
Work == WorkerBegins \/ TakeResult \/ Drained \/ TakeBatch
Verdicts == Evaluate \/ ActivatePending \/ Rollback
Next ==
    \/ Monitor \/ HandleRequest \/ Receipt \/ Work \/ Verdicts
    \/ SwitchSymbol \/ Stop \/ SaveReceiptFails \/ WorkerDies

Spec == Init /\ [][Next]_vars

\* The processes and threads go on; switches, stops, failures and the
\* verdicts on the arms are not fair.
FairSpec ==
    /\ Spec
    /\ WF_vars(StartMonitor) /\ WF_vars(StartWorker) /\ WF_vars(Minute) /\ WF_vars(Publish)
    /\ WF_vars(HandleRequest) /\ WF_vars(Receipt)
    /\ WF_vars(Work \/ Verdicts)

-----------------------------------------------------------------------------
RequestIds == 1..MaxRequests + MaxRestarts + 1
Seeds == [context : Contexts, base : Policies]
Kinds == {"PROMOTION", "ROLLBACK", "RESTORE"}
Requests == [id : RequestIds, kind : Kinds, exp : 1..MaxExperiments, context : Contexts,
             to : Policies, expected : Policies, at : Times]
Jobs == [req : Requests, at : Times, stage : {"save", "seed", "put"}, seed : Seeds \cup {Nothing}]
SavedReceipts == [req : Requests, at : Times]
Batches == [context : Contexts, at : Times, seed : Seeds \cup {Nothing}]
Results == [id : RequestIds, applied : BOOLEAN, seed : Seeds \cup {Nothing}]
Changes == [id : RequestIds, kind : Kinds, from : Policies, to : Policies]
Experiments == [context : Contexts, base : Policies, champion : Policies,
                history : Seq(Changes), retired : SUBSET Policies]
Optimizers ==
    [st : {"run"}, pc : {"drain", "wait"}, seed : Seeds, exp : 1..MaxExperiments,
     champion : Policies, asks : Requests \cup {Nothing},
     promotion : {Nothing} \cup [from : Policies, to : Policies], broken : BOOLEAN]
Workers == {NoWorker, [st |-> "dead"]} \cup [st : {"starting"}, seed : Seeds] \cup Optimizers

MonitorTypeOK ==
    /\ now \in 0..MaxTime /\ life \in {"down", "restored", "up"} /\ context \in Contexts
    /\ formal \in Policies /\ open \in BOOLEAN /\ pend \in Requests \cup {Nothing}
    /\ receipting \subseteq Jobs
    /\ \A job \in receipting : job.stage = "put" => job.seed \in Seeds
    /\ publishing \in {Nothing} \cup [kind : {"minute"}, context : Contexts]
    /\ observed \in [receiptLost : BOOLEAN, overlapped : BOOLEAN]
    /\ restarts \in 0..MaxRestarts /\ faults \in 0..MaxFaults

QueuesTypeOK ==
    /\ supContext \in Contexts
    /\ eventQ \in Seq(Batches) /\ Len(eventQ) <= QueueSize
    /\ lifecycleQ \in Seq(Requests)
    /\ resultQ \in Seq(Results)
    /\ \A i \in 1..Len(resultQ) : resultQ[i].applied => resultQ[i].seed \in Seeds

WorkerTypeOK ==
    /\ worker \in Workers
    /\ Running => worker.exp \in ExperimentIds
    /\ experiments \in Seq(Experiments) /\ Len(experiments) <= MaxExperiments
    /\ receipts \in Seq(SavedReceipts)
    /\ asked \in 0..MaxRequests

TypeOK == MonitorTypeOK /\ QueuesTypeOK /\ WorkerTypeOK

\* The experiment changes its champion only for a change that was applied and
\* whose receipt is on disk, whatever failed in between: every entry of its
\* history has its receipt.
ReceiptBeforeChampion ==
    \A e \in ExperimentIds : \A i \in 1..Len(experiments[e].history) :
       \E r \in ToSet(receipts) :
          /\ r.req.id = experiments[e].history[i].id /\ r.req.exp = e
          /\ r.req.to = experiments[e].history[i].to

\* Nothing is on its way between the two processes.
Quiet ==
    /\ life = "up" /\ Running
    /\ pend = Nothing /\ receipting = {} /\ lifecycleQ = <<>> /\ resultQ = <<>>
    /\ worker.asks = Nothing /\ worker.seed.context = context
    /\ \A i \in 1..Len(eventQ) : eventQ[i].seed = Nothing

\* The receipts of the worker's experiment all reached it: the process did not
\* stop between a receipt and the worker's record of it.
Reconciled ==
    \A r \in ToSet(receipts) : r.req.exp = worker.exp =>
       \E i \in 1..Len(History) : History[i].id = r.req.id

\* The receipts were written in the order of the times they name.  A restart
\* goes by these times.  A promotion that follows a rollback which waited for
\* open orders can name an earlier time than the rollback: it is dated by its
\* batch, which was queued meanwhile.
Chronological ==
    \A i, j \in 1..Len(receipts) : i < j => receipts[i].at < receipts[j].at

\* No symbol was switched in this life, or it is the first.  The generation is
\* counted from the start of the process: a switch can come upon a symbol's
\* experiment of an earlier life with the same number and take it up again with
\* its champion, whereas receipts are restored for the first symbol only.
OwnGeneration == restarts = 0 \/ context.gen = 0

\* When nothing is on its way, the worker's champion is the policy in force,
\* across restarts, symbol switches, late results and reused experiments.
\* A receipt that could not be written, or whose result died with the process,
\* leaves them apart: nothing reconciles the two databases.  So do two receipt
\* threads, when the older one's seed arrives last or, for a later restart,
\* when its receipt does; so do receipts out of order, and the experiment of
\* another life's generation.
ChampionAgrees ==
    Quiet /\ observed = NothingOdd /\ Reconciled /\ Chronological /\ OwnGeneration =>
       worker.champion = formal

\* The policy in force is replaced only by a request made for this context by
\* someone who took the replaced policy for the champion.
SwapsExpected ==
    [][life = "up" /\ life' = "up" /\ formal' # formal =>
          \E job \in receipting' \ receipting :
             /\ job.req.expected = formal /\ job.req.to = formal'
             /\ job.req.context = context]_vars

\* A worker that asked for a change is answered: it is applied, refused, or
\* the worker starts anew, unless the receipt is lost or the worker dies.
RequestAnswered ==
    (Running /\ worker.asks # Nothing) ~>
       (observed.receiptLost \/ ~Running \/ worker.asks = Nothing)
=============================================================================
