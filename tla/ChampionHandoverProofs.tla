------------------------ MODULE ChampionHandoverProofs ------------------------
(***************************************************************************)
(* What is proved of the hand-over of a champion, for any policies,        *)
(* symbols and bounds: the types; that the worker records a change only    *)
(* after its receipt is on disk; that the policy in force is replaced only *)
(* by a request that expected it; and that the worker's champion is the    *)
(* policy in force when nothing is on its way between the two.             *)
(*                                                                         *)
(* The first three rest on the identity of requests (IInv): wherever a     *)
(* request is, on its way, waiting, with a receipt thread or on disk, its  *)
(* number tells it. The last follows the policy in force through receipts, *)
(* answers, seeds, experiments and restarts (AInv).                        *)
(***************************************************************************)
EXTENDS ChampionHandover, CommonLemmas, TLAPS, SequenceTheorems

\* The requests the monitor still has before it.
Waiting == ToSet(lifecycleQ) \cup ({pend} \ {Nothing})

\* The requests that were applied: those of the receipt threads and on disk.
Applied == {job.req : job \in receipting} \cup {r.req : r \in ToSet(receipts)}

Known == Waiting \cup Applied

\* Every request was numbered by the worker, or is the one of a start.
Numbered == \A req \in Known : req.id <= asked \/ req.id > MaxRequests

\* The queue holds the worker's requests in the order it made them.
QueueOrdered ==
    /\ \A i \in 1..Len(lifecycleQ) : lifecycleQ[i].id <= asked
    /\ \A i, j \in 1..Len(lifecycleQ) : i < j => lifecycleQ[i].id < lifecycleQ[j].id

\* A request that waits in the queue is not applied, nor waits elsewhere, and
\* the pending change is with no receipt thread.
AppliedOnce ==
    /\ \A i \in 1..Len(lifecycleQ) :
          /\ pend # Nothing => pend.id # lifecycleQ[i].id
          /\ \A job \in receipting : job.req.id # lifecycleQ[i].id
    /\ pend # Nothing => \A job \in receipting : job.req.id # pend.id

\* A process that is down holds no request, and only one that is up has a
\* worker.
DownIsEmpty ==
    /\ life = "down" => lifecycleQ = <<>> /\ pend = Nothing /\ receipting = {}
    /\ life # "up" => worker.st = "none"

\* A request with the number of the one the worker waits for is that one.
AskedIsKnown ==
    Running /\ worker.asks # Nothing =>
       /\ worker.asks.id <= asked /\ worker.asks.exp = worker.exp
       /\ \A req \in Known : req.id = worker.asks.id => req = worker.asks

HasReceipt(id) == \E i \in 1..Len(receipts) : receipts[i].req.id = id

\* Whoever answers has the receipt on disk.
AnsweredIsSaved ==
    /\ \A job \in receipting : job.stage # "save" => HasReceipt(job.req.id)
    /\ \A i \in 1..Len(resultQ) : resultQ[i].applied => HasReceipt(resultQ[i].id)

\* ReceiptBeforeChampion, with the receipts by their place in the log.
Recorded ==
    \A e \in ExperimentIds : \A i \in 1..Len(experiments[e].history) :
       \E k \in 1..Len(receipts) :
          /\ receipts[k].req.id = experiments[e].history[i].id /\ receipts[k].req.exp = e
          /\ receipts[k].req.to = experiments[e].history[i].to

IInv ==
    /\ TypeOK
    /\ Numbered /\ QueueOrdered /\ AppliedOnce /\ DownIsEmpty
    /\ AskedIsKnown /\ AnsweredIsSaved /\ Recorded

-----------------------------------------------------------------------------
(* Type correctness: the operators the actions share *)

LEMMA TimesOfMinutes ==
  ASSUME NEW m \in 0..MaxTime
  PROVE  CloseOf(m) \in Times /\ WallAfter(m) \in Times
BY HandoverAssumption DEF CloseOf, WallAfter, Times

LEMMA SeedType == TypeOK => Seed \in Seeds
BY DEF TypeOK, MonitorTypeOK, Seed, Seeds

LEMMA ContextTypes ==
  ASSUME NEW s \in Symbols, NEW g \in 0..MaxSwitches
  PROVE  Context(s, g) \in Contexts
BY DEF Context, Contexts

LEMMA InitialContext == Context(FirstSymbol, 0) \in Contexts
BY ContextTypes, HandoverAssumption

LEMMA NothingIsNoRequest == Nothing \notin Requests
<1>1. \A req \in Requests : req.kind \in Kinds
  BY DEF Requests
<1>2. Nothing.kind = "none" /\ "none" \notin Kinds
  BY DEF Nothing, Kinds
<1>3. QED
  BY <1>1, <1>2

\* Applying a request leaves a receipt thread with a job of its own.
LEMMA ApplyTypes ==
  ASSUME TypeOK, NEW req \in Requests, NEW time \in Times, Apply(req, time)
  PROVE  /\ formal' \in Policies /\ pend' \in Requests \cup {Nothing}
         /\ receipting' \subseteq Jobs
         /\ \A job \in receipting' : job.stage = "put" => job.seed \in Seeds
         /\ observed' \in [receiptLost : BOOLEAN, overlapped : BOOLEAN]
<1> DEFINE new == [req |-> req, at |-> time, stage |-> "save", seed |-> Nothing]
<1>1. receipting \subseteq Jobs /\ \A job \in receipting : job.stage = "put" => job.seed \in Seeds
  BY DEF TypeOK, MonitorTypeOK
<1>2. new \in Jobs /\ new.stage = "save"
  BY DEF Jobs
<1>3. receipting' = receipting \cup {new} /\ formal' = req.to /\ pend' = Nothing
  BY DEF Apply
<1>4. receipting' \subseteq Jobs /\ \A job \in receipting' : job.stage = "put" => job.seed \in Seeds
  <2> HIDE DEF new
  <2>1. QED
    BY <1>1, <1>2, <1>3
<1>5. formal' \in Policies
  BY <1>3 DEF Requests
<1>6. observed' \in [receiptLost : BOOLEAN, overlapped : BOOLEAN]
  BY DEF TypeOK, MonitorTypeOK, Apply
<1>7. QED
  BY <1>3, <1>4, <1>5, <1>6

LEMMA SubmitTypes ==
  ASSUME TypeOK, NEW req \in Requests, NEW time \in Times, Submit(req, time)
  PROVE  /\ formal' \in Policies /\ pend' \in Requests \cup {Nothing}
         /\ receipting' \subseteq Jobs
         /\ \A job \in receipting' : job.stage = "put" => job.seed \in Seeds
         /\ observed' \in [receiptLost : BOOLEAN, overlapped : BOOLEAN]
<1>1. CASE Waits(req, time, open)
  BY <1>1 DEF Submit, TypeOK, MonitorTypeOK
<1>2. CASE ~Waits(req, time, open)
  BY <1>2, ApplyTypes DEF Submit
<1>3. QED
  BY <1>1, <1>2

\* Replacing a receipt thread's job by typed ones.
LEMMA BecomesTypes ==
  ASSUME TypeOK, NEW job \in receipting, NEW jobs, jobs \subseteq Jobs,
         \A j \in jobs : j.stage = "put" => j.seed \in Seeds, Becomes(job, jobs)
  PROVE  /\ receipting' \subseteq Jobs
         /\ \A j \in receipting' : j.stage = "put" => j.seed \in Seeds
BY DEF TypeOK, MonitorTypeOK, Becomes

\* A reusable experiment is one of those on disk, for the seed's context.
LEMMA ReusableFacts ==
  ASSUME TypeOK, NEW seed \in Seeds, NEW usable \in BOOLEAN, Reusable(seed, usable) # 0
  PROVE  Reusable(seed, usable) \in ExperimentIds
<1> DEFINE ofSymbol == {e \in ExperimentIds : experiments[e].context.sym = seed.context.sym}
           newest == CHOOSE e \in ofSymbol : \A g \in ofSymbol : g <= e
<1>1. Len(experiments) \in Nat /\ ofSymbol \subseteq 0..Len(experiments)
  BY DEF TypeOK, WorkerTypeOK, ExperimentIds
<1>2. ofSymbol # {} /\ Reusable(seed, usable) = newest
  BY DEF Reusable
<1>3. \E e \in ofSymbol : \A g \in ofSymbol : g <= e
  <2> HIDE DEF ofSymbol
  <2>1. QED
    BY <1>1, <1>2, GreatestExists
<1>4. newest \in ofSymbol
  <2> HIDE DEF ofSymbol
  <2>1. QED
    BY <1>3
<1>5. QED
  BY <1>2, <1>4

LEMMA OptimizerType ==
  ASSUME NEW seed \in Seeds, NEW e \in 1..MaxExperiments, NEW champion \in Policies
  PROVE  /\ Optimizer(seed, e, champion) \in Workers
         /\ Optimizer(seed, e, champion).st = "run"
         /\ Optimizer(seed, e, champion).exp = e
         /\ Optimizer(seed, e, champion).asks = Nothing
BY DEF Optimizer, Workers, Optimizers

\* An optimizer that is built takes up an experiment on disk, or appends one
\* without a history; or, at the bound, none is built.
LEMMA BuildFacts ==
  ASSUME TypeOK, NEW seed \in Seeds, BuildOptimizer(seed)
  PROVE  /\ worker' \in Workers
         /\ experiments' \in Seq(Experiments) /\ Len(experiments') <= MaxExperiments
         /\ Running' => /\ worker'.exp \in 1..Len(experiments')
                        /\ worker'.asks = Nothing
         /\ \/ experiments' = experiments
            \/ /\ Len(experiments') = Len(experiments) + 1
               /\ \A e \in ExperimentIds : experiments'[e] = experiments[e]
               /\ experiments'[Len(experiments) + 1].history = <<>>
<1>1. experiments \in Seq(Experiments) /\ Len(experiments) <= MaxExperiments
      /\ Len(experiments) \in Nat /\ MaxExperiments \in Nat
  BY HandoverAssumption DEF TypeOK, WorkerTypeOK
<1>2. PICK usable \in BOOLEAN :
         LET e == Reusable(seed, usable)
         IN  IF e # 0
             THEN /\ worker' = Optimizer(seed, e, experiments[e].champion)
                  /\ UNCHANGED experiments
             ELSE IF Len(experiments) < MaxExperiments
             THEN /\ experiments' = Append(experiments,
                        [context |-> seed.context, base |-> seed.base,
                         champion |-> seed.base, history |-> <<>>, retired |-> {}])
                  /\ worker' = Optimizer(seed, Len(experiments'), seed.base)
             ELSE worker' = NoWorker /\ UNCHANGED experiments
  BY DEF BuildOptimizer
<1> DEFINE e == Reusable(seed, usable)
           new == [context |-> seed.context, base |-> seed.base, champion |-> seed.base,
                   history |-> <<>>, retired |-> {}]
<1>3. CASE e # 0
  <2>1. e \in ExperimentIds
    BY <1>3, ReusableFacts
  <2>3. worker' = Optimizer(seed, e, experiments[e].champion) /\ experiments' = experiments
    BY <1>2, <1>3
  <2> HIDE DEF e
  <2>5. e \in 1..Len(experiments) /\ e \in 1..MaxExperiments
    BY <1>1, <2>1 DEF ExperimentIds
  <2>6. experiments[e] \in Experiments
    BY <1>1, <2>5
  <2>2. e \in 1..MaxExperiments /\ experiments[e].champion \in Policies /\ e \in 1..Len(experiments)
    BY <2>5, <2>6 DEF Experiments
  <2>4. QED
    BY <1>1, <2>2, <2>3, OptimizerType
<1>4. CASE e = 0 /\ Len(experiments) < MaxExperiments
  <2>1. experiments' = Append(experiments, new) /\ worker' = Optimizer(seed, Len(experiments'), seed.base)
    BY <1>2, <1>4
  <2>2. new \in Experiments /\ new.history = <<>>
    BY DEF Experiments, Seeds
  <2> HIDE DEF new, e
  <2>3. /\ experiments' \in Seq(Experiments) /\ Len(experiments') = Len(experiments) + 1
        /\ \A g \in 1..Len(experiments) : experiments'[g] = experiments[g]
        /\ experiments'[Len(experiments) + 1] = new
    BY <1>1, <2>1, <2>2, AppendPlaces
  <2>4. Len(experiments') \in 1..MaxExperiments /\ Len(experiments') \in 1..Len(experiments')
    BY <1>1, <1>4, <2>3
  <2>5. seed.base \in Policies
    BY DEF Seeds
  <2>6. worker' \in Workers /\ worker'.exp = Len(experiments') /\ worker'.asks = Nothing
    BY <2>1, <2>4, <2>5, OptimizerType
  <2>7. QED
    BY <2>2, <2>3, <2>4, <2>6 DEF ExperimentIds
<1>5. CASE e = 0 /\ ~(Len(experiments) < MaxExperiments)
  <2>1. worker' = NoWorker /\ experiments' = experiments
    BY <1>2, <1>5
  <2>2. worker' \in Workers /\ ~Running'
    BY <2>1 DEF Workers, Running, NoWorker
  <2>3. QED
    BY <1>1, <2>1, <2>2
<1>6. QED
  BY <1>3, <1>4, <1>5
-----------------------------------------------------------------------------
(* Type correctness: what the worker may become *)

LEMMA RunningIsOptimizer == TypeOK /\ Running => worker \in Optimizers
BY DEF TypeOK, WorkerTypeOK, Running, Workers, NoWorker

LEMMA StartingHasSeed == TypeOK /\ worker.st = "starting" => worker.seed \in Seeds
BY DEF TypeOK, WorkerTypeOK, Workers, Optimizers, NoWorker

\* The worker stays what it is but for some fields: its experiment remains.
LEMMA SameExperiment ==
  ASSUME TypeOK, Running, worker' \in Optimizers, worker'.exp = worker.exp,
         UNCHANGED <<experiments, receipts>>, asked' \in 0..MaxRequests
  PROVE  WorkerTypeOK'
BY DEF TypeOK, WorkerTypeOK, Workers, Running, Optimizers, ExperimentIds

LEMMA BatchType ==
  ASSUME TypeOK, eventQ # <<>>
  PROVE  /\ Head(eventQ) \in Batches
         /\ Tail(eventQ) \in Seq(Batches) /\ Len(Tail(eventQ)) <= QueueSize
<1>1. eventQ \in Seq(Batches) /\ Len(eventQ) <= QueueSize /\ QueueSize \in Nat
  BY HandoverAssumption DEF TypeOK, QueuesTypeOK
<1>2. QED
  BY <1>1, TailPlaces

LEMMA RequestType ==
  ASSUME TypeOK, lifecycleQ # <<>>
  PROVE  Head(lifecycleQ) \in Requests /\ Tail(lifecycleQ) \in Seq(Requests)
BY TailPlaces DEF TypeOK, QueuesTypeOK

LEMMA ResultType ==
  ASSUME TypeOK, resultQ # <<>>
  PROVE  /\ Head(resultQ) \in Results
         /\ Head(resultQ).applied => Head(resultQ).seed \in Seeds
         /\ Tail(resultQ) \in Seq(Results)
         /\ \A i \in 1..Len(Tail(resultQ)) :
               Tail(resultQ)[i].applied => Tail(resultQ)[i].seed \in Seeds
<1>1. /\ resultQ \in Seq(Results)
      /\ \A i \in 1..Len(resultQ) : resultQ[i].applied => resultQ[i].seed \in Seeds
  BY DEF TypeOK, QueuesTypeOK
<1>2. /\ Head(resultQ) \in Results /\ Head(resultQ) = resultQ[1] /\ Len(resultQ) \in Nat \ {0}
      /\ Tail(resultQ) \in Seq(Results)
      /\ \A i \in 1..Len(Tail(resultQ)) : i + 1 \in 1..Len(resultQ) /\ Tail(resultQ)[i] = resultQ[i + 1]
  BY <1>1, TailPlaces
<1>3. QED
  BY <1>1, <1>2

LEMMA AnswerType ==
  ASSUME TypeOK, NEW result \in Results, result.applied => result.seed \in Seeds
  PROVE  /\ Append(resultQ, result) \in Seq(Results)
         /\ \A i \in 1..Len(Append(resultQ, result)) :
               Append(resultQ, result)[i].applied => Append(resultQ, result)[i].seed \in Seeds
BY AppendPlaces DEF TypeOK, QueuesTypeOK

\* A promotion the worker may set aside, and a change it may ask for.
LEMMA PromotionTypes ==
  ASSUME TypeOK, Running
  PROVE  Promotions \subseteq {Nothing} \cup [from : Policies, to : Policies]
<1>1. worker.champion \in Policies /\ worker.promotion \in {Nothing} \cup [from : Policies, to : Policies]
  BY RunningIsOptimizer DEF Optimizers
<1>2. Promotable \subseteq Policies
  BY DEF Promotable
<1>3. QED
  BY <1>1, <1>2 DEF Promotions

LEMMA ExperimentOf ==
  ASSUME TypeOK, Running
  PROVE  /\ worker.exp \in ExperimentIds /\ experiments[worker.exp] \in Experiments
         /\ History \in Seq(Changes)
<1>1. worker.exp \in 1..Len(experiments) /\ experiments \in Seq(Experiments)
  BY DEF TypeOK, WorkerTypeOK, ExperimentIds
<1>2. experiments[worker.exp] \in Experiments
  BY <1>1
<1>3. QED
  BY <1>1, <1>2 DEF ExperimentIds, Experiments, History
-----------------------------------------------------------------------------
(* Type correctness: the monitor, the supervisor and the receipt threads *)

LEMMA InitTypeOK == Init => TypeOK
<1> SUFFICES ASSUME Init PROVE TypeOK
  OBVIOUS
<1>1. MonitorTypeOK
  <2>1. NothingOdd \in [receiptLost : BOOLEAN, overlapped : BOOLEAN]
    BY DEF NothingOdd
  <2>2. 0 \in 0..MaxTime /\ 0 \in 0..MaxRestarts /\ 0 \in 0..MaxFaults
    BY HandoverAssumption
  <2>3. QED
    BY <2>1, <2>2, HandoverAssumption, InitialContext DEF Init, MonitorTypeOK
<1>2. QueuesTypeOK
  BY HandoverAssumption, InitialContext DEF Init, QueuesTypeOK
<1>3. WorkerTypeOK
  BY HandoverAssumption DEF Init, WorkerTypeOK, Workers, Running, NoWorker
<1>4. QED
  BY <1>1, <1>2, <1>3 DEF TypeOK

LEMMA RestoreIsRequest ==
  ASSUME TypeOK, NEW r \in SavedReceipts
  PROVE  RestoreRequest(r) \in Requests /\ RestoreRequest(r).id = MaxRequests + restarts + 1
<1>1. restarts \in 0..MaxRestarts /\ now \in 0..MaxTime
  BY DEF TypeOK, MonitorTypeOK
<1>2. MaxRequests + restarts + 1 \in RequestIds
  BY <1>1, HandoverAssumption DEF RequestIds
<1>3. WallAfter(now) \in Times
  BY <1>1, TimesOfMinutes
<1>4. r.req.exp \in 1..MaxExperiments /\ r.req.to \in Policies
  BY DEF Requests, SavedReceipts
<1>5. QED
  BY <1>2, <1>3, <1>4, InitialContext, HandoverAssumption DEF RestoreRequest, Requests, Kinds

LEMMA StoredReceiptType ==
  ASSUME TypeOK, NEW r \in LatestReceipts(FirstSymbol), Restorable(r)
  PROVE  r \in SavedReceipts
<1>1. r # Nothing
  BY DEF Restorable
<1>2. r \in ToSet(receipts)
  BY <1>1 DEF LatestReceipts
<1>3. PICK i \in DOMAIN receipts : r = receipts[i]
  BY <1>2 DEF ToSet
<1>4. receipts \in Seq(SavedReceipts)
  BY DEF TypeOK, WorkerTypeOK
<1>5. QED
  BY <1>3, <1>4

LEMMA StartMonitorTypeOK == TypeOK /\ StartMonitor => TypeOK'
<1> SUFFICES ASSUME TypeOK, StartMonitor PROVE TypeOK'
  OBVIOUS
<1>1. PICK r \in LatestReceipts(FirstSymbol) :
         IF Restorable(r)
         THEN Submit(RestoreRequest(r), WallAfter(now))
         ELSE UNCHANGED <<formal, pend, receipting, observed>>
  BY DEF StartMonitor
<1>2. /\ formal' \in Policies /\ pend' \in Requests \cup {Nothing}
      /\ receipting' \subseteq Jobs
      /\ \A job \in receipting' : job.stage = "put" => job.seed \in Seeds
      /\ observed' \in [receiptLost : BOOLEAN, overlapped : BOOLEAN]
  <2>1. CASE Restorable(r)
    <3>1. RestoreRequest(r) \in Requests
      BY <2>1, StoredReceiptType, RestoreIsRequest
    <3>2. WallAfter(now) \in Times
      BY TimesOfMinutes DEF TypeOK, MonitorTypeOK
    <3>3. QED
      BY <1>1, <2>1, <3>1, <3>2, SubmitTypes
  <2>2. CASE ~Restorable(r)
    BY <1>1, <2>2 DEF TypeOK, MonitorTypeOK
  <2>3. QED
    BY <2>1, <2>2
<1>3. MonitorTypeOK'
  BY <1>2 DEF TypeOK, MonitorTypeOK, StartMonitor
<1>4. QueuesTypeOK'
  BY DEF TypeOK, QueuesTypeOK, StartMonitor, queues
<1>5. WorkerTypeOK'
  BY DEF TypeOK, WorkerTypeOK, StartMonitor, Running, ExperimentIds, disk
<1>6. QED
  BY <1>3, <1>4, <1>5 DEF TypeOK

LEMMA StartWorkerTypeOK == TypeOK /\ StartWorker => TypeOK'
<1> SUFFICES ASSUME TypeOK, StartWorker PROVE TypeOK'
  OBVIOUS
<1>1. MonitorTypeOK'
  BY DEF TypeOK, MonitorTypeOK, StartWorker
<1>2. QueuesTypeOK'
  BY DEF TypeOK, MonitorTypeOK, QueuesTypeOK, StartWorker, queues
<1>3. WorkerTypeOK'
  BY SeedType DEF TypeOK, WorkerTypeOK, StartWorker, Running, ExperimentIds, disk, Workers
<1>4. QED
  BY <1>1, <1>2, <1>3 DEF TypeOK

LEMMA StopTypeOK == TypeOK /\ Stop => TypeOK'
<1> SUFFICES ASSUME TypeOK, Stop PROVE TypeOK'
  OBVIOUS
<1>1. MonitorTypeOK'
  <2>1. observed' \in [receiptLost : BOOLEAN, overlapped : BOOLEAN]
    BY DEF TypeOK, MonitorTypeOK, Stop
  <2>2. QED
    BY <2>1, HandoverAssumption, InitialContext DEF TypeOK, MonitorTypeOK, Stop
<1>2. QueuesTypeOK'
  BY HandoverAssumption, InitialContext DEF TypeOK, QueuesTypeOK, Stop
<1>3. WorkerTypeOK'
  BY DEF TypeOK, WorkerTypeOK, Stop, Running, ExperimentIds, disk, Workers, NoWorker
<1>4. QED
  BY <1>1, <1>2, <1>3 DEF TypeOK

LEMMA MinuteTypeOK == TypeOK /\ Minute => TypeOK'
<1> SUFFICES ASSUME TypeOK, Minute PROVE TypeOK'
  OBVIOUS
<1>1. now' \in 0..MaxTime
  BY HandoverAssumption DEF TypeOK, MonitorTypeOK, Minute
<1>2. PICK still \in {FALSE, open} :
          IF pend = Nothing \/ Waits(pend, CloseOf(now'), still)
          THEN UNCHANGED <<formal, pend, receipting, observed>>
          ELSE IF Rejected(pend)
          THEN pend' = Nothing /\ UNCHANGED <<formal, receipting, observed>>
          ELSE Apply(pend, CloseOf(now'))
  BY DEF Minute
<1>3. /\ formal' \in Policies /\ pend' \in Requests \cup {Nothing}
      /\ receipting' \subseteq Jobs
      /\ \A job \in receipting' : job.stage = "put" => job.seed \in Seeds
      /\ observed' \in [receiptLost : BOOLEAN, overlapped : BOOLEAN]
  <2>1. CASE pend = Nothing \/ Waits(pend, CloseOf(now'), still)
    BY <1>2, <2>1 DEF TypeOK, MonitorTypeOK
  <2>2. CASE ~(pend = Nothing \/ Waits(pend, CloseOf(now'), still)) /\ Rejected(pend)
    BY <1>2, <2>2 DEF TypeOK, MonitorTypeOK
  <2>3. CASE ~(pend = Nothing \/ Waits(pend, CloseOf(now'), still)) /\ ~Rejected(pend)
    <3>1. pend \in Requests /\ CloseOf(now') \in Times
      BY <1>1, <2>3, TimesOfMinutes DEF TypeOK, MonitorTypeOK
    <3>2. QED
      BY <1>2, <2>3, <3>1, ApplyTypes
  <2>4. QED
    BY <2>1, <2>2, <2>3
<1>4. MonitorTypeOK'
  BY <1>1, <1>3 DEF TypeOK, MonitorTypeOK, Minute
<1>5. QueuesTypeOK'
  BY DEF TypeOK, QueuesTypeOK, Minute, queues
<1>6. WorkerTypeOK'
  BY DEF TypeOK, WorkerTypeOK, Minute, Running, ExperimentIds, disk
<1>7. QED
  BY <1>4, <1>5, <1>6 DEF TypeOK

LEMMA PublishTypeOK == TypeOK /\ Publish => TypeOK'
<1> SUFFICES ASSUME TypeOK, Publish PROVE TypeOK'
  OBVIOUS
<1>1. MonitorTypeOK'
  BY DEF TypeOK, MonitorTypeOK, Publish, monitor
<1>2. publishing.context \in Contexts
  BY DEF TypeOK, MonitorTypeOK, Publish
<1>3. CloseOf(now) \in Times
  BY TimesOfMinutes DEF TypeOK, MonitorTypeOK
<1>4. eventQ' \in Seq(Batches) /\ Len(eventQ') <= QueueSize /\ supContext' \in Contexts
  <2> DEFINE c == publishing.context
             batch == [context |-> c, at |-> CloseOf(now),
                       seed |-> IF c # supContext THEN Seed ELSE Nothing]
  <2>1. batch \in Batches
    BY <1>2, <1>3, SeedType DEF Batches
  <2>2. \/ Room /\ eventQ' = Append(eventQ, batch) /\ supContext' = c
        \/ UNCHANGED <<eventQ, supContext>>
    BY DEF Publish
  <2>3. eventQ \in Seq(Batches) /\ Len(eventQ) <= QueueSize /\ QueueSize \in Nat
    BY HandoverAssumption DEF TypeOK, QueuesTypeOK
  <2> HIDE DEF batch
  <2>4. Append(eventQ, batch) \in Seq(Batches) /\ Len(Append(eventQ, batch)) = Len(eventQ) + 1
    BY <2>1, <2>3, AppendPlaces
  <2>5. Room => Len(Append(eventQ, batch)) <= QueueSize
    BY <2>3, <2>4 DEF Room
  <2>6. supContext \in Contexts
    BY DEF TypeOK, QueuesTypeOK
  <2>7. QED
    BY <1>2, <2>2, <2>3, <2>4, <2>5, <2>6
<1>5. QueuesTypeOK'
  BY <1>4 DEF TypeOK, QueuesTypeOK, Publish
<1>6. WorkerTypeOK'
  BY DEF TypeOK, WorkerTypeOK, Publish, Running, ExperimentIds, disk
<1>7. QED
  BY <1>1, <1>5, <1>6 DEF TypeOK

LEMMA SwitchSymbolTypeOK == TypeOK /\ SwitchSymbol => TypeOK'
<1> SUFFICES ASSUME TypeOK, SwitchSymbol PROVE TypeOK'
  OBVIOUS
<1>1. context' \in Contexts
  <2>1. context.gen \in 0..MaxSwitches /\ context.gen + 1 \in 0..MaxSwitches
    BY HandoverAssumption DEF TypeOK, MonitorTypeOK, SwitchSymbol, Contexts
  <2>2. QED
    BY <2>1, ContextTypes DEF SwitchSymbol
<1>2. MonitorTypeOK'
  BY <1>1 DEF TypeOK, MonitorTypeOK, SwitchSymbol
<1>3. QueuesTypeOK'
  BY DEF TypeOK, QueuesTypeOK, SwitchSymbol, queues
<1>4. WorkerTypeOK'
  BY DEF TypeOK, WorkerTypeOK, SwitchSymbol, Running, ExperimentIds, disk
<1>5. QED
  BY <1>2, <1>3, <1>4 DEF TypeOK

LEMMA HandleRequestTypeOK == TypeOK /\ HandleRequest => TypeOK'
<1> SUFFICES ASSUME TypeOK, HandleRequest PROVE TypeOK'
  OBVIOUS
<1> DEFINE req == Head(lifecycleQ)
           result == [id |-> req.id, applied |-> FALSE, seed |-> Nothing]
<1>1. req \in Requests /\ lifecycleQ' \in Seq(Requests)
  BY RequestType DEF HandleRequest
<1>2. /\ formal' \in Policies /\ pend' \in Requests \cup {Nothing}
      /\ receipting' \subseteq Jobs
      /\ \A job \in receipting' : job.stage = "put" => job.seed \in Seeds
      /\ observed' \in [receiptLost : BOOLEAN, overlapped : BOOLEAN]
  <2>1. CASE Rejected(req)
    BY <2>1 DEF TypeOK, MonitorTypeOK, HandleRequest
  <2>2. CASE ~Rejected(req)
    <3>1. Submit(req, req.at) /\ req.at \in Times
      BY <1>1, <2>2 DEF HandleRequest, Requests
    <3>2. QED
      BY <1>1, <3>1, SubmitTypes
  <2>3. QED
    BY <2>1, <2>2
<1>3. /\ resultQ' \in Seq(Results)
      /\ \A i \in 1..Len(resultQ') : resultQ'[i].applied => resultQ'[i].seed \in Seeds
  <2>1. result \in Results /\ ~result.applied
    BY <1>1 DEF Results, Requests
  <2>2. resultQ' = Append(resultQ, result) \/ resultQ' = resultQ
    BY DEF HandleRequest
  <2> HIDE DEF result
  <2>3. QED
    BY <2>1, <2>2, AnswerType DEF TypeOK, QueuesTypeOK
<1>4. MonitorTypeOK'
  BY <1>2 DEF TypeOK, MonitorTypeOK, HandleRequest
<1>5. QueuesTypeOK'
  BY <1>1, <1>3 DEF TypeOK, QueuesTypeOK, HandleRequest
<1>6. WorkerTypeOK'
  BY DEF TypeOK, WorkerTypeOK, HandleRequest, Running, ExperimentIds, disk
<1>7. QED
  BY <1>4, <1>5, <1>6 DEF TypeOK
LEMMA SaveReceiptTypeOK == TypeOK /\ SaveReceipt => TypeOK'
<1> SUFFICES ASSUME TypeOK, SaveReceipt PROVE TypeOK'
  OBVIOUS
<1>1. PICK job \in receipting :
          /\ job.stage = "save"
          /\ receipts' = Append(receipts, [req |-> job.req, at |-> job.at])
          /\ Becomes(job, {[job EXCEPT !.stage = "seed"]})
  BY DEF SaveReceipt
<1>2. job \in Jobs
  BY DEF TypeOK, MonitorTypeOK
<1>3. [job EXCEPT !.stage = "seed"] \in Jobs /\ [job EXCEPT !.stage = "seed"].stage = "seed"
  BY <1>2 DEF Jobs
<1>4. /\ receipting' \subseteq Jobs
      /\ \A j \in receipting' : j.stage = "put" => j.seed \in Seeds
  BY <1>1, <1>3, BecomesTypes
<1>5. receipts' \in Seq(SavedReceipts)
  <2>1. [req |-> job.req, at |-> job.at] \in SavedReceipts
    BY <1>2 DEF Jobs, SavedReceipts
  <2>2. QED
    BY <1>1, <2>1, AppendPlaces DEF TypeOK, WorkerTypeOK
<1>6. MonitorTypeOK'
  BY <1>4 DEF TypeOK, MonitorTypeOK, SaveReceipt, monitor
<1>7. QueuesTypeOK'
  BY DEF TypeOK, QueuesTypeOK, SaveReceipt, queues
<1>8. WorkerTypeOK'
  BY <1>5 DEF TypeOK, WorkerTypeOK, SaveReceipt, Running, ExperimentIds
<1>9. QED
  BY <1>6, <1>7, <1>8 DEF TypeOK

LEMMA SaveReceiptFailsTypeOK == TypeOK /\ SaveReceiptFails => TypeOK'
<1> SUFFICES ASSUME TypeOK, SaveReceiptFails PROVE TypeOK'
  OBVIOUS
<1>1. PICK job \in receipting : job.stage = "save" /\ Becomes(job, {})
  BY DEF SaveReceiptFails, Unsaved
<1>2. /\ receipting' \subseteq Jobs
      /\ \A j \in receipting' : j.stage = "put" => j.seed \in Seeds
  BY <1>1, BecomesTypes
<1>3. faults' \in 0..MaxFaults
  BY HandoverAssumption DEF TypeOK, MonitorTypeOK, SaveReceiptFails, Fault
<1>4. observed' \in [receiptLost : BOOLEAN, overlapped : BOOLEAN]
  BY DEF TypeOK, MonitorTypeOK, SaveReceiptFails
<1>5. MonitorTypeOK'
  BY <1>2, <1>3, <1>4 DEF TypeOK, MonitorTypeOK, SaveReceiptFails, monitor
<1>6. QueuesTypeOK'
  BY DEF TypeOK, QueuesTypeOK, SaveReceiptFails, queues
<1>7. WorkerTypeOK'
  BY DEF TypeOK, WorkerTypeOK, SaveReceiptFails, Running, ExperimentIds, disk
<1>8. QED
  BY <1>5, <1>6, <1>7 DEF TypeOK

LEMMA TakeSeedTypeOK == TypeOK /\ TakeSeed => TypeOK'
<1> SUFFICES ASSUME TypeOK, TakeSeed PROVE TypeOK'
  OBVIOUS
<1>1. PICK job \in receipting :
          /\ job.stage = "seed"
          /\ Becomes(job, {[job EXCEPT !.stage = "put", !.seed = Seed]})
  BY DEF TakeSeed
<1>2. job \in Jobs
  BY DEF TypeOK, MonitorTypeOK
<1>3. /\ [job EXCEPT !.stage = "put", !.seed = Seed] \in Jobs
      /\ [job EXCEPT !.stage = "put", !.seed = Seed].seed = Seed
  BY <1>2, SeedType DEF Jobs
<1>4. /\ receipting' \subseteq Jobs
      /\ \A j \in receipting' : j.stage = "put" => j.seed \in Seeds
  BY <1>1, <1>3, SeedType, BecomesTypes
<1>5. MonitorTypeOK'
  BY <1>4 DEF TypeOK, MonitorTypeOK, TakeSeed, monitor
<1>6. QueuesTypeOK'
  BY DEF TypeOK, QueuesTypeOK, TakeSeed, queues
<1>7. WorkerTypeOK'
  BY DEF TypeOK, WorkerTypeOK, TakeSeed, Running, ExperimentIds, disk
<1>8. QED
  BY <1>5, <1>6, <1>7 DEF TypeOK

LEMMA SendResultTypeOK == TypeOK /\ SendResult => TypeOK'
<1> SUFFICES ASSUME TypeOK, SendResult PROVE TypeOK'
  OBVIOUS
<1>1. PICK job \in receipting :
          /\ job.stage = "put"
          /\ Becomes(job, {})
          /\ resultQ' = IF life = "up"
                        THEN Append(resultQ, [id |-> job.req.id, applied |-> TRUE, seed |-> job.seed])
                        ELSE resultQ
  BY DEF SendResult
<1>2. job \in Jobs /\ job.seed \in Seeds
  BY <1>1 DEF TypeOK, MonitorTypeOK
<1>3. /\ receipting' \subseteq Jobs
      /\ \A j \in receipting' : j.stage = "put" => j.seed \in Seeds
  BY <1>1, BecomesTypes
<1>4. /\ resultQ' \in Seq(Results)
      /\ \A i \in 1..Len(resultQ') : resultQ'[i].applied => resultQ'[i].seed \in Seeds
  <2> DEFINE result == [id |-> job.req.id, applied |-> TRUE, seed |-> job.seed]
  <2>1. result \in Results /\ result.seed \in Seeds
    BY <1>2 DEF Results, Jobs, Requests
  <2>2. resultQ' = Append(resultQ, result) \/ resultQ' = resultQ
    BY <1>1
  <2> HIDE DEF result
  <2>3. QED
    BY <2>1, <2>2, AnswerType DEF TypeOK, QueuesTypeOK
<1>5. MonitorTypeOK'
  BY <1>3 DEF TypeOK, MonitorTypeOK, SendResult, monitor
<1>6. QueuesTypeOK'
  BY <1>4 DEF TypeOK, QueuesTypeOK, SendResult
<1>7. WorkerTypeOK'
  BY DEF TypeOK, WorkerTypeOK, SendResult, Running, ExperimentIds, disk
<1>8. QED
  BY <1>5, <1>6, <1>7 DEF TypeOK

-----------------------------------------------------------------------------
(* Type correctness: the worker *)

LEMMA WorkerBeginsTypeOK == TypeOK /\ WorkerBegins => TypeOK'
<1> SUFFICES ASSUME TypeOK, WorkerBegins PROVE TypeOK'
  OBVIOUS
<1>1. worker.seed \in Seeds /\ BuildOptimizer(worker.seed)
  BY StartingHasSeed DEF WorkerBegins
<1>2. WorkerTypeOK'
  BY <1>1, BuildFacts DEF TypeOK, WorkerTypeOK, WorkerBegins, ExperimentIds
<1>3. MonitorTypeOK'
  BY DEF TypeOK, MonitorTypeOK, WorkerBegins, monitor
<1>4. QueuesTypeOK'
  BY DEF TypeOK, QueuesTypeOK, WorkerBegins, queues
<1>5. QED
  BY <1>2, <1>3, <1>4 DEF TypeOK

LEMMA WorkerDiesTypeOK == TypeOK /\ WorkerDies => TypeOK'
<1> SUFFICES ASSUME TypeOK, WorkerDies PROVE TypeOK'
  OBVIOUS
<1>1. WorkerTypeOK'
  BY DEF TypeOK, WorkerTypeOK, WorkerDies, ExperimentIds, Running, Workers, disk
<1>2. faults' \in 0..MaxFaults
  BY HandoverAssumption DEF TypeOK, MonitorTypeOK, WorkerDies, Fault
<1>3. MonitorTypeOK'
  BY <1>2 DEF TypeOK, MonitorTypeOK, WorkerDies, monitor
<1>4. QueuesTypeOK'
  BY DEF TypeOK, QueuesTypeOK, WorkerDies, queues
<1>5. QED
  BY <1>1, <1>3, <1>4 DEF TypeOK

\* Recording a champion appends to the history of one experiment.
LEMMA RecordFacts ==
  ASSUME TypeOK, Running, worker.asks # Nothing, RecordChampion(worker.asks)
  PROVE  LET req == worker.asks
             change == [id |-> req.id, kind |-> req.kind, from |-> req.expected, to |-> req.to]
         IN  /\ experiments' \in Seq(Experiments) /\ Len(experiments') = Len(experiments)
             /\ \A e \in ExperimentIds \ {worker.exp} : experiments'[e] = experiments[e]
             /\ experiments'[worker.exp].history = Append(History, change)
             /\ change \in Changes
<1> DEFINE req == worker.asks
           change == [id |-> req.id, kind |-> req.kind, from |-> req.expected, to |-> req.to]
           old == experiments[worker.exp]
           new == [old EXCEPT !.champion = req.to, !.history = Append(old.history, change),
                      !.retired = IF req.kind = "ROLLBACK" THEN old.retired \cup {req.expected}
                                  ELSE old.retired]
<1>1. req \in Requests
  BY RunningIsOptimizer DEF Optimizers
<1>2. change \in Changes
  BY <1>1 DEF Requests, Changes
<1>3. /\ worker.exp \in 1..Len(experiments) /\ old \in Experiments /\ old.history \in Seq(Changes)
      /\ History = old.history /\ old.retired \subseteq Policies
  BY ExperimentOf DEF ExperimentIds, History, Experiments
<1>4. experiments \in Seq(Experiments) /\ experiments' = [experiments EXCEPT ![worker.exp] = new]
  BY DEF TypeOK, WorkerTypeOK, RecordChampion
<1>5. Append(old.history, change) \in Seq(Changes)
  <2> HIDE DEF change, old
  <2>1. QED
    BY <1>2, <1>3, AppendPlaces
<1>6. req.to \in Policies /\ req.expected \in Policies
  BY <1>1 DEF Requests
<1>7. new \in Experiments /\ new.history = Append(old.history, change)
  <2> HIDE DEF change, req
  <2>1. (IF req.kind = "ROLLBACK" THEN old.retired \cup {req.expected} ELSE old.retired)
          \in SUBSET Policies
    BY <1>3, <1>6
  <2> HIDE DEF old
  <2>2. QED
    BY <1>3, <1>5, <1>6, <2>1 DEF Experiments
<1>8. QED
  <2> HIDE DEF new, change
  <2>1. /\ experiments' \in Seq(Experiments) /\ Len(experiments') = Len(experiments)
        /\ \A e \in 1..Len(experiments) : e # worker.exp => experiments'[e] = experiments[e]
        /\ experiments'[worker.exp] = new
    BY <1>3, <1>4, <1>7
  <2>2. QED
    BY <1>2, <1>3, <1>7, <2>1 DEF ExperimentIds, change

LEMMA TakeResultTypeOK == TypeOK /\ TakeResult => TypeOK'
<1> SUFFICES ASSUME TypeOK, TakeResult PROVE TypeOK'
  OBVIOUS
<1> DEFINE result == Head(resultQ)
           req == worker.asks
<1>1. /\ result \in Results
      /\ result.applied => result.seed \in Seeds
      /\ resultQ' \in Seq(Results)
      /\ \A i \in 1..Len(resultQ') : resultQ'[i].applied => resultQ'[i].seed \in Seeds
  BY ResultType DEF TakeResult
<1>2. worker \in Optimizers /\ Running
  BY RunningIsOptimizer DEF TakeResult
<1>3. WorkerTypeOK'
  <2>1. CASE Resolved(result) /\ result.applied
    <3>1. RecordChampion(req) /\ worker' = [worker EXCEPT !.champion = req.to, !.asks = Nothing]
      BY <2>1 DEF TakeResult
    <3>2. req # Nothing /\ req \in Requests
      BY <1>2, <2>1 DEF Resolved, Optimizers
    <3>3. experiments' \in Seq(Experiments) /\ Len(experiments') = Len(experiments)
      BY <1>2, <3>1, <3>2, RecordFacts
    <3>4. req.to \in Policies
      BY <3>2 DEF Requests
    <3>5. worker' \in Optimizers /\ worker'.exp = worker.exp
      <4> HIDE DEF req
      <4>1. QED
        BY <1>2, <3>1, <3>4 DEF Optimizers
    <3>6. QED
      BY <1>2, <3>3, <3>5 DEF TypeOK, WorkerTypeOK, Workers, ExperimentIds, TakeResult
  <2>2. CASE Resolved(result) /\ ~result.applied
    <3>1. worker' = [worker EXCEPT !.asks = Nothing] /\ UNCHANGED experiments
      BY <2>2 DEF TakeResult
    <3>2. worker' \in Optimizers /\ worker'.exp = worker.exp
      <4>1. Nothing \in Requests \cup {Nothing}
        OBVIOUS
      <4>2. worker' = [worker EXCEPT !.asks = Nothing]
        BY <3>1
      <4>3. QED
        BY <1>2, <4>1, <4>2 DEF Optimizers
    <3>3. QED
      BY <1>2, <3>1, <3>2, SameExperiment DEF TakeResult, TypeOK, WorkerTypeOK
  <2>3. CASE ~Resolved(result) /\ Unasked(result)
    <3>1. BuildOptimizer(result.seed) /\ result.seed \in Seeds
      BY <1>1, <2>3 DEF TakeResult, Unasked
    <3>2. QED
      BY <3>1, BuildFacts DEF TakeResult, TypeOK, WorkerTypeOK, ExperimentIds
  <2>4. CASE ~Resolved(result) /\ ~Unasked(result)
    BY <2>4 DEF TakeResult, TypeOK, WorkerTypeOK, Running, ExperimentIds
  <2>5. QED
    BY <2>1, <2>2, <2>3, <2>4
<1>4. MonitorTypeOK'
  BY DEF TypeOK, MonitorTypeOK, TakeResult, monitor
<1>5. QueuesTypeOK'
  BY <1>1 DEF TypeOK, QueuesTypeOK, TakeResult
<1>6. QED
  BY <1>3, <1>4, <1>5 DEF TypeOK

LEMMA DrainedTypeOK == TypeOK /\ Drained => TypeOK'
<1> SUFFICES ASSUME TypeOK, Drained PROVE TypeOK'
  OBVIOUS
<1>1. worker \in Optimizers /\ Running
  BY RunningIsOptimizer DEF Drained
<1>2. worker' \in Optimizers /\ worker'.exp = worker.exp
  BY <1>1 DEF Optimizers, Drained
<1>3. WorkerTypeOK'
  BY <1>1, <1>2, SameExperiment DEF Drained, TypeOK, WorkerTypeOK, disk
<1>4. MonitorTypeOK'
  BY DEF TypeOK, MonitorTypeOK, Drained, monitor
<1>5. QueuesTypeOK'
  BY DEF TypeOK, QueuesTypeOK, Drained, queues
<1>6. QED
  BY <1>3, <1>4, <1>5 DEF TypeOK

LEMMA TakeBatchTypeOK == TypeOK /\ TakeBatch => TypeOK'
<1> SUFFICES ASSUME TypeOK, TakeBatch PROVE TypeOK'
  OBVIOUS
<1> DEFINE batch == Head(eventQ)
<1>1. batch \in Batches /\ eventQ' \in Seq(Batches) /\ Len(eventQ') <= QueueSize
  BY BatchType DEF TakeBatch
<1>2. worker \in Optimizers /\ Running
  BY RunningIsOptimizer DEF TakeBatch
<1>3. WorkerTypeOK'
  <2>1. CASE batch.seed # Nothing
    <3>1. BuildOptimizer(batch.seed) /\ batch.seed \in Seeds
      BY <1>1, <2>1 DEF TakeBatch, Batches
    <3>2. QED
      BY <3>1, BuildFacts DEF TakeBatch, TypeOK, WorkerTypeOK, ExperimentIds
  <2>2. CASE batch.seed = Nothing
    <3>1. /\ worker' = [worker EXCEPT !.pc = "drain",
                           !.broken = @ \/ worker.seed.context # batch.context]
          /\ UNCHANGED experiments
      BY <2>2 DEF TakeBatch
    <3>2. worker' \in Optimizers /\ worker'.exp = worker.exp
      BY <1>2, <3>1 DEF Optimizers
    <3>3. QED
      BY <1>2, <3>1, <3>2, SameExperiment DEF TakeBatch, TypeOK, WorkerTypeOK
  <2>3. QED
    BY <2>1, <2>2
<1>4. MonitorTypeOK'
  BY DEF TypeOK, MonitorTypeOK, TakeBatch, monitor
<1>5. QueuesTypeOK'
  BY <1>1 DEF TypeOK, QueuesTypeOK, TakeBatch
<1>6. QED
  BY <1>3, <1>4, <1>5 DEF TypeOK

LEMMA EvaluateTypeOK == TypeOK /\ Evaluate => TypeOK'
<1> SUFFICES ASSUME TypeOK, Evaluate PROVE TypeOK'
  OBVIOUS
<1>1. worker \in Optimizers /\ Running /\ eventQ # <<>>
  BY RunningIsOptimizer DEF Evaluate, AtBatch
<1>2. PICK p \in Promotions : worker' = [worker EXCEPT !.pc = "drain", !.promotion = p]
  BY DEF Evaluate
<1>3. p \in {Nothing} \cup [from : Policies, to : Policies]
  BY <1>1, PromotionTypes
<1>4. worker' \in Optimizers /\ worker'.exp = worker.exp
  BY <1>1, <1>2, <1>3 DEF Optimizers
<1>5. WorkerTypeOK'
  BY <1>1, <1>4, SameExperiment DEF Evaluate, TypeOK, WorkerTypeOK, disk
<1>6. MonitorTypeOK'
  BY DEF TypeOK, MonitorTypeOK, Evaluate, monitor
<1>7. QueuesTypeOK'
  BY <1>1, BatchType DEF TypeOK, QueuesTypeOK, Evaluate
<1>8. QED
  BY <1>5, <1>6, <1>7 DEF TypeOK

\* The request the worker makes is a new one, of its experiment, and it comes
\* last in the queue.
LEMMA AsksFacts ==
  ASSUME TypeOK, AtBatch, NEW kind \in Kinds, NEW from \in Policies, NEW to \in Policies,
         NEW promotion \in {Nothing} \cup [from : Policies, to : Policies],
         Asks(kind, from, to, promotion)
  PROVE  \E req \in Requests :
            /\ req.id = asked + 1 /\ req.exp = worker.exp
            /\ req.kind = kind /\ req.context = worker.seed.context
            /\ asked' = asked + 1 /\ asked' \in 0..MaxRequests
            /\ lifecycleQ' = Append(lifecycleQ, req)
            /\ worker' \in Optimizers /\ worker'.exp = worker.exp /\ worker'.asks = req
            /\ worker'.seed = worker.seed /\ worker'.champion = worker.champion
<1> DEFINE req == [id |-> asked + 1, kind |-> kind, exp |-> worker.exp,
                   context |-> worker.seed.context, to |-> to, expected |-> from,
                   at |-> Head(eventQ).at]
<1>1. worker \in Optimizers /\ eventQ # <<>>
  BY RunningIsOptimizer DEF AtBatch
<1>2. asked \in 0..MaxRequests /\ asked < MaxRequests /\ MaxRequests \in Nat /\ MaxRestarts \in Nat
  BY HandoverAssumption DEF TypeOK, WorkerTypeOK, Asks
<1>3. asked + 1 \in RequestIds /\ asked + 1 \in 0..MaxRequests
  BY <1>2 DEF RequestIds
<1>4. Head(eventQ).at \in Times
  BY <1>1, BatchType DEF Batches
<1>5. worker.exp \in 1..MaxExperiments /\ worker.seed.context \in Contexts
  BY <1>1 DEF Optimizers, Seeds
<1>6. req \in Requests
  BY <1>3, <1>4, <1>5 DEF Requests
<1>7. /\ asked' = asked + 1 /\ lifecycleQ' = Append(lifecycleQ, req)
      /\ worker' = [worker EXCEPT !.pc = "drain", !.asks = req, !.promotion = promotion]
  BY DEF Asks
<1>8. /\ worker' \in Optimizers /\ worker'.exp = worker.exp /\ worker'.asks = req
      /\ worker'.seed = worker.seed /\ worker'.champion = worker.champion
  <2> HIDE DEF req
  <2>1. QED
    BY <1>1, <1>6, <1>7 DEF Optimizers
<1>9. req.id = asked + 1 /\ req.exp = worker.exp /\ req.kind = kind /\ req.context = worker.seed.context
  OBVIOUS
<1> HIDE DEF req
<1>10. QED
  BY <1>3, <1>6, <1>7, <1>8, <1>9

LEMMA AsksTypeOK ==
  ASSUME TypeOK, AtBatch, NEW kind \in Kinds, NEW from \in Policies, NEW to \in Policies,
         NEW promotion \in {Nothing} \cup [from : Policies, to : Policies],
         Asks(kind, from, to, promotion)
  PROVE  TypeOK'
<1>1. Running /\ eventQ # <<>>
  BY DEF AtBatch
<1>2. PICK req \in Requests :
            /\ req.id = asked + 1 /\ req.exp = worker.exp
            /\ asked' = asked + 1 /\ asked' \in 0..MaxRequests
            /\ lifecycleQ' = Append(lifecycleQ, req)
            /\ worker' \in Optimizers /\ worker'.exp = worker.exp /\ worker'.asks = req
  BY AsksFacts
<1>3. WorkerTypeOK'
  BY <1>1, <1>2, SameExperiment DEF Asks, disk
<1>4. lifecycleQ' \in Seq(Requests)
  BY <1>2, AppendPlaces DEF TypeOK, QueuesTypeOK
<1>5. MonitorTypeOK'
  BY DEF TypeOK, MonitorTypeOK, Asks, monitor
<1>6. QueuesTypeOK'
  BY <1>1, <1>4, BatchType DEF TypeOK, QueuesTypeOK, Asks
<1>7. QED
  BY <1>3, <1>5, <1>6 DEF TypeOK

\* Each verdict that asks, asks for a change of the champion.
LEMMA VerdictAsks ==
  ASSUME TypeOK, ActivatePending \/ Rollback
  PROVE  /\ AtBatch /\ worker.asks = Nothing
         /\ \E kind \in Kinds \ {"RESTORE"}, from \in Policies, to \in Policies,
              promotion \in {Nothing} \cup [from : Policies, to : Policies] :
                 Asks(kind, from, to, promotion)
<1>1. AtBatch /\ worker.asks = Nothing /\ Running
  BY DEF ActivatePending, Rollback, AtBatch
<1>2. worker.champion \in Policies
  BY <1>1, RunningIsOptimizer DEF Optimizers
<1>3. CASE ActivatePending
  <2>1. PICK p \in Promotions \ {Nothing} : Asks("PROMOTION", p.from, p.to, Nothing)
    BY <1>3 DEF ActivatePending
  <2>2. p.from \in Policies /\ p.to \in Policies
    BY <1>1, PromotionTypes
  <2>3. "PROMOTION" \in Kinds \ {"RESTORE"}
    BY DEF Kinds
  <2>4. QED
    BY <1>1, <2>1, <2>2, <2>3
<1>4. CASE Rollback
  <2>1. PICK p \in Promotions : Asks("ROLLBACK", worker.champion, Last(History).from, p)
    BY <1>4 DEF Rollback
  <2>2. p \in {Nothing} \cup [from : Policies, to : Policies]
    BY <1>1, PromotionTypes
  <2>3. Last(History).from \in Policies
    <3>1. History \in Seq(Changes) /\ History # <<>>
      BY <1>1, <1>4, ExperimentOf DEF Rollback
    <3>2. Last(History) \in Changes
      BY <3>1 DEF Last
    <3>3. QED
      BY <3>2 DEF Changes
  <2>4. "ROLLBACK" \in Kinds \ {"RESTORE"}
    BY DEF Kinds
  <2>5. QED
    BY <1>1, <1>2, <2>1, <2>2, <2>3, <2>4
<1>5. QED
  BY <1>3, <1>4

LEMMA NextTypeOK == TypeOK /\ [Next]_vars => TypeOK'
<1> SUFFICES ASSUME TypeOK, [Next]_vars PROVE TypeOK'
  OBVIOUS
<1>1. CASE Monitor
  BY <1>1, StartMonitorTypeOK, StartWorkerTypeOK, MinuteTypeOK, PublishTypeOK DEF Monitor
<1>2. CASE HandleRequest \/ SwitchSymbol \/ Stop
  BY <1>2, HandleRequestTypeOK, SwitchSymbolTypeOK, StopTypeOK
<1>3. CASE Receipt \/ SaveReceiptFails
  BY <1>3, SaveReceiptTypeOK, TakeSeedTypeOK, SendResultTypeOK, SaveReceiptFailsTypeOK DEF Receipt
<1>4. CASE Work \/ WorkerDies
  BY <1>4, WorkerBeginsTypeOK, TakeResultTypeOK, DrainedTypeOK, TakeBatchTypeOK, WorkerDiesTypeOK
  DEF Work
<1>5. CASE Evaluate
  BY <1>5, EvaluateTypeOK
<1>6. CASE ActivatePending \/ Rollback
  BY <1>6, VerdictAsks, AsksTypeOK
<1>7. CASE UNCHANGED vars
  BY <1>7 DEF vars, monitor, queues, disk, TypeOK, MonitorTypeOK, QueuesTypeOK, WorkerTypeOK,
              Running, ExperimentIds
<1>8. QED
  BY <1>1, <1>2, <1>3, <1>4, <1>5, <1>6, <1>7 DEF Next, Verdicts

\* Every variable keeps its type: whatever is queued, waits or is on its way
\* is a whole request, batch or answer, the worker's experiment is on disk,
\* and an applied answer carries the seed to start from.
THEOREM HandoverTypeCorrect == Spec => []TypeOK
<1>1. Init => TypeOK
  BY InitTypeOK
<1>2. TypeOK /\ [Next]_vars => TypeOK'
  BY NextTypeOK
<1>3. QED
  BY <1>1, <1>2, PTL DEF Spec
-----------------------------------------------------------------------------
(* Where requests are *)

LEMMA KnownPlaces ==
  ASSUME TypeOK
  PROVE  /\ \A i \in 1..Len(lifecycleQ) : lifecycleQ[i] \in Known
         /\ pend # Nothing => pend \in Known
         /\ \A job \in receipting : job.req \in Known
         /\ \A i \in 1..Len(receipts) : receipts[i].req \in Known
<1>1. lifecycleQ \in Seq(Requests) /\ receipts \in Seq(SavedReceipts)
  BY DEF TypeOK, QueuesTypeOK, WorkerTypeOK
<1>2. \A i \in 1..Len(lifecycleQ) : lifecycleQ[i] \in ToSet(lifecycleQ)
  BY <1>1 DEF ToSet
<1>3. \A i \in 1..Len(receipts) : receipts[i] \in ToSet(receipts)
  BY <1>1 DEF ToSet
<1>4. QED
  BY <1>2, <1>3 DEF Known, Waiting, Applied

\* Applying or keeping a request adds it to the known ones, and no other.
LEMMA SubmitKnown ==
  ASSUME TypeOK, NEW req \in Requests, NEW time, Submit(req, time),
         ToSet(lifecycleQ') \subseteq ToSet(lifecycleQ), receipts' = receipts
  PROVE  Known' \subseteq Known \cup {req}
<1>1. CASE Waits(req, time, open)
  <2>1. pend' = req /\ receipting' = receipting
    BY <1>1 DEF Submit
  <2>2. QED
    BY <2>1 DEF Known, Waiting, Applied
<1>2. CASE ~Waits(req, time, open)
  <2>1. /\ pend' = Nothing
        /\ receipting' = receipting \cup
              {[req |-> req, at |-> time, stage |-> "save", seed |-> Nothing]}
    BY <1>2 DEF Submit, Apply
  <2>2. \A job \in receipting' : job \in receipting \/ job.req = req
    BY <2>1
  <2>3. QED
    BY <2>1, <2>2 DEF Known, Waiting, Applied
<1>3. QED
  BY <1>1, <1>2

LEMMA ApplyKnown ==
  ASSUME NEW req, NEW time, Apply(req, time),
         ToSet(lifecycleQ') \subseteq ToSet(lifecycleQ), receipts' = receipts
  PROVE  Known' \subseteq Known \cup {req}
<1>1. /\ pend' = Nothing
      /\ receipting' = receipting \cup
            {[req |-> req, at |-> time, stage |-> "save", seed |-> Nothing]}
  BY DEF Apply
<1>2. \A job \in receipting' : job \in receipting \/ job.req = req
  BY <1>1
<1>3. QED
  BY <1>1, <1>2 DEF Known, Waiting, Applied

\* What a receipt thread's step leaves behind is of the same request.
LEMMA BecomesKnown ==
  ASSUME NEW job \in receipting, NEW jobs, \A j \in jobs : j.req = job.req, Becomes(job, jobs)
  PROVE  {j.req : j \in receipting'} \subseteq {j.req : j \in receipting}
BY DEF Becomes

LEMMA TailSet ==
  ASSUME TypeOK, lifecycleQ # <<>>
  PROVE  ToSet(Tail(lifecycleQ)) \subseteq ToSet(lifecycleQ)
<1>1. /\ lifecycleQ \in Seq(Requests) /\ Tail(lifecycleQ) \in Seq(Requests)
      /\ \A i \in 1..Len(Tail(lifecycleQ)) :
            i + 1 \in 1..Len(lifecycleQ) /\ Tail(lifecycleQ)[i] = lifecycleQ[i + 1]
  BY TailPlaces DEF TypeOK, QueuesTypeOK
<1>2. QED
  BY <1>1 DEF ToSet

LEMMA AppendSet ==
  ASSUME NEW S, NEW q \in Seq(S), NEW x \in S
  PROVE  ToSet(Append(q, x)) \subseteq ToSet(q) \cup {x}
<1>1. /\ Append(q, x) \in Seq(S)
      /\ \A i \in 1..Len(Append(q, x)) :
            (i \in 1..Len(q) /\ Append(q, x)[i] = q[i])
               \/ (i = Len(q) + 1 /\ Append(q, x)[i] = x)
  BY AppendPlaces
<1>2. QED
  BY <1>1 DEF ToSet

\* Only the worker's verdicts and a start make a request.
NewRequest(req) == Known' \subseteq Known \cup {req}

LEMMA KnownStart ==
  ASSUME TypeOK, StartMonitor
  PROVE  \/ Known' \subseteq Known
         \/ \E req \in Requests : NewRequest(req) /\ req.id > MaxRequests
<1>1. PICK r \in LatestReceipts(FirstSymbol) :
         IF Restorable(r)
         THEN Submit(RestoreRequest(r), WallAfter(now))
         ELSE UNCHANGED <<formal, pend, receipting, observed>>
  BY DEF StartMonitor
<1>2. lifecycleQ' = lifecycleQ /\ receipts' = receipts
  BY DEF StartMonitor, queues, disk
<1>3. CASE Restorable(r)
  <2>1. RestoreRequest(r) \in Requests /\ RestoreRequest(r).id = MaxRequests + restarts + 1
    BY <1>3, StoredReceiptType, RestoreIsRequest
  <2>2. RestoreRequest(r).id > MaxRequests
    BY <2>1, HandoverAssumption DEF TypeOK, MonitorTypeOK
  <2>3. NewRequest(RestoreRequest(r))
    BY <1>1, <1>2, <1>3, <2>1, SubmitKnown DEF NewRequest
  <2>4. QED
    BY <2>1, <2>2, <2>3
<1>4. CASE ~Restorable(r)
  BY <1>1, <1>2, <1>4 DEF Known, Waiting, Applied
<1>5. QED
  BY <1>3, <1>4

LEMMA KnownMinute == TypeOK /\ Minute => Known' \subseteq Known
<1> SUFFICES ASSUME TypeOK, Minute PROVE Known' \subseteq Known
  OBVIOUS
<1>1. PICK still \in {FALSE, open} :
          IF pend = Nothing \/ Waits(pend, CloseOf(now'), still)
          THEN UNCHANGED <<formal, pend, receipting, observed>>
          ELSE IF Rejected(pend)
          THEN pend' = Nothing /\ UNCHANGED <<formal, receipting, observed>>
          ELSE Apply(pend, CloseOf(now'))
  BY DEF Minute
<1>2. lifecycleQ' = lifecycleQ /\ receipts' = receipts
  BY DEF Minute, queues, disk
<1>3. CASE UNCHANGED <<formal, pend, receipting, observed>>
  BY <1>2, <1>3 DEF Known, Waiting, Applied
<1>4. CASE pend' = Nothing /\ UNCHANGED <<formal, receipting, observed>>
  BY <1>2, <1>4 DEF Known, Waiting, Applied
<1>5. CASE pend # Nothing /\ Apply(pend, CloseOf(now'))
  <2>1. pend \in Known
    BY <1>5, KnownPlaces
  <2>2. Known' \subseteq Known \cup {pend}
    BY <1>2, <1>5, ApplyKnown
  <2>3. QED
    BY <2>1, <2>2
<1>6. QED
  BY <1>1, <1>3, <1>4, <1>5

LEMMA KnownRequest == TypeOK /\ HandleRequest => Known' \subseteq Known
<1> SUFFICES ASSUME TypeOK, HandleRequest PROVE Known' \subseteq Known
  OBVIOUS
<1> DEFINE req == Head(lifecycleQ)
<1>1. lifecycleQ # <<>> /\ lifecycleQ' = Tail(lifecycleQ) /\ receipts' = receipts
  BY DEF HandleRequest, disk
<1>2. ToSet(lifecycleQ') \subseteq ToSet(lifecycleQ)
  BY <1>1, TailSet
<1>3. req \in Requests /\ req \in Known
  <2>1. req \in Requests /\ req = lifecycleQ[1] /\ 1 \in 1..Len(lifecycleQ)
    BY <1>1, TailPlaces DEF TypeOK, QueuesTypeOK
  <2>2. QED
    BY <2>1, KnownPlaces
<1>4. CASE Rejected(req)
  <2>1. UNCHANGED <<pend, receipting>>
    BY <1>4 DEF HandleRequest
  <2>2. QED
    BY <1>1, <1>2, <2>1 DEF Known, Waiting, Applied
<1>5. CASE ~Rejected(req)
  <2>1. Submit(req, req.at)
    BY <1>5 DEF HandleRequest
  <2> HIDE DEF req
  <2>2. QED
    BY <1>1, <1>2, <1>3, <2>1, SubmitKnown
<1>6. QED
  BY <1>4, <1>5

LEMMA KnownReceipt == TypeOK /\ (Receipt \/ SaveReceiptFails) => Known' \subseteq Known
<1> SUFFICES ASSUME TypeOK, Receipt \/ SaveReceiptFails PROVE Known' \subseteq Known
  OBVIOUS
<1>1. UNCHANGED <<lifecycleQ, pend>>
  BY DEF Receipt, SaveReceipt, TakeSeed, SendResult, SaveReceiptFails, queues, monitor
<1>2. CASE SaveReceipt
  <2>1. PICK job \in receipting :
          /\ job.stage = "save"
          /\ receipts' = Append(receipts, [req |-> job.req, at |-> job.at])
          /\ Becomes(job, {[job EXCEPT !.stage = "seed"]})
    BY <1>2 DEF SaveReceipt
  <2>2. job \in Jobs
    BY DEF TypeOK, MonitorTypeOK
  <2>3. [job EXCEPT !.stage = "seed"].req = job.req
    BY <2>2 DEF Jobs
  <2>4. {j.req : j \in receipting'} \subseteq {j.req : j \in receipting}
    BY <2>1, <2>3, BecomesKnown
  <2> DEFINE saved == [req |-> job.req, at |-> job.at]
  <2>5. saved \in SavedReceipts /\ saved.req = job.req
    BY <2>2 DEF SavedReceipts, Jobs
  <2>6. ToSet(receipts') \subseteq ToSet(receipts) \cup {saved}
    <3> HIDE DEF saved
    <3>1. QED
      BY <2>1, <2>5, AppendSet DEF saved, TypeOK, WorkerTypeOK
  <2>7. {r.req : r \in ToSet(receipts')} \subseteq {r.req : r \in ToSet(receipts)} \cup {job.req}
    <3> HIDE DEF saved
    <3>1. QED
      BY <2>5, <2>6
  <2>8. job.req \in {j.req : j \in receipting}
    OBVIOUS
  <2>9. QED
    BY <1>1, <2>4, <2>7, <2>8 DEF Known, Waiting, Applied
<1>3. CASE TakeSeed
  <2>1. PICK job \in receipting : Becomes(job, {[job EXCEPT !.stage = "put", !.seed = Seed]})
    BY <1>3 DEF TakeSeed
  <2>2. [job EXCEPT !.stage = "put", !.seed = Seed].req = job.req
    BY DEF TypeOK, MonitorTypeOK, Jobs
  <2>3. {j.req : j \in receipting'} \subseteq {j.req : j \in receipting}
    BY <2>1, <2>2, BecomesKnown
  <2>4. receipts' = receipts
    BY <1>3 DEF TakeSeed, disk
  <2>5. QED
    BY <1>1, <2>3, <2>4 DEF Known, Waiting, Applied
<1>4. CASE SendResult \/ SaveReceiptFails
  <2>1. \E job \in receipting : Becomes(job, {})
    BY <1>4 DEF SendResult, SaveReceiptFails, Unsaved
  <2>2. {j.req : j \in receipting'} \subseteq {j.req : j \in receipting}
    BY <2>1 DEF Becomes
  <2>3. receipts' = receipts
    BY <1>4 DEF SendResult, SaveReceiptFails, disk
  <2>4. QED
    BY <1>1, <2>2, <2>3 DEF Known, Waiting, Applied
<1>5. QED
  BY <1>2, <1>3, <1>4 DEF Receipt

\* The other steps leave requests where they are, or drop them.
LEMMA KnownElsewhere ==
  ASSUME TypeOK,
         StartWorker \/ Publish \/ SwitchSymbol \/ Stop \/ Work \/ WorkerDies \/ Evaluate
           \/ UNCHANGED vars
  PROVE  Known' \subseteq Known
<1>1. CASE Stop
  <2>1. lifecycleQ' = <<>> /\ pend' = Nothing /\ receipting' = {} /\ receipts' = receipts
    BY <1>1 DEF Stop, disk
  <2>2. ToSet(lifecycleQ') = {}
    BY <2>1 DEF ToSet
  <2>3. QED
    BY <2>1, <2>2 DEF Known, Waiting, Applied
<1>2. CASE SwitchSymbol
  BY <1>2 DEF SwitchSymbol, queues, disk, Known, Waiting, Applied
<1>3. CASE StartWorker \/ Publish \/ Work \/ WorkerDies \/ Evaluate \/ UNCHANGED vars
  <2>1. UNCHANGED <<lifecycleQ, pend, receipting, receipts>>
    BY <1>3 DEF StartWorker, Publish, Work, WorkerBegins, TakeResult, Drained, TakeBatch,
                WorkerDies, Evaluate, vars, monitor, queues, disk
  <2>2. QED
    BY <2>1 DEF Known, Waiting, Applied
<1>4. QED
  BY <1>1, <1>2, <1>3

LEMMA KnownAsks ==
  ASSUME TypeOK, NEW req \in Requests, lifecycleQ' = Append(lifecycleQ, req),
         UNCHANGED <<pend, receipting, receipts>>
  PROVE  NewRequest(req)
<1>1. ToSet(lifecycleQ') \subseteq ToSet(lifecycleQ) \cup {req}
  BY AppendSet DEF TypeOK, QueuesTypeOK
<1>2. QED
  BY <1>1 DEF NewRequest, Known, Waiting, Applied
-----------------------------------------------------------------------------
(* Numbers tell requests *)

\* The worker asks for a change in the step that a verdict takes.
WorkerAsks(req) ==
    /\ req \in Requests /\ req.id = asked + 1 /\ req.exp = worker.exp
    /\ req.kind # "RESTORE" /\ req.context = worker.seed.context
    /\ Running /\ worker.asks = Nothing /\ AtBatch /\ eventQ' = Tail(eventQ)
    /\ asked' = asked + 1 /\ asked' <= MaxRequests
    /\ lifecycleQ' = Append(lifecycleQ, req)
    /\ worker' \in Optimizers /\ worker'.exp = worker.exp /\ worker'.asks = req
    /\ worker'.seed = worker.seed /\ worker'.champion = worker.champion
    /\ UNCHANGED <<monitor, receipting, publishing, supContext, resultQ, disk, observed, restarts>>

LEMMA VerdictStep == TypeOK /\ (ActivatePending \/ Rollback) => \E req : WorkerAsks(req)
<1> SUFFICES ASSUME TypeOK, ActivatePending \/ Rollback PROVE \E req : WorkerAsks(req)
  OBVIOUS
<1>1. /\ AtBatch /\ worker.asks = Nothing
      /\ \E kind \in Kinds \ {"RESTORE"}, from \in Policies, to \in Policies,
            promotion \in {Nothing} \cup [from : Policies, to : Policies] :
               Asks(kind, from, to, promotion)
  BY VerdictAsks
<1>2. PICK kind \in Kinds \ {"RESTORE"}, from \in Policies, to \in Policies,
            promotion \in {Nothing} \cup [from : Policies, to : Policies] :
               Asks(kind, from, to, promotion)
  BY <1>1
<1>3. PICK req \in Requests :
            /\ req.id = asked + 1 /\ req.exp = worker.exp
            /\ req.kind = kind /\ req.context = worker.seed.context
            /\ asked' = asked + 1 /\ asked' \in 0..MaxRequests
            /\ lifecycleQ' = Append(lifecycleQ, req)
            /\ worker' \in Optimizers /\ worker'.exp = worker.exp /\ worker'.asks = req
            /\ worker'.seed = worker.seed /\ worker'.champion = worker.champion
  BY <1>1, <1>2, AsksFacts
<1>4. /\ eventQ' = Tail(eventQ)
      /\ UNCHANGED <<monitor, receipting, publishing, supContext, resultQ, disk, observed, restarts>>
  BY <1>2 DEF Asks
<1>5. Running
  BY <1>1 DEF AtBatch
<1>6. asked' <= MaxRequests
  BY <1>3, HandoverAssumption
<1>7. WorkerAsks(req)
  BY <1>1, <1>3, <1>4, <1>5, <1>6 DEF WorkerAsks
<1>8. QED
  BY <1>7

Otherwise ==
    \/ StartMonitor \/ StartWorker \/ Minute \/ Publish \/ HandleRequest \/ Receipt \/ Work
    \/ Evaluate \/ SwitchSymbol \/ Stop \/ SaveReceiptFails \/ WorkerDies \/ UNCHANGED vars

LEMMA StepKinds == TypeOK /\ [Next]_vars => (\E req : WorkerAsks(req)) \/ Otherwise
<1> SUFFICES ASSUME TypeOK, [Next]_vars PROVE (\E req : WorkerAsks(req)) \/ Otherwise
  OBVIOUS
<1>1. CASE ActivatePending \/ Rollback
  BY <1>1, VerdictStep
<1>2. CASE Monitor \/ HandleRequest \/ Receipt \/ Work \/ Evaluate \/ SwitchSymbol \/ Stop
             \/ SaveReceiptFails \/ WorkerDies \/ UNCHANGED vars
  BY <1>2 DEF Otherwise, Monitor
<1>3. QED
  BY <1>1, <1>2 DEF Next, Verdicts

\* In the other steps the worker asks for nothing it did not ask for before.
LEMMA OtherwiseAsks ==
  ASSUME TypeOK, Otherwise
  PROVE  /\ asked' = asked
         /\ Running' /\ worker'.asks # Nothing =>
               Running /\ worker'.asks = worker.asks /\ worker'.exp = worker.exp
<1>1. CASE StartMonitor \/ Minute \/ Publish \/ HandleRequest \/ Receipt \/ SwitchSymbol
             \/ SaveReceiptFails \/ UNCHANGED vars
  BY <1>1 DEF StartMonitor, Minute, Publish, HandleRequest, Receipt, SaveReceipt, TakeSeed,
              SendResult, SwitchSymbol, SaveReceiptFails, vars, Running
<1>2. CASE StartWorker \/ Stop \/ WorkerDies
  BY <1>2 DEF StartWorker, Stop, WorkerDies, Running, NoWorker
<1>3. CASE WorkerBegins
  <2>1. worker.seed \in Seeds /\ BuildOptimizer(worker.seed) /\ asked' = asked
    BY <1>3, StartingHasSeed DEF WorkerBegins
  <2>2. QED
    BY <2>1, BuildFacts
<1>4. CASE TakeResult
  <2> DEFINE result == Head(resultQ)
  <2>1. Running /\ worker \in Optimizers /\ asked' = asked
    BY <1>4, RunningIsOptimizer DEF TakeResult
  <2>2. result.applied => result.seed \in Seeds
    BY <1>4, ResultType DEF TakeResult
  <2>3. CASE Resolved(result)
    <3>1. \/ worker' = [worker EXCEPT !.champion = worker.asks.to, !.asks = Nothing]
          \/ worker' = [worker EXCEPT !.asks = Nothing]
      BY <1>4, <2>3 DEF TakeResult
    <3>2. worker'.asks = Nothing
      BY <2>1, <3>1 DEF Optimizers
    <3>3. QED
      BY <2>1, <3>2
  <2>4. CASE ~Resolved(result) /\ Unasked(result)
    <3>1. BuildOptimizer(result.seed) /\ result.seed \in Seeds
      BY <1>4, <2>2, <2>4 DEF TakeResult, Unasked
    <3>2. QED
      BY <2>1, <3>1, BuildFacts
  <2>5. CASE ~Resolved(result) /\ ~Unasked(result)
    <3>1. worker' = worker
      BY <1>4, <2>5 DEF TakeResult
    <3>2. QED
      BY <2>1, <3>1
  <2>6. QED
    BY <2>3, <2>4, <2>5
<1>5. CASE Drained \/ Evaluate
  <2>1. Running /\ worker \in Optimizers /\ asked' = asked
    BY <1>5, RunningIsOptimizer DEF Drained, Evaluate, AtBatch
  <2>2. worker'.asks = worker.asks /\ worker'.exp = worker.exp
    BY <1>5, <2>1 DEF Drained, Evaluate, Optimizers
  <2>3. QED
    BY <2>1, <2>2
<1>6. CASE TakeBatch
  <2> DEFINE batch == Head(eventQ)
  <2>1. Running /\ worker \in Optimizers /\ asked' = asked /\ batch \in Batches
    BY <1>6, RunningIsOptimizer, BatchType DEF TakeBatch
  <2>2. CASE batch.seed # Nothing
    <3>1. BuildOptimizer(batch.seed) /\ batch.seed \in Seeds
      BY <1>6, <2>1, <2>2 DEF TakeBatch, Batches
    <3>2. QED
      BY <2>1, <3>1, BuildFacts
  <2>3. CASE batch.seed = Nothing
    <3>1. worker'.asks = worker.asks /\ worker'.exp = worker.exp
      BY <1>6, <2>1, <2>3 DEF TakeBatch, Optimizers
    <3>2. QED
      BY <2>1, <3>1
  <2>4. QED
    BY <2>2, <2>3
<1>7. QED
  BY <1>1, <1>2, <1>3, <1>4, <1>5, <1>6 DEF Otherwise, Work

\* In the other steps a request that appears is the one of a start.
LEMMA OtherwiseKnown ==
  ASSUME TypeOK, Otherwise
  PROVE  \/ Known' \subseteq Known
         \/ \E req \in Requests : NewRequest(req) /\ req.id > MaxRequests
BY KnownStart, KnownMinute, KnownRequest, KnownReceipt, KnownElsewhere DEF Otherwise

LEMMA WorkerAsksKnown ==
  ASSUME TypeOK, NEW req, WorkerAsks(req)
  PROVE  NewRequest(req)
BY KnownAsks DEF WorkerAsks, monitor, disk

LEMMA AskedNat == TypeOK => asked \in Nat /\ MaxRequests \in Nat /\ asked <= MaxRequests
BY HandoverAssumption DEF TypeOK, WorkerTypeOK

LEMMA KnownAreRequests == TypeOK => Known \subseteq Requests
<1> SUFFICES ASSUME TypeOK PROVE Known \subseteq Requests
  OBVIOUS
<1>1. lifecycleQ \in Seq(Requests) /\ receipts \in Seq(SavedReceipts)
      /\ pend \in Requests \cup {Nothing} /\ receipting \subseteq Jobs
  BY DEF TypeOK, QueuesTypeOK, WorkerTypeOK, MonitorTypeOK
<1>2. ToSet(lifecycleQ) \subseteq Requests /\ ToSet(receipts) \subseteq SavedReceipts
  BY <1>1 DEF ToSet
<1>3. \A job \in Jobs : job.req \in Requests
  BY DEF Jobs
<1>4. \A r \in SavedReceipts : r.req \in Requests
  BY DEF SavedReceipts
<1>5. QED
  BY <1>1, <1>2, <1>3, <1>4 DEF Known, Waiting, Applied

LEMMA RequestIdNat == \A req \in Requests : req.id \in Nat
BY HandoverAssumption DEF Requests, RequestIds

LEMMA NumberedKept == IInv /\ [Next]_vars => Numbered'
<1> SUFFICES ASSUME IInv, [Next]_vars PROVE Numbered'
  OBVIOUS
<1>1. TypeOK /\ Numbered
  BY DEF IInv
<1>2. asked \in Nat /\ MaxRequests \in Nat /\ Known \subseteq Requests
  BY <1>1, AskedNat, KnownAreRequests
<1>3. ASSUME NEW req, WorkerAsks(req) PROVE Numbered'
  <2>1. Known' \subseteq Known \cup {req}
    BY <1>1, <1>3, WorkerAsksKnown DEF NewRequest
  <2>2. req.id = asked + 1 /\ asked' = asked + 1
    BY <1>3 DEF WorkerAsks
  <2>3. \A r \in Known : r.id \in Nat
    BY <1>2, RequestIdNat
  <2>4. QED
    BY <1>1, <1>2, <2>1, <2>2, <2>3 DEF Numbered
<1>4. CASE Otherwise
  <2>1. asked' = asked
    BY <1>1, <1>4, OtherwiseAsks
  <2>2. \/ Known' \subseteq Known
        \/ \E req \in Requests : NewRequest(req) /\ req.id > MaxRequests
    BY <1>1, <1>4, OtherwiseKnown
  <2>3. QED
    BY <1>1, <2>1, <2>2 DEF Numbered, NewRequest
<1>5. QED
  BY <1>1, <1>3, <1>4, StepKinds

LEMMA AskedIsKnownKept == IInv /\ [Next]_vars => AskedIsKnown'
<1> SUFFICES ASSUME IInv, [Next]_vars PROVE AskedIsKnown'
  OBVIOUS
<1>1. TypeOK /\ Numbered /\ AskedIsKnown
  BY DEF IInv
<1>2. asked \in Nat /\ MaxRequests \in Nat /\ asked <= MaxRequests /\ Known \subseteq Requests
  BY <1>1, AskedNat, KnownAreRequests
<1>3. ASSUME NEW req, WorkerAsks(req) PROVE AskedIsKnown'
  <2>1. Known' \subseteq Known \cup {req}
    BY <1>1, <1>3, WorkerAsksKnown DEF NewRequest
  <2>2. /\ req.id = asked + 1 /\ asked' = asked + 1 /\ asked' <= MaxRequests
        /\ worker'.asks = req /\ worker'.exp = req.exp
    BY <1>3 DEF WorkerAsks
  <2>3. \A r \in Known : r.id \in Nat /\ r.id # req.id
    BY <1>1, <1>2, <2>2, RequestIdNat DEF Numbered
  <2>4. QED
    BY <1>2, <2>1, <2>2, <2>3 DEF AskedIsKnown
<1>4. CASE Otherwise
  <2> SUFFICES ASSUME Running', worker'.asks # Nothing
               PROVE  /\ worker'.asks.id <= asked' /\ worker'.asks.exp = worker'.exp
                      /\ \A r \in Known' : r.id = worker'.asks.id => r = worker'.asks
    BY DEF AskedIsKnown
  <2>1. /\ asked' = asked /\ Running /\ worker'.asks = worker.asks /\ worker'.exp = worker.exp
        /\ worker.asks # Nothing
    BY <1>1, <1>4, OtherwiseAsks
  <2>2. /\ worker.asks.id <= asked /\ worker.asks.exp = worker.exp
        /\ \A r \in Known : r.id = worker.asks.id => r = worker.asks
    BY <1>1, <2>1 DEF AskedIsKnown
  <2>3. worker.asks \in Requests
    BY <1>1, <2>1, RunningIsOptimizer DEF Optimizers
  <2>4. worker.asks.id \in Nat
    BY <2>3, RequestIdNat
  <2>5. CASE Known' \subseteq Known
    BY <2>1, <2>2, <2>5
  <2>6. ASSUME NEW req \in Requests, NewRequest(req), req.id > MaxRequests
        PROVE  \A r \in Known' : r.id = worker.asks.id => r = worker.asks
    <3>1. req.id # worker.asks.id
      BY <1>2, <2>2, <2>4, <2>6, RequestIdNat
    <3>2. QED
      BY <2>2, <2>6, <3>1 DEF NewRequest
  <2>7. QED
    BY <1>1, <1>4, <2>1, <2>2, <2>5, <2>6, OtherwiseKnown
<1>5. QED
  BY <1>1, <1>3, <1>4, StepKinds
-----------------------------------------------------------------------------
(* Every request is in one place before it is applied *)

LEMMA DownIsEmptyKept == IInv /\ [Next]_vars => DownIsEmpty'
<1> SUFFICES ASSUME IInv, [Next]_vars PROVE DownIsEmpty'
  OBVIOUS
<1>1. TypeOK /\ DownIsEmpty
  BY DEF IInv
<1>2. ASSUME NEW req, WorkerAsks(req) PROVE DownIsEmpty'
  <2>1. life' = life /\ Running
    BY <1>2 DEF WorkerAsks, monitor
  <2>2. life = "up"
    BY <1>1, <2>1 DEF DownIsEmpty, Running
  <2>3. QED
    BY <2>1, <2>2 DEF DownIsEmpty
<1>3. CASE StartMonitor \/ StartWorker \/ Minute \/ HandleRequest \/ SwitchSymbol
  BY <1>1, <1>3 DEF DownIsEmpty, StartMonitor, StartWorker, Minute, HandleRequest, SwitchSymbol
<1>4. CASE Stop
  BY <1>4 DEF DownIsEmpty, Stop, NoWorker
<1>5. CASE Publish \/ UNCHANGED vars
  BY <1>1, <1>5 DEF DownIsEmpty, Publish, vars, monitor, queues
<1>6. CASE Receipt \/ SaveReceiptFails
  <2>1. UNCHANGED <<life, lifecycleQ, pend, worker>> /\ receipting # {}
    BY <1>6 DEF Receipt, SaveReceipt, TakeSeed, SendResult, SaveReceiptFails, monitor, queues
  <2>2. QED
    BY <1>1, <2>1 DEF DownIsEmpty
<1>7. CASE Work \/ Evaluate \/ WorkerDies
  <2>1. life' = life /\ worker.st # "none"
    BY <1>7 DEF Work, WorkerBegins, TakeResult, Drained, TakeBatch, Evaluate, AtBatch, WorkerDies,
                Running, monitor
  <2>2. life = "up"
    BY <1>1, <2>1 DEF DownIsEmpty
  <2>3. QED
    BY <2>1, <2>2 DEF DownIsEmpty
<1>8. QED
  BY <1>1, <1>2, <1>3, <1>4, <1>5, <1>6, <1>7, StepKinds DEF Otherwise

\* Submitting a request whose number nothing that stays has.
LEMMA SubmitOnce ==
  ASSUME TypeOK, AppliedOnce, NEW req \in Requests, NEW time, Submit(req, time),
         lifecycleQ' \in Seq(Requests),
         \A i \in 1..Len(lifecycleQ') : \E j \in 1..Len(lifecycleQ) : lifecycleQ'[i] = lifecycleQ[j],
         \A i \in 1..Len(lifecycleQ') : lifecycleQ'[i].id # req.id,
         \A job \in receipting : job.req.id # req.id
  PROVE  AppliedOnce'
<1>1. \A i \in 1..Len(lifecycleQ') : \A job \in receipting : job.req.id # lifecycleQ'[i].id
  BY DEF AppliedOnce
<1>2. CASE Waits(req, time, open)
  <2>1. pend' = req /\ receipting' = receipting
    BY <1>2 DEF Submit
  <2>2. QED
    BY <1>1, <2>1 DEF AppliedOnce
<1>3. CASE ~Waits(req, time, open)
  <2>1. /\ pend' = Nothing
        /\ receipting' = receipting \cup
              {[req |-> req, at |-> time, stage |-> "save", seed |-> Nothing]}
    BY <1>3 DEF Submit, Apply
  <2>2. \A job \in receipting' : job \in receipting \/ job.req = req
    BY <2>1
  <2>3. \A i \in 1..Len(lifecycleQ') : \A job \in receipting' : job.req.id # lifecycleQ'[i].id
    BY <1>1, <2>2
  <2>4. QED
    BY <2>1, <2>3 DEF AppliedOnce
<1>4. QED
  BY <1>2, <1>3

LEMMA AppliedOnceKept == IInv /\ [Next]_vars => AppliedOnce'
<1> SUFFICES ASSUME IInv, [Next]_vars PROVE AppliedOnce'
  OBVIOUS
<1>1. TypeOK /\ Numbered /\ QueueOrdered /\ AppliedOnce /\ DownIsEmpty /\ lifecycleQ \in Seq(Requests)
      /\ pend \in Requests \cup {Nothing}
  BY DEF IInv, TypeOK, QueuesTypeOK, MonitorTypeOK
<1>2. asked \in Nat /\ MaxRequests \in Nat /\ asked <= MaxRequests /\ Known \subseteq Requests
  BY <1>1, AskedNat, KnownAreRequests
<1>3. ASSUME NEW req, WorkerAsks(req) PROVE AppliedOnce'
  <2>1. UNCHANGED <<pend, receipting>> /\ lifecycleQ' = Append(lifecycleQ, req) /\ req \in Requests
    BY <1>3 DEF WorkerAsks, monitor
  <2>2. \A r \in Known : r.id # req.id
    BY <1>1, <1>2, <1>3, RequestIdNat DEF Numbered, WorkerAsks
  <2>3. (pend # Nothing => pend.id # req.id) /\ \A job \in receipting : job.req.id # req.id
    BY <1>1, <2>2, KnownPlaces
  <2>4. \A i \in 1..Len(lifecycleQ') :
            (i \in 1..Len(lifecycleQ) /\ lifecycleQ'[i] = lifecycleQ[i]) \/ lifecycleQ'[i] = req
    BY <1>1, <2>1, AppendPlaces
  <2>5. QED
    BY <1>1, <2>1, <2>3, <2>4 DEF AppliedOnce
<1>4. CASE StartMonitor
  <2>1. lifecycleQ = <<>> /\ pend = Nothing /\ receipting = {} /\ lifecycleQ' = lifecycleQ
    BY <1>1, <1>4 DEF DownIsEmpty, StartMonitor, queues
  <2>2. PICK r \in LatestReceipts(FirstSymbol) :
         IF Restorable(r)
         THEN Submit(RestoreRequest(r), WallAfter(now))
         ELSE UNCHANGED <<formal, pend, receipting, observed>>
    BY <1>4 DEF StartMonitor
  <2>3. CASE Restorable(r)
    <3>1. RestoreRequest(r) \in Requests
      BY <1>1, <2>3, StoredReceiptType, RestoreIsRequest
    <3>2. QED
      BY <1>1, <2>1, <2>2, <2>3, <3>1, SubmitOnce
  <2>4. CASE ~Restorable(r)
    BY <2>1, <2>2, <2>4 DEF AppliedOnce
  <2>5. QED
    BY <2>3, <2>4
<1>5. CASE Minute
  <2>1. PICK still \in {FALSE, open} :
          IF pend = Nothing \/ Waits(pend, CloseOf(now'), still)
          THEN UNCHANGED <<formal, pend, receipting, observed>>
          ELSE IF Rejected(pend)
          THEN pend' = Nothing /\ UNCHANGED <<formal, receipting, observed>>
          ELSE Apply(pend, CloseOf(now'))
    BY <1>5 DEF Minute
  <2>2. lifecycleQ' = lifecycleQ
    BY <1>5 DEF Minute, queues
  <2>3. CASE UNCHANGED <<formal, pend, receipting, observed>>
    BY <1>1, <2>2, <2>3 DEF AppliedOnce
  <2>4. CASE pend' = Nothing /\ UNCHANGED <<formal, receipting, observed>>
    BY <1>1, <2>2, <2>4 DEF AppliedOnce
  <2>5. CASE pend # Nothing /\ Apply(pend, CloseOf(now'))
    <3>1. /\ pend' = Nothing
          /\ receipting' = receipting \cup
                {[req |-> pend, at |-> CloseOf(now'), stage |-> "save", seed |-> Nothing]}
      BY <2>5 DEF Apply
    <3>2. \A job \in receipting' : job \in receipting \/ job.req = pend
      BY <3>1
    <3>3. QED
      BY <1>1, <2>2, <2>5, <3>1, <3>2 DEF AppliedOnce
  <2>6. QED
    BY <2>1, <2>3, <2>4, <2>5
<1>6. CASE HandleRequest
  <2> DEFINE req == Head(lifecycleQ)
  <2>1. lifecycleQ # <<>> /\ lifecycleQ' = Tail(lifecycleQ)
    BY <1>6 DEF HandleRequest
  <2>2. /\ req \in Requests /\ req = lifecycleQ[1] /\ Len(lifecycleQ) \in Nat \ {0}
        /\ lifecycleQ' \in Seq(Requests) /\ Len(lifecycleQ') = Len(lifecycleQ) - 1
        /\ \A i \in 1..Len(lifecycleQ') : i + 1 \in 1..Len(lifecycleQ) /\ lifecycleQ'[i] = lifecycleQ[i + 1]
    BY <1>1, <2>1, TailPlaces
  <2>3. \A i \in 1..Len(lifecycleQ') : \E j \in 1..Len(lifecycleQ) : lifecycleQ'[i] = lifecycleQ[j]
    BY <2>2
  <2>4. \A i \in 1..Len(lifecycleQ') : lifecycleQ'[i].id # req.id
    <3>1. ASSUME NEW i \in 1..Len(lifecycleQ') PROVE lifecycleQ'[i].id # req.id
      <4>1. i + 1 \in 1..Len(lifecycleQ) /\ 1 \in 1..Len(lifecycleQ) /\ 1 < i + 1
        BY <2>2
      <4>2. lifecycleQ[1].id < lifecycleQ[i + 1].id
        BY <1>1, <4>1 DEF QueueOrdered
      <4>3. lifecycleQ[1].id \in Nat
        BY <2>2, RequestIdNat
      <4>4. QED
        BY <2>2, <4>2, <4>3
    <3>2. QED
      BY <3>1
  <2>5. \A job \in receipting : job.req.id # req.id
    <3>1. 1 \in 1..Len(lifecycleQ)
      BY <2>2
    <3>2. QED
      BY <1>1, <2>2, <3>1 DEF AppliedOnce
  <2>6. CASE Rejected(req)
    <3>1. UNCHANGED <<pend, receipting>>
      BY <1>6, <2>6 DEF HandleRequest
    <3>2. QED
      BY <1>1, <2>3, <3>1 DEF AppliedOnce
  <2>7. CASE ~Rejected(req)
    <3>1. Submit(req, req.at)
      BY <1>6, <2>7 DEF HandleRequest
    <3> HIDE DEF req
    <3>2. QED
      BY <1>1, <2>2, <2>3, <2>4, <2>5, <3>1, SubmitOnce
  <2>8. QED
    BY <2>6, <2>7
<1>7. CASE Receipt \/ SaveReceiptFails
  <2>1. UNCHANGED <<lifecycleQ, pend>>
    BY <1>7 DEF Receipt, SaveReceipt, TakeSeed, SendResult, SaveReceiptFails, monitor, queues
  <2>2. \A job \in receipting' : \E old \in receipting : job.req = old.req
    <3>1. receipting \subseteq Jobs
      BY <1>1 DEF TypeOK, MonitorTypeOK
    <3>2. PICK old \in receipting :
             \/ Becomes(old, {}) \/ Becomes(old, {[old EXCEPT !.stage = "seed"]})
             \/ Becomes(old, {[old EXCEPT !.stage = "put", !.seed = Seed]})
      BY <1>7 DEF Receipt, SaveReceipt, TakeSeed, SendResult, SaveReceiptFails, Unsaved
    <3>3. /\ [old EXCEPT !.stage = "seed"].req = old.req
          /\ [old EXCEPT !.stage = "put", !.seed = Seed].req = old.req
      BY <3>1 DEF Jobs
    <3>4. QED
      BY <3>2, <3>3 DEF Becomes
  <2>3. QED
    BY <1>1, <2>1, <2>2 DEF AppliedOnce
<1>8. CASE Stop
  BY <1>8 DEF AppliedOnce, Stop
<1>9. CASE SwitchSymbol
  BY <1>1, <1>9 DEF AppliedOnce, SwitchSymbol, queues
<1>10. CASE StartWorker \/ Publish \/ Work \/ WorkerDies \/ Evaluate \/ UNCHANGED vars
  <2>1. UNCHANGED <<lifecycleQ, pend, receipting>>
    BY <1>10 DEF StartWorker, Publish, Work, WorkerBegins, TakeResult, Drained, TakeBatch,
                WorkerDies, Evaluate, vars, monitor, queues
  <2>2. QED
    BY <1>1, <2>1 DEF AppliedOnce
<1>11. QED
  BY <1>1, <1>3, <1>4, <1>5, <1>6, <1>7, <1>8, <1>9, <1>10, StepKinds DEF Otherwise

LEMMA QueueOrderedKept == IInv /\ [Next]_vars => QueueOrdered'
<1> SUFFICES ASSUME IInv, [Next]_vars PROVE QueueOrdered'
  OBVIOUS
<1>1. TypeOK /\ QueueOrdered /\ lifecycleQ \in Seq(Requests) /\ Len(lifecycleQ) \in Nat
  BY DEF IInv, TypeOK, QueuesTypeOK
<1>2. asked \in Nat /\ \A i \in 1..Len(lifecycleQ) : lifecycleQ[i].id \in Nat
  BY <1>1, AskedNat, RequestIdNat
<1>3. ASSUME NEW req, WorkerAsks(req) PROVE QueueOrdered'
  <2>1. lifecycleQ' = Append(lifecycleQ, req) /\ req \in Requests /\ req.id = asked + 1
        /\ asked' = asked + 1
    BY <1>3 DEF WorkerAsks
  <2>2. /\ Len(lifecycleQ') = Len(lifecycleQ) + 1
        /\ \A i \in 1..Len(lifecycleQ) : lifecycleQ'[i] = lifecycleQ[i]
        /\ lifecycleQ'[Len(lifecycleQ) + 1] = req
    BY <1>1, <2>1, AppendPlaces
  <2>3. \A i \in 1..Len(lifecycleQ') : lifecycleQ'[i].id <= asked'
    BY <1>1, <1>2, <2>1, <2>2 DEF QueueOrdered
  <2>4. ASSUME NEW i \in 1..Len(lifecycleQ'), NEW j \in 1..Len(lifecycleQ'), i < j
        PROVE  lifecycleQ'[i].id < lifecycleQ'[j].id
    <3>1. i \in 1..Len(lifecycleQ)
      BY <1>1, <2>2, <2>4
    <3>2. CASE j \in 1..Len(lifecycleQ)
      BY <1>1, <2>2, <2>4, <3>1, <3>2 DEF QueueOrdered
    <3>3. CASE j = Len(lifecycleQ) + 1
      BY <1>1, <1>2, <2>1, <2>2, <3>1, <3>3 DEF QueueOrdered
    <3>4. QED
      BY <1>1, <2>2, <3>2, <3>3
  <2>5. QED
    BY <2>3, <2>4 DEF QueueOrdered
<1>4. CASE Otherwise
  <2>1. asked' = asked
    BY <1>1, <1>4, OtherwiseAsks
  <2>2. CASE lifecycleQ' = lifecycleQ \/ lifecycleQ' = <<>>
    BY <1>1, <2>1, <2>2 DEF QueueOrdered
  <2>3. CASE lifecycleQ # <<>> /\ lifecycleQ' = Tail(lifecycleQ)
    <3>1. \A i \in 1..Len(lifecycleQ') : i + 1 \in 1..Len(lifecycleQ) /\ lifecycleQ'[i] = lifecycleQ[i + 1]
      BY <1>1, <2>3, TailPlaces
    <3>2. \A i, j \in 1..Len(lifecycleQ') : i < j => i + 1 < j + 1
      OBVIOUS
    <3>3. QED
      BY <1>1, <2>1, <3>1, <3>2 DEF QueueOrdered
  <2>4. \/ lifecycleQ' = lifecycleQ \/ lifecycleQ' = <<>>
        \/ lifecycleQ # <<>> /\ lifecycleQ' = Tail(lifecycleQ)
    BY <1>4 DEF Otherwise, StartMonitor, StartWorker, Minute, Publish, HandleRequest, Receipt,
                SaveReceipt, TakeSeed, SendResult, Work, WorkerBegins, TakeResult, Drained, TakeBatch,
                Evaluate, SwitchSymbol, Stop, SaveReceiptFails, WorkerDies, vars, queues
  <2>5. QED
    BY <2>2, <2>3, <2>4
<1>5. QED
  BY <1>1, <1>3, <1>4, StepKinds
-----------------------------------------------------------------------------
(* No answer without its receipt, no change of champion without its answer *)

\* Receipts are never removed: they keep their places.
ReceiptsStand ==
    /\ Len(receipts) <= Len(receipts')
    /\ \A i \in 1..Len(receipts) : receipts'[i] = receipts[i]

LEMMA ReceiptsStandStep == TypeOK /\ [Next]_vars => ReceiptsStand
<1> SUFFICES ASSUME TypeOK, [Next]_vars PROVE ReceiptsStand
  OBVIOUS
<1>1. receipts \in Seq(SavedReceipts) /\ Len(receipts) \in Nat
  BY DEF TypeOK, WorkerTypeOK
<1>2. CASE receipts' = receipts
  BY <1>1, <1>2 DEF ReceiptsStand
<1>3. CASE SaveReceipt
  <2>1. PICK job \in receipting : receipts' = Append(receipts, [req |-> job.req, at |-> job.at])
    BY <1>3 DEF SaveReceipt
  <2>2. [req |-> job.req, at |-> job.at] \in SavedReceipts
    BY DEF TypeOK, MonitorTypeOK, Jobs, SavedReceipts
  <2> DEFINE saved == [req |-> job.req, at |-> job.at]
  <2> HIDE DEF saved
  <2>3. receipts' = Append(receipts, saved) /\ saved \in SavedReceipts
    BY <2>1, <2>2 DEF saved
  <2>4. QED
    BY <1>1, <2>3, AppendPlaces DEF ReceiptsStand
<1>4. receipts' = receipts \/ SaveReceipt
  <2>1. ASSUME NEW req, WorkerAsks(req) PROVE receipts' = receipts
    BY <2>1 DEF WorkerAsks, disk
  <2>2. CASE Otherwise
    BY <2>2 DEF Otherwise, StartMonitor, StartWorker, Minute, Publish, HandleRequest, Receipt,
                TakeSeed, SendResult, Work, WorkerBegins, TakeResult, Drained, TakeBatch,
                Evaluate, SwitchSymbol, Stop, SaveReceiptFails, WorkerDies, vars, disk
  <2>3. QED
    BY <2>1, <2>2, StepKinds
<1>5. QED
  BY <1>2, <1>3, <1>4

WillHaveReceipt(id) == \E i \in 1..Len(receipts') : receipts'[i].req.id = id

LEMMA ReceiptStays ==
  ASSUME TypeOK, TypeOK', ReceiptsStand, NEW id, HasReceipt(id)
  PROVE  WillHaveReceipt(id)
<1>1. Len(receipts) \in Nat /\ Len(receipts') \in Nat
  BY DEF TypeOK, WorkerTypeOK
<1>2. PICK i \in 1..Len(receipts) : receipts[i].req.id = id
  BY DEF HasReceipt
<1>3. i \in 1..Len(receipts') /\ receipts'[i].req.id = id
  BY <1>1, <1>2 DEF ReceiptsStand
<1>4. QED
  BY <1>3 DEF WillHaveReceipt

LEMMA JobsKept ==
  IInv /\ [Next]_vars => \A job \in receipting' : job.stage # "save" => WillHaveReceipt(job.req.id)
<1> SUFFICES ASSUME IInv, [Next]_vars, NEW job \in receipting', job.stage # "save"
             PROVE  WillHaveReceipt(job.req.id)
  OBVIOUS
<1>1. TypeOK /\ TypeOK' /\ ReceiptsStand /\ receipting \subseteq Jobs
      /\ \A j \in receipting : j.stage # "save" => HasReceipt(j.req.id)
  BY NextTypeOK, ReceiptsStandStep DEF IInv, AnsweredIsSaved, TypeOK, MonitorTypeOK
<1>2. CASE job \in receipting
  BY <1>1, <1>2, ReceiptStays
<1>3. CASE job \notin receipting /\ SaveReceipt
  <2>1. PICK old \in receipting :
          /\ receipts' = Append(receipts, [req |-> old.req, at |-> old.at])
          /\ Becomes(old, {[old EXCEPT !.stage = "seed"]})
    BY <1>3 DEF SaveReceipt
  <2>2. job = [old EXCEPT !.stage = "seed"]
    BY <1>3, <2>1 DEF Becomes
  <2>3. old \in Jobs /\ job.req = old.req
    BY <1>1, <2>2 DEF Jobs
  <2> DEFINE saved == [req |-> old.req, at |-> old.at]
  <2>4. saved \in SavedReceipts /\ saved.req = job.req
    BY <2>3 DEF Jobs, SavedReceipts
  <2>5. receipts \in Seq(SavedReceipts) /\ receipts' = Append(receipts, saved)
    BY <1>1, <2>1 DEF TypeOK, WorkerTypeOK
  <2> HIDE DEF saved
  <2>6. Len(receipts) \in Nat /\ Len(receipts') = Len(receipts) + 1
        /\ receipts'[Len(receipts) + 1] = saved
    BY <2>4, <2>5, AppendPlaces
  <2>7. Len(receipts) + 1 \in 1..Len(receipts') /\ receipts'[Len(receipts) + 1].req.id = job.req.id
    BY <2>4, <2>6
  <2>8. QED
    BY <2>7 DEF WillHaveReceipt
<1>4. CASE job \notin receipting /\ TakeSeed
  <2>1. PICK old \in receipting :
          /\ old.stage = "seed"
          /\ Becomes(old, {[old EXCEPT !.stage = "put", !.seed = Seed]})
    BY <1>4 DEF TakeSeed
  <2>2. job = [old EXCEPT !.stage = "put", !.seed = Seed]
    BY <1>4, <2>1 DEF Becomes
  <2>3. job.req = old.req
    BY <1>1, <2>2 DEF Jobs
  <2>4. HasReceipt(old.req.id)
    BY <1>1, <2>1
  <2>5. QED
    BY <1>1, <2>3, <2>4, ReceiptStays
<1>5. CASE job \notin receipting /\ ~SaveReceipt /\ ~TakeSeed
  <2>1. \A req, time : Apply(req, time) => job.stage = "save"
    <3>1. ASSUME NEW req, NEW time, Apply(req, time) PROVE job.stage = "save"
      <4>1. job = [req |-> req, at |-> time, stage |-> "save", seed |-> Nothing]
        BY <1>5, <3>1 DEF Apply
      <4>2. QED
        BY <4>1
    <3>2. QED
      BY <3>1
  <2>2. \A req, time : Submit(req, time) => receipting' = receipting \/ Apply(req, time)
    BY DEF Submit
  <2>3. \A req : ~WorkerAsks(req)
    BY <1>5 DEF WorkerAsks
  <2>4. CASE StartMonitor \/ Minute \/ HandleRequest
    <3>1. receipting' = receipting \/ \E req, time : Apply(req, time)
      BY <2>2, <2>4 DEF StartMonitor, Minute, HandleRequest
    <3>2. QED
      BY <1>1, <1>5, <2>1, <3>1
  <2>5. CASE StartWorker \/ Publish \/ Work \/ WorkerDies \/ Evaluate \/ SwitchSymbol \/ UNCHANGED vars
    BY <1>5, <2>5 DEF StartWorker, Publish, Work, WorkerBegins, TakeResult, Drained, TakeBatch,
                WorkerDies, Evaluate, SwitchSymbol, vars
  <2>6. CASE Stop
    BY <2>6 DEF Stop
  <2>7. CASE SendResult \/ SaveReceiptFails
    BY <1>5, <2>7 DEF SendResult, SaveReceiptFails, Unsaved, Becomes
  <2>8. QED
    BY <1>1, <1>5, <2>3, <2>4, <2>5, <2>6, <2>7, StepKinds DEF Otherwise, Receipt
<1>6. QED
  BY <1>2, <1>3, <1>4, <1>5

LEMMA AnswersKept ==
  IInv /\ [Next]_vars =>
     \A i \in 1..Len(resultQ') : resultQ'[i].applied => WillHaveReceipt(resultQ'[i].id)
<1> SUFFICES ASSUME IInv, [Next]_vars, NEW i \in 1..Len(resultQ'), resultQ'[i].applied
             PROVE  WillHaveReceipt(resultQ'[i].id)
  OBVIOUS
<1>1. /\ TypeOK /\ TypeOK' /\ ReceiptsStand /\ resultQ \in Seq(Results) /\ receipting \subseteq Jobs
      /\ \A j \in 1..Len(resultQ) : resultQ[j].applied => HasReceipt(resultQ[j].id)
      /\ \A j \in receipting : j.stage # "save" => HasReceipt(j.req.id)
  BY NextTypeOK, ReceiptsStandStep DEF IInv, AnsweredIsSaved, TypeOK, QueuesTypeOK, MonitorTypeOK
<1>2. CASE \E j \in 1..Len(resultQ) : resultQ'[i] = resultQ[j]
  BY <1>1, <1>2, ReceiptStays
<1>3. CASE SendResult
  <2>1. PICK job \in receipting :
          /\ job.stage = "put"
          /\ resultQ' = IF life = "up"
                        THEN Append(resultQ, [id |-> job.req.id, applied |-> TRUE, seed |-> job.seed])
                        ELSE resultQ
    BY <1>3 DEF SendResult
  <2>2. job \in Jobs /\ HasReceipt(job.req.id)
    BY <1>1, <2>1
  <2> DEFINE result == [id |-> job.req.id, applied |-> TRUE, seed |-> job.seed]
  <2>3. result \in Results /\ result.id = job.req.id
    BY <2>2 DEF Results, Jobs, Requests
  <2>4. resultQ' = Append(resultQ, result) \/ resultQ' = resultQ
    BY <2>1
  <2> HIDE DEF result
  <2>5. resultQ'[i] = result \/ \E j \in 1..Len(resultQ) : resultQ'[i] = resultQ[j]
    BY <1>1, <2>3, <2>4, AppendPlaces
  <2>6. WillHaveReceipt(job.req.id)
    BY <1>1, <2>2, ReceiptStays
  <2>7. QED
    BY <1>2, <2>3, <2>5, <2>6
<1>4. CASE HandleRequest
  <2> DEFINE result == [id |-> Head(lifecycleQ).id, applied |-> FALSE, seed |-> Nothing]
  <2>1. result \in Results /\ ~result.applied
    BY <1>1, <1>4, RequestType DEF HandleRequest, Results, Requests
  <2>2. resultQ' = Append(resultQ, result) \/ resultQ' = resultQ
    BY <1>4 DEF HandleRequest
  <2> HIDE DEF result
  <2>3. resultQ'[i] = result \/ \E j \in 1..Len(resultQ) : resultQ'[i] = resultQ[j]
    BY <1>1, <2>1, <2>2, AppendPlaces
  <2>4. QED
    BY <1>2, <2>1, <2>3
<1>5. CASE TakeResult
  <2>1. resultQ # <<>> /\ resultQ' = Tail(resultQ)
    BY <1>5 DEF TakeResult
  <2>2. i + 1 \in 1..Len(resultQ) /\ resultQ'[i] = resultQ[i + 1]
    BY <1>1, <2>1, TailPlaces
  <2>3. QED
    BY <1>2, <2>2
<1>6. CASE Stop
  BY <1>6 DEF Stop
<1>7. CASE ~SendResult /\ ~HandleRequest /\ ~TakeResult /\ ~Stop
  <2>1. ASSUME NEW req, WorkerAsks(req) PROVE resultQ' = resultQ
    BY <2>1 DEF WorkerAsks
  <2>2. Otherwise => resultQ' = resultQ \/ SendResult \/ HandleRequest \/ TakeResult \/ Stop
    BY DEF Otherwise, StartMonitor, StartWorker, Minute, Publish, Receipt, SaveReceipt,
                TakeSeed, Work, WorkerBegins, Drained, TakeBatch,
                Evaluate, SwitchSymbol, SaveReceiptFails, WorkerDies, vars, queues
  <2>3. resultQ' = resultQ
    BY <1>1, <1>7, <2>1, <2>2, StepKinds
  <2>4. QED
    BY <1>2, <2>3
<1>8. QED
  BY <1>3, <1>4, <1>5, <1>6, <1>7

LEMMA AnsweredIsSavedKept == IInv /\ [Next]_vars => AnsweredIsSaved'
BY JobsKept, AnswersKept DEF AnsweredIsSaved, HasReceipt, WillHaveReceipt

\* Histories grow only where the worker takes an applied answer to what it
\* asked for.
LEMMA HistoriesGrow ==
  ASSUME TypeOK, [Next]_vars, NEW e \in 1..Len(experiments'),
         NEW i \in 1..Len(experiments'[e].history)
  PROVE  \/ /\ e \in ExperimentIds /\ i \in 1..Len(experiments[e].history)
            /\ experiments'[e].history[i] = experiments[e].history[i]
         \/ /\ Running /\ worker.asks # Nothing /\ e = worker.exp
            /\ resultQ # <<>> /\ Head(resultQ).applied /\ Head(resultQ).id = worker.asks.id
            /\ experiments'[e].history[i].id = worker.asks.id
            /\ experiments'[e].history[i].to = worker.asks.to
<1>1. experiments \in Seq(Experiments) /\ Len(experiments) \in Nat
  BY DEF TypeOK, WorkerTypeOK
<1>2. CASE experiments' = experiments
  BY <1>1, <1>2 DEF ExperimentIds
<1>3. CASE \E seed \in Seeds : BuildOptimizer(seed)
  <2>1. \/ experiments' = experiments
        \/ /\ Len(experiments') = Len(experiments) + 1
           /\ \A g \in ExperimentIds : experiments'[g] = experiments[g]
           /\ experiments'[Len(experiments) + 1].history = <<>>
    BY <1>3, BuildFacts
  <2>2. CASE e = Len(experiments) + 1 /\ experiments'[e].history = <<>>
    BY <2>2
  <2>3. CASE e \in ExperimentIds /\ experiments'[e] = experiments[e]
    BY <2>3
  <2>4. QED
    BY <1>1, <1>2, <2>1, <2>2, <2>3 DEF ExperimentIds
<1>4. CASE TakeResult /\ Resolved(Head(resultQ)) /\ Head(resultQ).applied
  <2>1. /\ Running /\ resultQ # <<>> /\ worker.asks # Nothing
        /\ Head(resultQ).id = worker.asks.id /\ RecordChampion(worker.asks)
    BY <1>4 DEF TakeResult, Resolved
  <2> DEFINE change == [id |-> worker.asks.id, kind |-> worker.asks.kind,
                        from |-> worker.asks.expected, to |-> worker.asks.to]
  <2>2. /\ Len(experiments') = Len(experiments)
        /\ \A g \in ExperimentIds \ {worker.exp} : experiments'[g] = experiments[g]
        /\ experiments'[worker.exp].history = Append(History, change)
        /\ change \in Changes
    BY <2>1, RecordFacts
  <2>3. CASE e # worker.exp
    BY <1>1, <2>2, <2>3 DEF ExperimentIds
  <2>4. CASE e = worker.exp
    <3>1. e \in ExperimentIds /\ History \in Seq(Changes) /\ History = experiments[e].history
      BY <2>1, <2>4, ExperimentOf DEF History
    <3>2. change.id = worker.asks.id /\ change.to = worker.asks.to
      OBVIOUS
    <3> HIDE DEF change
    <3>3. (i \in 1..Len(History) /\ experiments'[e].history[i] = History[i])
            \/ experiments'[e].history[i] = change
      BY <2>2, <2>4, <3>1, AppendPlaces
    <3>4. QED
      BY <1>4, <2>1, <2>4, <3>1, <3>2, <3>3
  <2>5. QED
    BY <2>3, <2>4
<1>5. CASE TakeResult /\ ~(Resolved(Head(resultQ)) /\ Head(resultQ).applied)
  <2>1. Head(resultQ).applied => Head(resultQ).seed \in Seeds
    BY <1>5, ResultType DEF TakeResult
  <2>2. experiments' = experiments \/ (Unasked(Head(resultQ)) /\ BuildOptimizer(Head(resultQ).seed))
    BY <1>5 DEF TakeResult
  <2>3. QED
    BY <1>2, <1>3, <2>1, <2>2 DEF Unasked
<1>6. CASE WorkerBegins
  BY <1>3, <1>6, StartingHasSeed DEF WorkerBegins
<1>7. CASE TakeBatch
  <2>1. Head(eventQ) \in Batches
    BY <1>7, BatchType DEF TakeBatch
  <2>2. CASE Head(eventQ).seed # Nothing
    <3>1. BuildOptimizer(Head(eventQ).seed) /\ Head(eventQ).seed \in Seeds
      BY <1>7, <2>1, <2>2 DEF TakeBatch, Batches
    <3>2. QED
      BY <1>3, <3>1
  <2>3. CASE Head(eventQ).seed = Nothing
    BY <1>2, <1>7, <2>3 DEF TakeBatch
  <2>4. QED
    BY <2>2, <2>3
<1>8. CASE ~TakeResult /\ ~WorkerBegins /\ ~TakeBatch
  <2>1. ASSUME NEW req, WorkerAsks(req) PROVE experiments' = experiments
    BY <2>1 DEF WorkerAsks, disk
  <2>2. Otherwise => experiments' = experiments \/ TakeResult \/ WorkerBegins \/ TakeBatch
    BY DEF Otherwise, StartMonitor, StartWorker, Minute, Publish, HandleRequest, Receipt,
                SaveReceipt, TakeSeed, SendResult, Work, Drained,
                Evaluate, SwitchSymbol, Stop, SaveReceiptFails, WorkerDies, vars, disk
  <2>3. QED
    BY <1>2, <1>8, <2>1, <2>2, StepKinds
<1>9. QED
  BY <1>4, <1>5, <1>6, <1>7, <1>8

LEMMA RecordedKept == IInv /\ [Next]_vars => Recorded'
<1> SUFFICES ASSUME IInv, [Next]_vars, NEW e \in 1..Len(experiments'),
                    NEW i \in 1..Len(experiments'[e].history)
             PROVE  \E k \in 1..Len(receipts') :
                       /\ receipts'[k].req.id = experiments'[e].history[i].id
                       /\ receipts'[k].req.exp = e
                       /\ receipts'[k].req.to = experiments'[e].history[i].to
  BY DEF Recorded, ExperimentIds
<1>1. TypeOK /\ TypeOK' /\ ReceiptsStand /\ AskedIsKnown /\ AnsweredIsSaved /\ Recorded
  BY NextTypeOK, ReceiptsStandStep DEF IInv
<1>2. Len(receipts) \in Nat /\ Len(receipts') \in Nat
  BY <1>1 DEF TypeOK, WorkerTypeOK
<1>3. \A k \in 1..Len(receipts) : k \in 1..Len(receipts') /\ receipts'[k] = receipts[k]
  BY <1>1, <1>2 DEF ReceiptsStand
<1>4. CASE /\ e \in ExperimentIds /\ i \in 1..Len(experiments[e].history)
           /\ experiments'[e].history[i] = experiments[e].history[i]
  <2>1. PICK k \in 1..Len(receipts) :
          /\ receipts[k].req.id = experiments[e].history[i].id /\ receipts[k].req.exp = e
          /\ receipts[k].req.to = experiments[e].history[i].to
    BY <1>1, <1>4 DEF Recorded
  <2>2. QED
    BY <1>3, <1>4, <2>1
<1>5. CASE /\ Running /\ worker.asks # Nothing /\ e = worker.exp
           /\ resultQ # <<>> /\ Head(resultQ).applied /\ Head(resultQ).id = worker.asks.id
           /\ experiments'[e].history[i].id = worker.asks.id
           /\ experiments'[e].history[i].to = worker.asks.to
  <2>1. Head(resultQ) = resultQ[1] /\ 1 \in 1..Len(resultQ)
    BY <1>1, <1>5, TailPlaces DEF TypeOK, QueuesTypeOK
  <2>2. HasReceipt(worker.asks.id)
    BY <1>1, <1>5, <2>1 DEF AnsweredIsSaved
  <2>3. PICK k \in 1..Len(receipts) : receipts[k].req.id = worker.asks.id
    BY <2>2 DEF HasReceipt
  <2>4. receipts[k].req \in Known
    BY <1>1, KnownPlaces
  <2>5. receipts[k].req = worker.asks /\ worker.asks.exp = worker.exp
    BY <1>1, <1>5, <2>3, <2>4 DEF AskedIsKnown
  <2>6. QED
    BY <1>3, <1>5, <2>5
<1>6. QED
  BY <1>1, <1>4, <1>5, HistoriesGrow

-----------------------------------------------------------------------------
(* The theorems *)

LEMMA InitIInv == Init => IInv
<1> SUFFICES ASSUME Init PROVE IInv
  OBVIOUS
<1>1. TypeOK
  BY InitTypeOK
<1>2. Known = {}
  BY DEF Init, Known, Waiting, Applied, ToSet
<1>3. Numbered /\ AskedIsKnown
  BY <1>2 DEF Numbered, AskedIsKnown, Init, Running, NoWorker
<1>4. QueueOrdered /\ AppliedOnce /\ DownIsEmpty
  BY DEF QueueOrdered, AppliedOnce, DownIsEmpty, Init, NoWorker
<1>5. AnsweredIsSaved /\ Recorded
  BY DEF AnsweredIsSaved, Recorded, Init, ExperimentIds
<1>6. QED
  BY <1>1, <1>3, <1>4, <1>5 DEF IInv

LEMMA NextIInv == IInv /\ [Next]_vars => IInv'
<1> SUFFICES ASSUME IInv, [Next]_vars PROVE IInv'
  OBVIOUS
<1>1. TypeOK'
  BY NextTypeOK DEF IInv
<1>2. Numbered' /\ AskedIsKnown'
  BY NumberedKept, AskedIsKnownKept
<1>3. QueueOrdered' /\ AppliedOnce' /\ DownIsEmpty'
  BY QueueOrderedKept, AppliedOnceKept, DownIsEmptyKept
<1>4. AnsweredIsSaved' /\ Recorded'
  BY AnsweredIsSavedKept, RecordedKept
<1>5. QED
  BY <1>1, <1>2, <1>3, <1>4 DEF IInv

LEMMA RecordedSuffices == TypeOK /\ Recorded => ReceiptBeforeChampion
<1> SUFFICES ASSUME TypeOK, Recorded PROVE ReceiptBeforeChampion
  OBVIOUS
<1>1. \A k \in 1..Len(receipts) : receipts[k] \in ToSet(receipts)
  BY DEF TypeOK, WorkerTypeOK, ToSet
<1>2. QED
  BY <1>1 DEF Recorded, ReceiptBeforeChampion

\* Whatever fails between the monitor, the receipt thread and the worker, and
\* however often the process restarts, the worker's experiment records no
\* change of champion whose receipt is not on disk.
THEOREM ReceiptsComeFirst == Spec => []ReceiptBeforeChampion
<1>1. Init => IInv
  BY InitIInv
<1>2. IInv /\ [Next]_vars => IInv'
  BY NextIInv
<1>3. IInv => ReceiptBeforeChampion
  BY RecordedSuffices DEF IInv
<1>4. QED
  BY <1>1, <1>2, <1>3, PTL DEF Spec

\* Applying a request that fits the context and the policy in force.
LEMMA ApplyIsExpected ==
  ASSUME NEW req, NEW time, Apply(req, time), ~Rejected(req),
         \A job \in receipting : job.req.id # req.id
  PROVE  \E job \in receipting' \ receipting :
             /\ job.req.expected = formal /\ job.req.to = formal'
             /\ job.req.context = context
<1> DEFINE new == [req |-> req, at |-> time, stage |-> "save", seed |-> Nothing]
<1>1. new.req = req /\ new \in receipting' /\ formal' = req.to
  BY DEF Apply
<1>2. req.context = context /\ req.expected = formal
  BY DEF Rejected
<1> HIDE DEF new
<1>3. new \notin receipting
  BY <1>1
<1>4. QED
  BY <1>1, <1>2, <1>3

LEMMA SwapStep ==
  ASSUME IInv, [Next]_vars, life = "up", life' = "up", formal' # formal
  PROVE  \E job \in receipting' \ receipting :
             /\ job.req.expected = formal /\ job.req.to = formal'
             /\ job.req.context = context
<1>1. TypeOK /\ AppliedOnce
  BY DEF IInv
<1>2. CASE Minute
  <2>1. pend # Nothing /\ ~Rejected(pend) /\ Apply(pend, CloseOf(now'))
    BY <1>2 DEF Minute
  <2>2. \A job \in receipting : job.req.id # pend.id
    BY <1>1, <2>1 DEF AppliedOnce
  <2>3. QED
    BY <2>1, <2>2, ApplyIsExpected
<1>3. CASE HandleRequest
  <2> DEFINE req == Head(lifecycleQ)
  <2>1. lifecycleQ # <<>> /\ ~Rejected(req) /\ Submit(req, req.at)
    BY <1>3 DEF HandleRequest
  <2>2. Apply(req, req.at)
    BY <2>1 DEF Submit
  <2>3. req = lifecycleQ[1] /\ 1 \in 1..Len(lifecycleQ)
    BY <1>1, <2>1, TailPlaces DEF TypeOK, QueuesTypeOK
  <2>4. \A job \in receipting : job.req.id # req.id
    BY <1>1, <2>3 DEF AppliedOnce
  <2> HIDE DEF req
  <2>5. QED
    BY <2>1, <2>2, <2>4, ApplyIsExpected
<1>4. CASE ~Minute /\ ~HandleRequest
  <2>1. ASSUME NEW r, WorkerAsks(r) PROVE FALSE
    BY <2>1 DEF WorkerAsks, monitor
  <2>2. CASE Otherwise
    BY <1>4, <2>2 DEF Otherwise, StartMonitor, StartWorker, Publish, Receipt, SaveReceipt,
                TakeSeed, SendResult, Work, WorkerBegins, TakeResult, Drained, TakeBatch,
                Evaluate, SwitchSymbol, Stop, SaveReceiptFails, WorkerDies, vars, monitor
  <2>3. QED
    BY <1>1, <2>1, <2>2, StepKinds
<1>5. QED
  BY <1>2, <1>3, <1>4

\* While the process is up, the policy in force is replaced only by a request
\* that was made for this context by someone who took the replaced policy for
\* the champion, however many requests are queued, wait or are being receipted.
THEOREM SwapsAreExpected == Spec => SwapsExpected
<1>1. Init => IInv
  BY InitIInv
<1>2. IInv /\ [Next]_vars => IInv'
  BY NextIInv
<1>3. IInv /\ [Next]_vars =>
         [life = "up" /\ life' = "up" /\ formal' # formal =>
            \E job \in receipting' \ receipting :
               /\ job.req.expected = formal /\ job.req.to = formal'
               /\ job.req.context = context]_vars
  BY SwapStep
<1>4. QED
  BY <1>1, <1>2, <1>3, PTL DEF Spec, SwapsExpected
-----------------------------------------------------------------------------
(* The champion and the policy in force *)

Asking == IF Running /\ worker.asks # Nothing THEN {worker.asks} ELSE {}
OfWorker(req) == req.kind # "RESTORE"
SameSymbol(c, d) == c.sym = d.sym

\* A request is for an experiment of its symbol, and the worker's for one of
\* its context.
RequestsFit ==
    \A req \in Known \cup Asking :
       /\ req.exp \in ExperimentIds
       /\ SameSymbol(experiments[req.exp].context, req.context)
       /\ OfWorker(req) => experiments[req.exp].context = req.context

\* The worker has the newest experiment of its symbol, and what it holds of it
\* is what is on disk.
WorkerFits ==
    Running =>
       /\ experiments[worker.exp].context = worker.seed.context
       /\ experiments[worker.exp].base = worker.seed.base
       /\ experiments[worker.exp].champion = worker.champion
       /\ \A e \in ExperimentIds :
             SameSymbol(experiments[e].context, worker.seed.context) => e <= worker.exp

\* An experiment's champion is that of its last change.
ChampionIsLast ==
    \A e \in ExperimentIds :
       experiments[e].champion =
          IF experiments[e].history = <<>> THEN experiments[e].base
          ELSE experiments[e].history[Len(experiments[e].history)].to

\* Histories and receipts agree on what a number stands for, and in order.
Agree(history, log) ==
    \A i \in 1..Len(history) : \A k \in 1..Len(log) : log[k].req.id = history[i].id =>
       /\ log[k].req.to = history[i].to
       /\ \A j \in 1..Len(history) : \A l \in 1..Len(log) :
             i < j /\ log[l].req.id = history[j].id => k < l

HistoriesAgree == \A e \in ExperimentIds : Agree(experiments[e].history, receipts)

\* The receipt of the change asked for follows those in the history.
AskedIsLast ==
    Running /\ worker.asks # Nothing =>
       \A i \in 1..Len(History) : \A k, l \in 1..Len(receipts) :
          receipts[k].req.id = History[i].id /\ receipts[l].req.id = worker.asks.id => k < l

\* What waits or is about to be saved has no receipt yet.
UnsavedAreNew ==
    /\ \A req \in Waiting : ~HasReceipt(req.id)
    /\ \A job \in receipting : job.stage = "save" => ~HasReceipt(job.req.id)
    /\ \A job, other \in receipting : job.req.id = other.req.id => job = other

\* A start has a number of its own.
StartsNumbered ==
    /\ \A req \in Known : OfWorker(req) <=> req.id <= MaxRequests
    /\ \A req \in Known : req.id <= MaxRequests + restarts + 1
    /\ life = "down" => \A req \in Known : req.id <= MaxRequests + restarts

\* Requests are applied in the order in which they were made, and are made for
\* ever newer experiments.
RequestsOrdered ==
    /\ pend # Nothing /\ OfWorker(pend) => \A req \in ToSet(lifecycleQ) : pend.id < req.id
    /\ \A req \in Waiting : \A old \in Known :
          OfWorker(req) /\ SameSymbol(old.context, req.context)
             /\ (old \in Applied \/ ~OfWorker(old) \/ old.id < req.id) => old.exp <= req.exp

\* As long as receipt threads do not overlap, there is one.
OneThread == ~observed.overlapped => \A job, other \in receipting : job = other

\* The receipts of a symbol are for ever newer experiments.
ReceiptsOrdered ==
    ~observed.overlapped /\ Chronological =>
       /\ \A k, l \in 1..Len(receipts) :
             k < l /\ SameSymbol(receipts[k].req.context, receipts[l].req.context) =>
                receipts[k].req.exp <= receipts[l].req.exp
       /\ \A k \in 1..Len(receipts) :
             /\ \A job \in receipting :
                   SameSymbol(receipts[k].req.context, job.req.context) =>
                      receipts[k].req.exp <= job.req.exp
             /\ pend # Nothing /\ ~OfWorker(pend)
                   /\ SameSymbol(receipts[k].req.context, pend.context) =>
                      receipts[k].req.exp <= pend.exp
RestoreIsFirst == pend # Nothing /\ ~OfWorker(pend) => receipting = {}

\* The contexts of a life come one after the other.
Past(c, d) == c.gen <= d.gen /\ (c.gen = d.gen => c = d)

EventsPast ==
    /\ Past(supContext, context)
    /\ publishing # Nothing => Past(publishing.context, context)
    /\ \A i \in 1..Len(eventQ) :
          /\ Past(eventQ[i].context, supContext)
          /\ eventQ[i].seed # Nothing =>
                /\ eventQ[i].seed.context = eventQ[i].context /\ eventQ[i].context.gen > 0
                /\ \A j \in 1..Len(eventQ) : j < i => eventQ[j].context.gen < eventQ[i].context.gen

RequestsPast ==
    /\ \A req \in Waiting \cup Asking : Past(req.context, context)
    /\ \A job \in receipting : Past(job.req.context, context)

SeedsPast ==
    /\ \A job \in receipting : job.stage = "put" =>
          Past(job.req.context, job.seed.context) /\ Past(job.seed.context, context)
    /\ \A i \in 1..Len(resultQ) : resultQ[i].applied => Past(resultQ[i].seed.context, context)
    /\ worker.st \in {"starting", "run"} => Past(worker.seed.context, context)
    /\ worker.st = "starting" => worker.seed.context = Context(FirstSymbol, 0)

ContextsPast == EventsPast /\ RequestsPast /\ SeedsPast

NotUp ==
    /\ life # "up" => /\ context = Context(FirstSymbol, 0) /\ supContext = context
                      /\ eventQ = <<>> /\ lifecycleQ = <<>> /\ resultQ = <<>> /\ publishing = Nothing
    /\ life = "down" => formal = BasePolicy /\ pend = Nothing /\ receipting = {}

\* The first life restores nothing; its receipts come in the order of contexts.
FirstLife ==
    restarts = 0 =>
       /\ life # "up" => receipts = <<>> /\ receipting = {}
       /\ \A req \in Known : OfWorker(req)
       /\ \A k \in 1..Len(receipts) : Past(receipts[k].req.context, context)
       /\ ~observed.overlapped =>
             /\ \A k, l \in 1..Len(receipts) : k < l =>
                   receipts[k].req.context.gen <= receipts[l].req.context.gen
             /\ \A k \in 1..Len(receipts) : \A job \in receipting :
                   receipts[k].req.context.gen <= job.req.context.gen

\* Until the worker has the batch that brings it a context, nothing is asked
\* for in it.
Unreset == supContext # context
           \/ \E i \in 1..Len(eventQ) : eventQ[i].seed # Nothing /\ eventQ[i].context = context

UnresetIsUnasked == Unreset => \A req \in Known \cup Asking : req.context # context
ResetIsCurrent ==
    \A i \in 1..Len(eventQ) :
       eventQ[i].seed # Nothing /\ eventQ[i].context = context => eventQ[i].seed.base = formal

ContextIsFresh == restarts = 0 => UnresetIsUnasked /\ ResetIsCurrent

Sound == observed = NothingOdd /\ Chronological /\ OwnGeneration

\* The thread that saves a receipt, and the last answer, speak for the policy
\* in force.
LastReceipt == receipts[Len(receipts)].req

ThreadsSpeak ==
    Sound => \A job \in receipting :
       /\ job.req.to = formal
       /\ job.stage # "save" => receipts # <<>> /\ LastReceipt = job.req
       /\ job.stage = "put" => job.seed.base = formal

AnswersSpeak ==
    Sound /\ receipting = {} =>
       \A i \in 1..Len(resultQ) :
          resultQ[i].applied /\ (\A j \in 1..Len(resultQ) : i < j => ~resultQ[j].applied) =>
             /\ receipts # <<>> /\ LastReceipt.id = resultQ[i].id /\ LastReceipt.to = formal
             /\ resultQ[i].seed.base = formal
             /\ Past(LastReceipt.context, resultQ[i].seed.context)

Heard == receipting = {} /\ \A i \in 1..Len(resultQ) : ~resultQ[i].applied
WillChange == pend # Nothing /\ ~Rejected(pend)

LastOf(e, k) ==
    /\ k \in 1..Len(receipts) /\ receipts[k].req.exp = e
    /\ \A l \in 1..Len(receipts) : receipts[l].req.exp = e => l <= k
NoReceiptOf(e) == \A k \in 1..Len(receipts) : receipts[k].req.exp # e

Follows(e) ==
    \/ \E k \in 1..Len(receipts) : LastOf(e, k) /\ receipts[k].req.to = formal
    \/ experiments[e].base = formal /\ NoReceiptOf(e)

WorkerFollows ==
    Sound /\ Heard /\ Running /\ worker.seed.context = context =>
       WillChange \/ Follows(worker.exp)

LatestOfFirst(k) ==
    /\ k \in 1..Len(receipts) /\ receipts[k].req.context.sym = FirstSymbol
    /\ \A l \in 1..Len(receipts) : receipts[l].req.context.sym = FirstSymbol => l <= k

\* What is restored at a start is what the last receipt of the first symbol says.
StartFollows ==
    Sound /\ Heard /\ (life = "restored" \/ (worker.st = "starting" /\ worker.seed.context = context)) =>
       /\ worker.st = "starting" => worker.seed.base = formal
       /\ \/ WillChange
          \/ \A k \in 1..Len(receipts) :
                LatestOfFirst(k) /\ experiments[receipts[k].req.exp].base = formal =>
                   receipts[k].req.to = formal

AInv ==
    /\ RequestsFit /\ WorkerFits /\ ChampionIsLast /\ HistoriesAgree /\ AskedIsLast
    /\ UnsavedAreNew /\ StartsNumbered /\ RequestsOrdered /\ OneThread /\ RestoreIsFirst
    /\ ReceiptsOrdered /\ ContextsPast /\ NotUp /\ FirstLife /\ ContextIsFresh
    /\ ThreadsSpeak /\ AnswersSpeak /\ WorkerFollows /\ StartFollows

-----------------------------------------------------------------------------
(* What a step does to the worker and its experiments *)

\* An optimizer is built.
Builds(seed) ==
    /\ seed \in Seeds /\ BuildOptimizer(seed)
    /\ UNCHANGED <<monitor, receipting, publishing, supContext, lifecycleQ, receipts, asked,
                   observed, restarts>>

\* The worker records that what it asked for was applied.
Records ==
    /\ Running /\ worker.asks # Nothing /\ resultQ # <<>> /\ resultQ' = Tail(resultQ)
    /\ Head(resultQ).id = worker.asks.id /\ Head(resultQ).applied
    /\ RecordChampion(worker.asks)
    /\ worker' = [worker EXCEPT !.champion = worker.asks.to, !.asks = Nothing]
    /\ UNCHANGED <<monitor, receipting, publishing, supContext, eventQ, lifecycleQ, receipts,
                   asked, observed, restarts>>

\* The worker stays with its experiment, or is gone.
Keeps ==
    /\ experiments' = experiments
    /\ Running' =>
          /\ Running /\ worker'.exp = worker.exp /\ worker'.seed = worker.seed
          /\ worker'.champion = worker.champion /\ worker'.asks \in {worker.asks, Nothing}

LEMMA BuildersBuild ==
  ASSUME TypeOK
  PROVE  /\ WorkerBegins => Builds(worker.seed)
         /\ TakeResult => \/ Records \/ Keeps
                          \/ Head(resultQ).applied /\ Builds(Head(resultQ).seed)
         /\ TakeBatch => \/ Head(eventQ).seed # Nothing /\ Builds(Head(eventQ).seed)
                         \/ Head(eventQ).seed = Nothing /\ Keeps
<1>1. ASSUME WorkerBegins PROVE Builds(worker.seed)
  BY <1>1, StartingHasSeed DEF WorkerBegins, Builds, queues
<1>2. ASSUME TakeResult
      PROVE  Records \/ Keeps \/ (Head(resultQ).applied /\ Builds(Head(resultQ).seed))
  <2> DEFINE result == Head(resultQ)
  <2>1. /\ Running /\ worker \in Optimizers /\ resultQ # <<>> /\ resultQ' = Tail(resultQ)
        /\ UNCHANGED <<monitor, receipting, publishing, supContext, eventQ, lifecycleQ, receipts,
                       asked, observed, restarts>>
    BY <1>2, RunningIsOptimizer DEF TakeResult
  <2>2. result.applied => result.seed \in Seeds
    BY <2>1, ResultType
  <2>3. CASE Resolved(result) /\ result.applied
    <3>1. /\ RecordChampion(worker.asks)
          /\ worker' = [worker EXCEPT !.champion = worker.asks.to, !.asks = Nothing]
      BY <1>2, <2>3 DEF TakeResult
    <3>2. QED
      BY <2>1, <2>3, <3>1 DEF Records, Resolved
  <2>4. CASE Resolved(result) /\ ~result.applied
    <3>1. worker' = [worker EXCEPT !.asks = Nothing] /\ experiments' = experiments
      BY <1>2, <2>4 DEF TakeResult
    <3>2. QED
      BY <2>1, <3>1 DEF Keeps, Optimizers, Running
  <2>5. CASE ~Resolved(result) /\ Unasked(result)
    <3>1. BuildOptimizer(result.seed)
      BY <1>2, <2>5 DEF TakeResult
    <3>2. QED
      BY <2>1, <2>2, <2>5, <3>1 DEF Builds, Unasked
  <2>6. CASE ~Resolved(result) /\ ~Unasked(result)
    <3>1. worker' = worker /\ experiments' = experiments
      BY <1>2, <2>6 DEF TakeResult
    <3>2. QED
      BY <3>1 DEF Keeps, Running
  <2>7. QED
    BY <2>3, <2>4, <2>5, <2>6
<1>3. ASSUME TakeBatch
      PROVE  \/ Head(eventQ).seed # Nothing /\ Builds(Head(eventQ).seed)
             \/ Head(eventQ).seed = Nothing /\ Keeps
  <2> DEFINE batch == Head(eventQ)
  <2>1. /\ Running /\ worker \in Optimizers /\ batch \in Batches
        /\ UNCHANGED <<monitor, receipting, publishing, supContext, lifecycleQ, resultQ, receipts,
                       asked, observed, restarts>>
    BY <1>3, RunningIsOptimizer, BatchType DEF TakeBatch
  <2>2. CASE batch.seed # Nothing
    <3>1. BuildOptimizer(batch.seed) /\ batch.seed \in Seeds
      BY <1>3, <2>1, <2>2 DEF TakeBatch, Batches
    <3>2. QED
      BY <2>1, <2>2, <3>1 DEF Builds
  <2>3. CASE batch.seed = Nothing
    <3>1. /\ experiments' = experiments
          /\ worker' = [worker EXCEPT !.pc = "drain",
                           !.broken = @ \/ worker.seed.context # batch.context]
      BY <1>3, <2>3 DEF TakeBatch
    <3>2. QED
      BY <2>1, <2>3, <3>1 DEF Keeps, Optimizers, Running
  <2>4. QED
    BY <2>2, <2>3
<1>4. QED
  BY <1>1, <1>2, <1>3

LEMMA WorkerSteps ==
  TypeOK /\ [Next]_vars =>
     (\E req : WorkerAsks(req)) \/ (\E seed \in Seeds : Builds(seed)) \/ Records \/ (Otherwise /\ Keeps)
<1> SUFFICES ASSUME TypeOK, Otherwise
             PROVE  (\E seed \in Seeds : Builds(seed)) \/ Records \/ Keeps
  BY StepKinds
<1>1. CASE StartMonitor \/ Minute \/ Publish \/ HandleRequest \/ Receipt \/ SwitchSymbol
             \/ SaveReceiptFails \/ UNCHANGED vars
  BY <1>1 DEF StartMonitor, Minute, Publish, HandleRequest, Receipt, SaveReceipt, TakeSeed,
              SendResult, SwitchSymbol, SaveReceiptFails, vars, disk, Running, Keeps
<1>2. CASE StartWorker \/ Stop \/ WorkerDies
  BY <1>2 DEF StartWorker, Stop, WorkerDies, Running, NoWorker, disk, Keeps
<1>3. CASE Drained \/ Evaluate
  <2>1. Running /\ worker \in Optimizers /\ experiments' = experiments
    BY <1>3, RunningIsOptimizer DEF Drained, Evaluate, AtBatch, disk
  <2>2. /\ worker'.asks = worker.asks /\ worker'.exp = worker.exp /\ worker'.seed = worker.seed
        /\ worker'.champion = worker.champion
    BY <1>3, <2>1 DEF Drained, Evaluate, Optimizers
  <2>3. QED
    BY <2>1, <2>2 DEF Keeps
<1>4. CASE WorkerBegins \/ TakeResult \/ TakeBatch
  <2>1. \A seed : Builds(seed) => seed \in Seeds
    BY DEF Builds
  <2>2. QED
    BY <1>4, <2>1, BuildersBuild
<1>5. QED
  BY <1>1, <1>2, <1>3, <1>4 DEF Otherwise, Work

\* The worker takes an experiment up again.
Reuses(seed) ==
    /\ Builds(seed) /\ experiments' = experiments
    /\ Running' /\ worker'.seed = seed /\ worker'.asks = Nothing
    /\ worker'.exp \in ExperimentIds
    /\ worker'.champion = experiments[worker'.exp].champion
    /\ experiments[worker'.exp].context = seed.context
    /\ experiments[worker'.exp].base = seed.base
    /\ \A e \in ExperimentIds :
          SameSymbol(experiments[e].context, seed.context) => e <= worker'.exp

\* The worker makes a new one.
Makes(seed) ==
    /\ Builds(seed) /\ Len(experiments') = Len(experiments) + 1
    /\ \A e \in ExperimentIds : experiments'[e] = experiments[e]
    /\ Running' /\ worker'.seed = seed /\ worker'.asks = Nothing
    /\ worker'.exp = Len(experiments') /\ worker'.champion = seed.base
    /\ experiments'[worker'.exp].context = seed.context
    /\ experiments'[worker'.exp].base = seed.base
    /\ experiments'[worker'.exp].champion = seed.base
    /\ experiments'[worker'.exp].history = <<>>

LEMMA ReusableFits ==
  ASSUME TypeOK, NEW seed \in Seeds, NEW usable \in BOOLEAN, Reusable(seed, usable) # 0
  PROVE  LET e == Reusable(seed, usable)
         IN  /\ e \in ExperimentIds
             /\ experiments[e].context = seed.context /\ experiments[e].base = seed.base
             /\ \A g \in ExperimentIds :
                   SameSymbol(experiments[g].context, seed.context) => g <= e
<1> DEFINE ofSymbol == {e \in ExperimentIds : experiments[e].context.sym = seed.context.sym}
           newest == CHOOSE e \in ofSymbol : \A g \in ofSymbol : g <= e
<1>1. Len(experiments) \in Nat /\ ofSymbol \subseteq 0..Len(experiments)
  BY DEF TypeOK, WorkerTypeOK, ExperimentIds
<1>2. /\ ofSymbol # {} /\ Reusable(seed, usable) = newest
      /\ experiments[newest].context = seed.context /\ experiments[newest].base = seed.base
  BY DEF Reusable
<1>3. \E e \in ofSymbol : \A g \in ofSymbol : g <= e
  <2> HIDE DEF ofSymbol
  <2>1. QED
    BY <1>1, <1>2, GreatestExists
<1>4. newest \in ofSymbol /\ \A g \in ofSymbol : g <= newest
  <2> HIDE DEF ofSymbol
  <2>1. QED
    BY <1>3
<1>5. \A g \in ExperimentIds : SameSymbol(experiments[g].context, seed.context) => g \in ofSymbol
  BY DEF SameSymbol
<1>6. QED
  <2> HIDE DEF newest
  <2>1. newest \in ExperimentIds
    BY <1>4
  <2>2. QED
    BY <1>2, <1>4, <1>5, <2>1

LEMMA BuildsHow ==
  ASSUME TypeOK, NEW seed, Builds(seed)
  PROVE  Reuses(seed) \/ Makes(seed) \/ (experiments' = experiments /\ ~Running')
<1>1. experiments \in Seq(Experiments) /\ Len(experiments) \in Nat /\ seed \in Seeds
  BY DEF TypeOK, WorkerTypeOK, Builds
<1>2. PICK usable \in BOOLEAN :
         LET e == Reusable(seed, usable)
         IN  IF e # 0
             THEN /\ worker' = Optimizer(seed, e, experiments[e].champion)
                  /\ UNCHANGED experiments
             ELSE IF Len(experiments) < MaxExperiments
             THEN /\ experiments' = Append(experiments,
                        [context |-> seed.context, base |-> seed.base,
                         champion |-> seed.base, history |-> <<>>, retired |-> {}])
                  /\ worker' = Optimizer(seed, Len(experiments'), seed.base)
             ELSE worker' = NoWorker /\ UNCHANGED experiments
  BY DEF Builds, BuildOptimizer
<1> DEFINE e == Reusable(seed, usable)
           new == [context |-> seed.context, base |-> seed.base, champion |-> seed.base,
                   history |-> <<>>, retired |-> {}]
<1>3. CASE e # 0
  <2>1. /\ e \in ExperimentIds
        /\ experiments[e].context = seed.context /\ experiments[e].base = seed.base
        /\ \A g \in ExperimentIds : SameSymbol(experiments[g].context, seed.context) => g <= e
    BY <1>1, <1>3, ReusableFits
  <2>2. worker' = Optimizer(seed, e, experiments[e].champion) /\ experiments' = experiments
    BY <1>2, <1>3
  <2> HIDE DEF e
  <2>3. /\ Running' /\ worker'.seed = seed /\ worker'.asks = Nothing /\ worker'.exp = e
        /\ worker'.champion = experiments[e].champion
    BY <2>2 DEF Optimizer, Running
  <2>4. QED
    BY <2>1, <2>2, <2>3 DEF Reuses
<1>4. CASE e = 0 /\ Len(experiments) < MaxExperiments
  <2>1. experiments' = Append(experiments, new) /\ worker' = Optimizer(seed, Len(experiments'), seed.base)
    BY <1>2, <1>4
  <2>2. /\ new \in Experiments /\ new.history = <<>> /\ new.context = seed.context
        /\ new.base = seed.base /\ new.champion = seed.base
    BY <1>1 DEF Experiments, Seeds
  <2> HIDE DEF new, e
  <2>3. /\ Len(experiments') = Len(experiments) + 1
        /\ \A g \in 1..Len(experiments) : experiments'[g] = experiments[g]
        /\ experiments'[Len(experiments) + 1] = new
    BY <1>1, <2>1, <2>2, AppendPlaces
  <2>4. /\ Running' /\ worker'.seed = seed /\ worker'.asks = Nothing
        /\ worker'.exp = Len(experiments') /\ worker'.champion = seed.base
    BY <2>1 DEF Optimizer, Running
  <2>5. QED
    BY <2>2, <2>3, <2>4 DEF Makes, ExperimentIds
<1>5. CASE e = 0 /\ ~(Len(experiments) < MaxExperiments)
  BY <1>2, <1>5 DEF Running, NoWorker
<1>6. QED
  BY <1>3, <1>4, <1>5

\* What is recorded changes the champion with the history, and nothing that
\* tells the experiment.
LEMMA RecordsHow ==
  ASSUME TypeOK, Records
  PROVE  /\ Running' /\ worker'.exp = worker.exp /\ worker'.seed = worker.seed
         /\ worker'.champion = worker.asks.to /\ worker'.asks = Nothing
         /\ worker.exp \in ExperimentIds /\ History \in Seq(Changes)
         /\ Len(experiments') = Len(experiments)
         /\ \A e \in ExperimentIds \ {worker.exp} : experiments'[e] = experiments[e]
         /\ experiments'[worker.exp].context = experiments[worker.exp].context
         /\ experiments'[worker.exp].base = experiments[worker.exp].base
         /\ experiments'[worker.exp].champion = worker.asks.to
         /\ LET after == experiments'[worker.exp].history
            IN  /\ Len(after) = Len(History) + 1
                /\ \A i \in 1..Len(History) : after[i] = History[i]
                /\ after[Len(History) + 1].id = worker.asks.id
                /\ after[Len(History) + 1].to = worker.asks.to
<1> DEFINE req == worker.asks
           change == [id |-> req.id, kind |-> req.kind, from |-> req.expected, to |-> req.to]
<1>1. /\ worker \in Optimizers /\ worker.asks # Nothing /\ Running /\ RecordChampion(req)
      /\ worker' = [worker EXCEPT !.champion = req.to, !.asks = Nothing]
  BY RunningIsOptimizer DEF Records
<1>2. /\ Running' /\ worker'.exp = worker.exp /\ worker'.seed = worker.seed
      /\ worker'.champion = worker.asks.to /\ worker'.asks = Nothing
  BY <1>1 DEF Optimizers, Running
<1>3. /\ worker.exp \in ExperimentIds /\ experiments[worker.exp] \in Experiments
      /\ History \in Seq(Changes)
  BY <1>1, ExperimentOf
<1>4. /\ Len(experiments') = Len(experiments)
      /\ \A e \in ExperimentIds \ {worker.exp} : experiments'[e] = experiments[e]
      /\ experiments'[worker.exp].history = Append(History, change)
      /\ change \in Changes
  BY <1>1, RecordFacts
<1>5. /\ experiments'[worker.exp].context = experiments[worker.exp].context
      /\ experiments'[worker.exp].base = experiments[worker.exp].base
      /\ experiments'[worker.exp].champion = req.to
  BY <1>1, <1>3 DEF RecordChampion, Experiments, ExperimentIds, TypeOK, WorkerTypeOK
<1>6. change.id = req.id /\ change.to = req.to
  OBVIOUS
<1>7. LET after == experiments'[worker.exp].history
      IN  /\ Len(after) = Len(History) + 1
          /\ \A i \in 1..Len(History) : after[i] = History[i]
          /\ after[Len(History) + 1].id = req.id
          /\ after[Len(History) + 1].to = req.to
  <2> HIDE DEF change, req
  <2>1. QED
    BY <1>3, <1>4, <1>6, AppendPlaces
<1>8. QED
  BY <1>2, <1>3, <1>4, <1>5, <1>7

\* Experiments are for ever what they were made for.
ExperimentsStand ==
    /\ Len(experiments) <= Len(experiments')
    /\ \A e \in ExperimentIds :
          /\ experiments'[e].context = experiments[e].context
          /\ experiments'[e].base = experiments[e].base

LEMMA ExperimentsStandStep == TypeOK /\ [Next]_vars => ExperimentsStand
<1> SUFFICES ASSUME TypeOK, [Next]_vars PROVE ExperimentsStand
  OBVIOUS
<1>1. Len(experiments) \in Nat
  BY DEF TypeOK, WorkerTypeOK
<1>2. CASE experiments' = experiments
  BY <1>1, <1>2 DEF ExperimentsStand
<1>3. CASE \E seed : Makes(seed)
  BY <1>1, <1>3 DEF ExperimentsStand, Makes
<1>4. CASE Records
  BY <1>1, <1>4, RecordsHow DEF ExperimentsStand
<1>5. ASSUME NEW req, WorkerAsks(req) PROVE experiments' = experiments
  BY <1>5 DEF WorkerAsks, disk
<1>6. ASSUME NEW seed, Builds(seed) PROVE experiments' = experiments \/ Makes(seed)
  BY <1>6, BuildsHow DEF Reuses
<1>7. QED
  BY <1>2, <1>3, <1>4, <1>5, <1>6, WorkerSteps DEF Keeps

LEMMA WorkerFitsKept == IInv /\ WorkerFits /\ [Next]_vars => WorkerFits'
<1> SUFFICES ASSUME IInv, WorkerFits, [Next]_vars PROVE WorkerFits'
  OBVIOUS
<1>1. TypeOK /\ Len(experiments) \in Nat /\ (Running => worker.exp \in ExperimentIds)
  BY DEF IInv, TypeOK, WorkerTypeOK
<1>2. ASSUME NEW req, WorkerAsks(req) PROVE WorkerFits'
  <2>1. experiments' = experiments /\ Running
    BY <1>2 DEF WorkerAsks, disk
  <2>2. worker'.exp = worker.exp /\ worker'.seed = worker.seed /\ worker'.champion = worker.champion
    BY <1>2 DEF WorkerAsks
  <2>3. QED
    BY <2>1, <2>2 DEF WorkerFits, ExperimentIds
<1>3. ASSUME NEW seed \in Seeds, Builds(seed) PROVE WorkerFits'
  <2>1. CASE Reuses(seed)
    BY <2>1 DEF Reuses, WorkerFits, ExperimentIds
  <2>2. CASE Makes(seed)
    BY <1>1, <2>2 DEF Makes, WorkerFits, ExperimentIds
  <2>3. QED
    BY <1>1, <1>3, <2>1, <2>2, BuildsHow DEF WorkerFits
<1>4. CASE Records
  <2>1. Running
    BY <1>4 DEF Records
  <2>2. \A e \in ExperimentIds : experiments'[e].context = experiments[e].context
    BY <1>1, <1>4, RecordsHow
  <2>3. QED
    BY <1>1, <1>4, <2>1, <2>2, RecordsHow DEF WorkerFits, ExperimentIds
<1>5. CASE Keeps
  BY <1>5 DEF Keeps, WorkerFits, ExperimentIds
<1>6. QED
  BY <1>1, <1>2, <1>3, <1>4, <1>5, WorkerSteps

LEMMA ChampionIsLastKept == IInv /\ ChampionIsLast /\ [Next]_vars => ChampionIsLast'
<1> SUFFICES ASSUME IInv, ChampionIsLast, [Next]_vars PROVE ChampionIsLast'
  OBVIOUS
<1>1. TypeOK /\ Len(experiments) \in Nat
  BY DEF IInv, TypeOK, WorkerTypeOK
<1>2. CASE experiments' = experiments
  BY <1>2 DEF ChampionIsLast, ExperimentIds
<1>3. ASSUME NEW seed, Makes(seed) PROVE ChampionIsLast'
  <2>1. ASSUME NEW e \in 1..Len(experiments') PROVE e \in ExperimentIds \/ e = worker'.exp
    BY <1>1, <1>3 DEF Makes, ExperimentIds
  <2>2. QED
    BY <1>3, <2>1 DEF Makes, ChampionIsLast, ExperimentIds
<1>4. CASE Records
  <2> DEFINE Latest(e) == IF e.history = <<>> THEN e.base ELSE e.history[Len(e.history)].to
  <2>1. experiments'[worker.exp].champion = Latest(experiments'[worker.exp])
    BY <1>1, <1>4, RecordsHow
  <2>2. \A e \in ExperimentIds \ {worker.exp} : experiments'[e] = experiments[e]
    BY <1>1, <1>4, RecordsHow
  <2>3. \A e \in ExperimentIds : experiments[e].champion = Latest(experiments[e])
    BY DEF ChampionIsLast
  <2>4. Len(experiments') = Len(experiments)
    BY <1>1, <1>4, RecordsHow
  <2>5. \A e \in ExperimentIds : experiments'[e].champion = Latest(experiments'[e])
    <3> HIDE DEF Last
    <3>1. QED
      BY <2>1, <2>2, <2>3
  <2>6. QED
    BY <2>4, <2>5 DEF ChampionIsLast, ExperimentIds
<1>5. ASSUME NEW req, WorkerAsks(req) PROVE experiments' = experiments
  BY <1>5 DEF WorkerAsks, disk
<1>6. ASSUME NEW seed, Builds(seed) PROVE experiments' = experiments \/ Makes(seed)
  BY <1>1, <1>6, BuildsHow DEF Reuses
<1>7. QED
  BY <1>1, <1>2, <1>3, <1>4, <1>5, <1>6, WorkerSteps DEF Keeps

-----------------------------------------------------------------------------
(* What a step does to the requests *)

Applies(req) ==
    ~Rejected(req) /\ (\E time \in Times : Apply(req, time)) /\ resultQ' = resultQ

Holds(req) ==
    /\ ~Rejected(req) /\ pend' = req
    /\ UNCHANGED <<formal, receipting, observed, resultQ>>

Refuses(req) ==
    /\ Rejected(req) /\ UNCHANGED <<formal, receipting, observed>>
    /\ \/ resultQ' = resultQ
       \/ \E result \in Results : ~result.applied /\ resultQ' = Append(resultQ, result)

FromPend(req) == life = "up" /\ pend # Nothing /\ req = pend /\ lifecycleQ' = lifecycleQ

FromQueue(req) ==
    life = "up" /\ lifecycleQ # <<>> /\ req = Head(lifecycleQ) /\ lifecycleQ' = Tail(lifecycleQ)

FromReceipt(req) ==
    /\ life = "down" /\ life' = "restored" /\ lifecycleQ' = lifecycleQ
    /\ \E r \in LatestReceipts(FirstSymbol) : Restorable(r) /\ req = RestoreRequest(r)

\* The monitor has a request before it, and applies, keeps or refuses it.
Considers(req) ==
    /\ req \in Requests
    /\ \/ FromPend(req) /\ life' = life /\ (Applies(req) \/ (Refuses(req) /\ pend' = Nothing))
       \/ FromQueue(req) /\ life' = life
             /\ (Applies(req) \/ Holds(req) \/ (Refuses(req) /\ pend' = pend))
       \/ FromReceipt(req) /\ (Applies(req) \/ Holds(req))
    /\ UNCHANGED <<context, receipts, restarts, worker, experiments, eventQ, supContext, asked>>

\* A receipt thread does its next step.
Saves(job) ==
    /\ job.stage = "save" /\ Becomes(job, {[job EXCEPT !.stage = "seed"]})
    /\ receipts' = Append(receipts, [req |-> job.req, at |-> job.at])
    /\ UNCHANGED <<observed, resultQ>>
Fails(job) ==
    /\ job.stage = "save" /\ Becomes(job, {})
    /\ observed' = [observed EXCEPT !.receiptLost = TRUE] /\ UNCHANGED <<receipts, resultQ>>
TakesSeed(job) ==
    /\ job.stage = "seed" /\ Becomes(job, {[job EXCEPT !.stage = "put", !.seed = Seed]})
    /\ UNCHANGED <<observed, receipts, resultQ>>
Sends(job) ==
    /\ job.stage = "put" /\ Becomes(job, {})
    /\ resultQ' = IF life = "up"
                  THEN Append(resultQ, [id |-> job.req.id, applied |-> TRUE, seed |-> job.seed])
                  ELSE resultQ
    /\ UNCHANGED <<observed, receipts>>
ThreadSteps(job) ==
    /\ job \in receipting
    /\ Saves(job) \/ Fails(job) \/ TakesSeed(job) \/ Sends(job)
    /\ UNCHANGED <<life, context, formal, pend, lifecycleQ, eventQ, supContext, publishing, worker,
                   experiments, asked, restarts>>

\* Nothing happens to the requests.
Still ==
    /\ UNCHANGED <<context, lifecycleQ, pend, receipting, formal, observed, receipts, restarts>>
    /\ resultQ' = resultQ \/ (resultQ # <<>> /\ resultQ' = Tail(resultQ) /\ Running)

LEMMA SubmitConsiders ==
  ASSUME NEW req, NEW time \in Times, Submit(req, time), ~Rejected(req), resultQ' = resultQ
  PROVE  Applies(req) \/ Holds(req)
BY DEF Submit, Applies, Holds

LEMMA MonitorShapes ==
  ASSUME TypeOK, NotUp, StartMonitor \/ Minute \/ HandleRequest
  PROVE  (\E req : Considers(req)) \/ Still
<1>1. UNCHANGED <<context, receipts, restarts, worker, experiments, eventQ, supContext, asked>>
  BY DEF StartMonitor, Minute, HandleRequest, queues, disk
<1>2. CASE StartMonitor
  <2>1. PICK r \in LatestReceipts(FirstSymbol) :
          IF Restorable(r)
          THEN Submit(RestoreRequest(r), WallAfter(now))
          ELSE UNCHANGED <<formal, pend, receipting, observed>>
    BY <1>2 DEF StartMonitor
  <2>2. UNCHANGED <<lifecycleQ, resultQ>> /\ life = "down" /\ life' = "restored"
    BY <1>2 DEF StartMonitor, queues
  <2>3. CASE Restorable(r)
    <3> DEFINE req == RestoreRequest(r)
    <3>1. req \in Requests
      BY <2>3, StoredReceiptType, RestoreIsRequest
    <3>2. WallAfter(now) \in Times
      BY TimesOfMinutes DEF TypeOK, MonitorTypeOK
    <3>3. ~Rejected(req)
      BY <2>2 DEF NotUp, Rejected, RestoreRequest
    <3>4. Applies(req) \/ Holds(req)
      <4> HIDE DEF req
      <4>1. Submit(req, WallAfter(now))
        BY <2>1, <2>3 DEF req
      <4>2. QED
        BY <2>2, <3>2, <3>3, <4>1, SubmitConsiders
    <3>5. FromReceipt(req)
      BY <2>2, <2>3 DEF FromReceipt
    <3>6. Considers(req)
      <4> HIDE DEF req
      <4>1. QED
        BY <1>1, <3>1, <3>4, <3>5 DEF Considers
    <3>7. QED
      BY <3>6
  <2>4. CASE ~Restorable(r)
    BY <1>1, <2>1, <2>2, <2>4 DEF Still
  <2>5. QED
    BY <2>3, <2>4
<1>3. CASE Minute
  <2>1. PICK still \in {FALSE, open} :
          IF pend = Nothing \/ Waits(pend, CloseOf(now'), still)
          THEN UNCHANGED <<formal, pend, receipting, observed>>
          ELSE IF Rejected(pend)
          THEN pend' = Nothing /\ UNCHANGED <<formal, receipting, observed>>
          ELSE Apply(pend, CloseOf(now'))
    BY <1>3 DEF Minute
  <2>2. UNCHANGED <<lifecycleQ, resultQ, life>> /\ life = "up"
    BY <1>3 DEF Minute, queues
  <2>3. CloseOf(now') \in Times
    <3>1. now' \in 0..MaxTime
      BY <1>3, HandoverAssumption DEF TypeOK, MonitorTypeOK, Minute
    <3>2. QED
      BY <3>1, TimesOfMinutes
  <2>4. CASE UNCHANGED <<formal, pend, receipting, observed>>
    BY <1>1, <2>2, <2>4 DEF Still
  <2>5. CASE pend # Nothing /\ Rejected(pend) /\ pend' = Nothing
             /\ UNCHANGED <<formal, receipting, observed>>
    <3>1. Refuses(pend) /\ FromPend(pend) /\ pend \in Requests
      BY <2>2, <2>5 DEF Refuses, FromPend, TypeOK, MonitorTypeOK
    <3>2. QED
      BY <1>1, <2>2, <2>5, <3>1 DEF Considers
  <2>6. CASE pend # Nothing /\ ~Rejected(pend) /\ Apply(pend, CloseOf(now'))
    <3>1. Applies(pend) /\ FromPend(pend) /\ pend \in Requests
      BY <2>2, <2>3, <2>6 DEF Applies, FromPend, TypeOK, MonitorTypeOK
    <3>2. QED
      BY <1>1, <2>2, <3>1 DEF Considers
  <2>7. QED
    BY <2>1, <2>4, <2>5, <2>6
<1>4. CASE HandleRequest
  <2> DEFINE req == Head(lifecycleQ)
  <2>1. lifecycleQ # <<>> /\ lifecycleQ' = Tail(lifecycleQ) /\ life = "up" /\ life' = life
    BY <1>4 DEF HandleRequest
  <2>2. req \in Requests /\ req.at \in Times
    BY <2>1, RequestType DEF Requests
  <2>3. FromQueue(req)
    BY <2>1 DEF FromQueue
  <2>4. CASE Rejected(req)
    <3> DEFINE result == [id |-> req.id, applied |-> FALSE, seed |-> Nothing]
    <3>1. resultQ' = Append(resultQ, result) /\ UNCHANGED <<formal, pend, receipting, observed>>
      BY <1>4, <2>4 DEF HandleRequest
    <3>2. result \in Results /\ ~result.applied
      BY <2>2 DEF Results, Requests
    <3> HIDE DEF result
    <3>3. Refuses(req) /\ pend' = pend
      BY <2>4, <3>1, <3>2 DEF Refuses
    <3>4. QED
      BY <1>1, <2>1, <2>2, <2>3, <3>3 DEF Considers
  <2>5. CASE ~Rejected(req)
    <3>1. Submit(req, req.at) /\ resultQ' = resultQ
      BY <1>4, <2>5 DEF HandleRequest
    <3> HIDE DEF req
    <3>2. Applies(req) \/ Holds(req)
      BY <2>2, <2>5, <3>1, SubmitConsiders
    <3>3. QED
      BY <1>1, <2>1, <2>2, <2>3, <3>2 DEF Considers
  <2>6. QED
    BY <2>4, <2>5
<1>5. QED
  BY <1>2, <1>3, <1>4

LEMMA ThreadShapes == Receipt \/ SaveReceiptFails => \E job : ThreadSteps(job)
<1>1. ASSUME SaveReceipt PROVE \E job : ThreadSteps(job)
  BY <1>1 DEF SaveReceipt, ThreadSteps, Saves, monitor, queues
<1>2. ASSUME SaveReceiptFails PROVE \E job : ThreadSteps(job)
  BY <1>2 DEF SaveReceiptFails, ThreadSteps, Fails, monitor, queues, disk, Unsaved
<1>3. ASSUME TakeSeed PROVE \E job : ThreadSteps(job)
  BY <1>3 DEF TakeSeed, ThreadSteps, TakesSeed, monitor, queues, disk
<1>4. ASSUME SendResult PROVE \E job : ThreadSteps(job)
  BY <1>4 DEF SendResult, ThreadSteps, Sends, monitor, disk
<1>5. QED
  BY <1>1, <1>2, <1>3, <1>4 DEF Receipt

LEMMA StepShapes ==
  ASSUME TypeOK, NotUp, [Next]_vars
  PROVE  \/ \E req : WorkerAsks(req) \/ Considers(req)
         \/ \E job : ThreadSteps(job)
         \/ SwitchSymbol \/ Stop \/ Still
<1>1. CASE StartWorker \/ Publish \/ Work \/ Evaluate \/ WorkerDies \/ UNCHANGED vars
  BY <1>1 DEF StartWorker, Publish, Work, WorkerBegins, TakeResult, Drained, TakeBatch, Evaluate,
              WorkerDies, vars, monitor, queues, disk, Still
<1>2. QED
  BY <1>1, MonitorShapes, ThreadShapes, StepKinds DEF Otherwise

\* The request of a start is that of the latest receipt of the first symbol.
RestoredFrom(req, k) ==
    /\ k \in 1..Len(receipts) /\ receipts[k].req.context.sym = FirstSymbol
    /\ receipts[k].req.exp = req.exp /\ receipts[k].req.to = req.to
    /\ experiments[req.exp].base = BasePolicy
    /\ \A l \in 1..Len(receipts) :
          receipts[l].req.context.sym = FirstSymbol => receipts[l].at <= receipts[k].at

LEMMA LatestPlace ==
  ASSUME TypeOK, NEW r \in LatestReceipts(FirstSymbol), r # Nothing
  PROVE  \E k \in 1..Len(receipts) :
            /\ receipts[k] = r /\ r.req.context.sym = FirstSymbol
            /\ \A l \in 1..Len(receipts) :
                  receipts[l].req.context.sym = FirstSymbol => receipts[l].at <= r.at
<1> DEFINE ofSymbol == {q \in ToSet(receipts) : q.req.context.sym = FirstSymbol}
<1>1. r \in ofSymbol /\ \A q \in ofSymbol : q.at <= r.at
  BY DEF LatestReceipts
<1>2. receipts \in Seq(SavedReceipts)
  BY DEF TypeOK, WorkerTypeOK
<1>3. \A l \in 1..Len(receipts) : receipts[l] \in ToSet(receipts)
  BY <1>2 DEF ToSet
<1>4. PICK k \in 1..Len(receipts) : receipts[k] = r
  BY <1>1, <1>2 DEF ToSet
<1>5. QED
  BY <1>1, <1>3, <1>4

LEMMA RestoredRequest ==
  ASSUME TypeOK, NEW req, FromReceipt(req)
  PROVE  /\ req \in Requests /\ req.id = MaxRequests + restarts + 1 /\ ~OfWorker(req)
         /\ req.context = Context(FirstSymbol, 0) /\ req.expected = BasePolicy
         /\ req.to # BasePolicy
         /\ \E k : RestoredFrom(req, k)
<1>1. PICK r \in LatestReceipts(FirstSymbol) : Restorable(r) /\ req = RestoreRequest(r)
  BY DEF FromReceipt
<1>2. req \in Requests /\ req.id = MaxRequests + restarts + 1
  BY <1>1, StoredReceiptType, RestoreIsRequest
<1>3. /\ ~OfWorker(req) /\ req.context = Context(FirstSymbol, 0) /\ req.expected = BasePolicy
      /\ req.exp = r.req.exp /\ req.to = r.req.to
  BY <1>1 DEF RestoreRequest, OfWorker
<1>4. r # Nothing /\ experiments[req.exp].base = BasePolicy /\ req.to # BasePolicy
  BY <1>1, <1>3 DEF Restorable
<1>5. PICK k \in 1..Len(receipts) :
            /\ receipts[k] = r /\ r.req.context.sym = FirstSymbol
            /\ \A l \in 1..Len(receipts) :
                  receipts[l].req.context.sym = FirstSymbol => receipts[l].at <= r.at
  BY <1>1, <1>4, LatestPlace
<1>6. RestoredFrom(req, k)
  BY <1>3, <1>4, <1>5 DEF RestoredFrom
<1>7. QED
  BY <1>2, <1>3, <1>4, <1>6

\* What is considered has waited, or is the request of a start.
LEMMA ConsideredIsWaiting ==
  ASSUME TypeOK, NEW req, Considers(req)
  PROVE  req \in Waiting \/ FromReceipt(req)
<1>1. FromPend(req) => req \in Waiting
  BY DEF FromPend, Waiting
<1>2. FromQueue(req) => req \in Waiting
  <2>1. ASSUME lifecycleQ # <<>> PROVE Head(lifecycleQ) \in ToSet(lifecycleQ)
    BY <2>1, TailPlaces DEF TypeOK, QueuesTypeOK, ToSet
  <2>2. QED
    BY <2>1 DEF FromQueue, Waiting
<1>3. QED
  BY <1>1, <1>2 DEF Considers

\* Where requests are after one was considered.
LEMMA ConsideredMoves ==
  ASSUME TypeOK, NEW req, Considers(req)
  PROVE  /\ ToSet(lifecycleQ') \subseteq ToSet(lifecycleQ)
         /\ Waiting' \subseteq Waiting \cup {req}
         /\ Applied' \subseteq Applied \cup {req}
         /\ \A job \in receipting' :
               job \in receipting \/ (job.req = req /\ job.stage = "save" /\ Applies(req))
         /\ pend' # Nothing => pend' = pend \/ (pend' = req /\ Holds(req))
         /\ receipts' = receipts
         /\ Applies(req) => pend' = Nothing /\ formal' = req.to
                            /\ (receipting = {} \/ observed'.overlapped)
         /\ ~Applies(req) => formal' = formal /\ receipting' = receipting /\ observed' = observed
<1>1. ToSet(lifecycleQ') \subseteq ToSet(lifecycleQ)
  BY TailSet DEF Considers, FromPend, FromQueue, FromReceipt
<1>2. receipts' = receipts /\ observed \in [receiptLost : BOOLEAN, overlapped : BOOLEAN]
  BY DEF Considers, TypeOK, MonitorTypeOK
<1>3. CASE Applies(req)
  <2>1. PICK time \in Times : Apply(req, time)
    BY <1>3 DEF Applies
  <2> DEFINE new == [req |-> req, at |-> time, stage |-> "save", seed |-> Nothing]
  <2>2. pend' = Nothing /\ receipting' = receipting \cup {new} /\ formal' = req.to
    BY <2>1 DEF Apply
  <2>3. receipting = {} \/ observed'.overlapped
    BY <1>2, <2>1 DEF Apply
  <2>4. new.req = req /\ new.stage = "save"
    OBVIOUS
  <2> HIDE DEF new
  <2>5. \A job \in receipting' : job \in receipting \/ (job.req = req /\ job.stage = "save")
    BY <2>2, <2>4
  <2>6. Waiting' \subseteq Waiting /\ Applied' \subseteq Applied \cup {req}
    BY <1>1, <1>2, <2>2, <2>5 DEF Waiting, Applied
  <2>7. QED
    BY <1>1, <1>2, <1>3, <2>2, <2>3, <2>5, <2>6
<1>4. CASE ~Applies(req)
  <2>1. /\ pend' = pend \/ pend' = Nothing \/ (pend' = req /\ Holds(req))
        /\ UNCHANGED <<formal, receipting, observed>>
    BY <1>4 DEF Considers, Holds, Refuses
  <2>2. Waiting' \subseteq Waiting \cup {req} /\ Applied' = Applied
    BY <1>1, <1>2, <2>1 DEF Waiting, Applied
  <2>3. QED
    BY <1>1, <1>2, <1>4, <2>1, <2>2
<1>5. QED
  BY <1>3, <1>4

\* A receipt thread's step leaves the requests that were applied so.
LEMMA ThreadMoves ==
  ASSUME TypeOK, NEW job, ThreadSteps(job)
  PROVE  /\ Waiting' = Waiting /\ Applied' \subseteq Applied /\ Known' \subseteq Known
         /\ job \in receipting /\ job \in Jobs
         /\ \A j \in receipting' :
               j \in receipting \ {job}
                 \/ (j.req = job.req /\ j.stage # "save" /\ ~Sends(job) /\ ~Fails(job))
         /\ receipts' = receipts \/ Saves(job)
<1>1. job \in receipting /\ job \in Jobs
  BY DEF ThreadSteps, TypeOK, MonitorTypeOK
<1>2. Waiting' = Waiting
  BY DEF ThreadSteps, Waiting
<1>3. PICK jobs : /\ Becomes(job, jobs)
                  /\ \A j \in jobs : j.req = job.req /\ j.stage # "save" /\ ~Sends(job) /\ ~Fails(job)
  <2>1. CASE Saves(job)
    <3> DEFINE next == [job EXCEPT !.stage = "seed"]
    <3>1. next.req = job.req /\ next.stage = "seed"
      BY <1>1 DEF Jobs
    <3>2. Becomes(job, {next}) /\ ~Sends(job)
      BY <2>1 DEF Saves, Sends
    <3> HIDE DEF next
    <3>3. ~Fails(job)
      <4>1. Len(receipts') = Len(receipts) + 1 /\ Len(receipts) \in Nat
        BY <2>1, AppendPlaces, <1>1 DEF Saves, Jobs, SavedReceipts, TypeOK, WorkerTypeOK
      <4>2. QED
        BY <4>1 DEF Fails
    <3>4. QED
      BY <3>1, <3>2, <3>3
  <2>2. CASE TakesSeed(job)
    <3> DEFINE next == [job EXCEPT !.stage = "put", !.seed = Seed]
    <3>1. next.req = job.req /\ next.stage = "put"
      BY <1>1 DEF Jobs
    <3>2. Becomes(job, {next}) /\ ~Sends(job) /\ ~Fails(job)
      BY <2>2 DEF TakesSeed, Sends, Fails
    <3> HIDE DEF next
    <3>3. QED
      BY <3>1, <3>2
  <2>3. CASE Fails(job) \/ Sends(job)
    BY <2>3 DEF Fails, Sends
  <2>4. QED
    BY <2>1, <2>2, <2>3 DEF ThreadSteps
<1>4. \A j \in receipting' : j \in receipting \ {job}
         \/ (j.req = job.req /\ j.stage # "save" /\ ~Sends(job) /\ ~Fails(job))
  BY <1>3 DEF Becomes
<1>5. receipts' = receipts \/ Saves(job)
  BY DEF ThreadSteps, Fails, TakesSeed, Sends
<1>6. {r.req : r \in ToSet(receipts')} \subseteq {r.req : r \in ToSet(receipts)} \cup {job.req}
  <2>1. CASE receipts' = receipts
    BY <2>1
  <2>2. CASE Saves(job)
    <3> DEFINE saved == [req |-> job.req, at |-> job.at]
    <3>1. saved \in SavedReceipts /\ saved.req = job.req
      BY <1>1 DEF Jobs, SavedReceipts
    <3>2. receipts' = Append(receipts, saved)
      BY <2>2 DEF Saves
    <3> HIDE DEF saved
    <3>3. ToSet(receipts') \subseteq ToSet(receipts) \cup {saved}
      BY <3>1, <3>2, AppendSet DEF TypeOK, WorkerTypeOK
    <3>4. QED
      BY <3>1, <3>3
  <2>3. QED
    BY <1>5, <2>1, <2>2
<1>7. Applied' \subseteq Applied
  BY <1>1, <1>4, <1>6 DEF Applied
<1>8. QED
  BY <1>1, <1>2, <1>4, <1>5, <1>7 DEF Known

\* Requests come from the worker, and from a start.
LEMMA KnownGrows ==
  ASSUME TypeOK, NotUp, [Next]_vars, NEW req \in Known'
  PROVE  req \in Known \/ WorkerAsks(req) \/ (Considers(req) /\ FromReceipt(req))
<1>1. ASSUME NEW other, WorkerAsks(other) PROVE req \in Known \/ WorkerAsks(req)
  BY <1>1, WorkerAsksKnown DEF NewRequest
<1>2. ASSUME NEW other, Considers(other) PROVE req \in Known \/ (Considers(req) /\ FromReceipt(req))
  BY <1>2, ConsideredMoves, ConsideredIsWaiting DEF Known
<1>3. ASSUME NEW job, ThreadSteps(job) PROVE req \in Known
  BY <1>3, ThreadMoves
<1>4. CASE SwitchSymbol \/ Stop \/ Still
  <2>1. CASE SwitchSymbol \/ Stop
    BY <2>1, KnownElsewhere
  <2>2. CASE Still
    BY <2>2 DEF Still, Known, Waiting, Applied
  <2>3. QED
    BY <1>4, <2>1, <2>2
<1>5. QED
  BY <1>1, <1>2, <1>3, <1>4, StepShapes

LEMMA AskingGrows ==
  ASSUME TypeOK, [Next]_vars, NEW req \in Asking'
  PROVE  req \in Asking \/ WorkerAsks(req)
<1>1. ASSUME NEW other, WorkerAsks(other) PROVE WorkerAsks(req)
  BY <1>1 DEF WorkerAsks, Asking
<1>2. CASE Otherwise
  BY <1>2, OtherwiseAsks DEF Asking
<1>3. QED
  BY <1>1, <1>2, StepKinds

-----------------------------------------------------------------------------
(* Requests: what they are for, and in which order they come *)

LEMMA NotUpKept == IInv /\ NotUp /\ [Next]_vars => NotUp'
<1> SUFFICES ASSUME IInv, NotUp, [Next]_vars PROVE NotUp'
  OBVIOUS
<1>1. TypeOK /\ DownIsEmpty
  BY DEF IInv
<1>2. ASSUME NEW req, WorkerAsks(req) PROVE life = "up" /\ life' = life
  <2>1. worker.st = "run" /\ life' = life
    BY <1>2 DEF WorkerAsks, Running, monitor
  <2>2. QED
    BY <1>1, <2>1 DEF DownIsEmpty
<1>3. CASE StartMonitor
  BY <1>3 DEF StartMonitor, NotUp, queues
<1>4. CASE StartWorker \/ Minute \/ HandleRequest \/ SwitchSymbol
  BY <1>4 DEF StartWorker, Minute, HandleRequest, SwitchSymbol, NotUp
<1>5. CASE Publish
  BY <1>5 DEF Publish, NotUp, monitor
<1>6. CASE Receipt \/ SaveReceiptFails
  <2>1. UNCHANGED <<life, context, formal, pend, lifecycleQ, eventQ, supContext, publishing>>
    BY <1>6, ThreadShapes DEF ThreadSteps
  <2>2. life # "up" => resultQ' = resultQ
    BY <1>6 DEF Receipt, SaveReceipt, TakeSeed, SendResult, SaveReceiptFails, queues
  <2>3. life = "down" => receipting = {}
    BY DEF NotUp
  <2>4. receipting # {}
    BY <1>6 DEF Receipt, SaveReceipt, TakeSeed, SendResult, SaveReceiptFails
  <2>5. QED
    BY <2>1, <2>2, <2>3, <2>4 DEF NotUp
<1>7. CASE Stop
  BY <1>7 DEF Stop, NotUp
<1>8. CASE Work \/ WorkerDies \/ Evaluate
  <2>1. life' = life
    BY <1>8 DEF Work, WorkerBegins, TakeResult, Drained, TakeBatch, WorkerDies, Evaluate, monitor
  <2>2. worker.st # "none"
    BY <1>8 DEF Work, WorkerBegins, TakeResult, Drained, TakeBatch, WorkerDies, Evaluate, AtBatch, Running
  <2>3. life = "up"
    BY <1>1, <2>2 DEF DownIsEmpty
  <2>4. QED
    BY <2>1, <2>3 DEF NotUp
<1>9. CASE UNCHANGED vars
  BY <1>9 DEF vars, monitor, queues, NotUp
<1>10. ASSUME life = "up", life' = life PROVE NotUp'
  BY <1>10 DEF NotUp
<1>11. QED
  BY <1>1, <1>2, <1>3, <1>4, <1>5, <1>6, <1>7, <1>8, <1>9, <1>10, StepKinds DEF Otherwise

LEMMA RequestsFitKept == IInv /\ NotUp /\ RequestsFit /\ WorkerFits /\ [Next]_vars => RequestsFit'
<1> SUFFICES ASSUME IInv, NotUp, RequestsFit, WorkerFits, [Next]_vars,
                    NEW req \in Known' \cup Asking'
             PROVE  /\ req.exp \in 1..Len(experiments')
                    /\ SameSymbol(experiments'[req.exp].context, req.context)
                    /\ OfWorker(req) => experiments'[req.exp].context = req.context
  BY DEF RequestsFit, ExperimentIds
<1>1. TypeOK /\ ExperimentsStand /\ Len(experiments) \in Nat /\ Len(experiments') \in Nat
  BY ExperimentsStandStep, NextTypeOK DEF IInv, TypeOK, WorkerTypeOK
<1> DEFINE Fits == /\ req.exp \in ExperimentIds
                   /\ SameSymbol(experiments[req.exp].context, req.context)
                   /\ OfWorker(req) => experiments[req.exp].context = req.context
<1>2. ASSUME req \in Known \cup Asking PROVE Fits
  BY <1>2 DEF RequestsFit
<1>3. ASSUME WorkerAsks(req) PROVE Fits
  <2>1. Running /\ req.exp = worker.exp /\ req.context = worker.seed.context
    BY <1>3 DEF WorkerAsks
  <2>2. worker.exp \in ExperimentIds
    BY <1>1, <2>1, ExperimentOf
  <2>3. QED
    BY <2>1, <2>2 DEF WorkerFits, SameSymbol
<1>4. ASSUME FromReceipt(req) PROVE Fits
  <2>1. PICK k : RestoredFrom(req, k)
    BY <1>1, <1>4, RestoredRequest
  <2>2. receipts[k].req \in Known /\ k \in 1..Len(receipts)
    BY <1>1, <2>1, KnownPlaces DEF RestoredFrom
  <2>3. req.exp \in ExperimentIds /\ SameSymbol(experiments[req.exp].context, receipts[k].req.context)
    BY <2>1, <2>2 DEF RequestsFit, RestoredFrom
  <2>4. ~OfWorker(req) /\ req.context.sym = FirstSymbol
    BY <1>1, <1>4, RestoredRequest DEF Context
  <2>5. QED
    BY <2>1, <2>3, <2>4 DEF SameSymbol, RestoredFrom
<1>5. Fits
  <2> HIDE DEF Fits
  <2>1. QED
    BY <1>1, <1>2, <1>3, <1>4, KnownGrows, AskingGrows
<1>6. QED
  BY <1>1, <1>5 DEF ExperimentsStand, ExperimentIds

LEMMA BoundsNat == TypeOK => MaxRequests \in Nat /\ restarts \in Nat
BY HandoverAssumption DEF TypeOK, MonitorTypeOK

LEMMA StartsNumberedKept == IInv /\ NotUp /\ StartsNumbered /\ [Next]_vars => StartsNumbered'
<1> SUFFICES ASSUME IInv, NotUp, StartsNumbered, [Next]_vars PROVE StartsNumbered'
  OBVIOUS
<1>1. TypeOK /\ restarts \in Nat /\ MaxRequests \in Nat /\ asked \in Nat
      /\ (\A req \in Known' : req.id \in Nat)
  <2>1. TypeOK /\ restarts \in Nat /\ MaxRequests \in Nat /\ asked \in Nat
    BY BoundsNat, AskedNat DEF IInv
  <2>2. \A req \in Known' : req \in Requests
    BY <2>1, KnownGrows, KnownAreRequests DEF WorkerAsks, Considers
  <2>3. QED
    BY <2>1, <2>2, RequestIdNat
<1>2. /\ restarts' = restarts \/ restarts' = restarts + 1
      /\ life' = "down" => life = "down" \/ restarts' = restarts + 1
      /\ life = "down" /\ life' = "down" => restarts' = restarts
  <2>1. ASSUME NEW req, WorkerAsks(req) PROVE restarts' = restarts /\ life' = life
    BY <2>1 DEF WorkerAsks, monitor
  <2>2. CASE Otherwise
    BY <2>2 DEF Otherwise, StartMonitor, StartWorker, Minute, Publish, HandleRequest, Receipt,
                SaveReceipt, TakeSeed, SendResult, Work, WorkerBegins, TakeResult, Drained, TakeBatch,
                Evaluate, SwitchSymbol, Stop, SaveReceiptFails, WorkerDies, vars, monitor
  <2>3. QED
    BY <1>1, <2>1, <2>2, StepKinds
<1>3. ASSUME NEW req \in Known'
      PROVE  /\ OfWorker(req) <=> req.id <= MaxRequests
             /\ req.id <= MaxRequests + restarts' + 1
             /\ life' = "down" => req.id <= MaxRequests + restarts'
  <2>1. CASE req \in Known
    BY <1>1, <1>2, <1>3, <2>1 DEF StartsNumbered
  <2>2. CASE WorkerAsks(req)
    <3>1. OfWorker(req) /\ req.id = asked + 1 /\ asked + 1 <= MaxRequests
      BY <2>2 DEF WorkerAsks, OfWorker
    <3>2. QED
      BY <1>1, <1>2, <3>1
  <2>3. CASE FromReceipt(req)
    <3>1. req.id = MaxRequests + restarts + 1 /\ ~OfWorker(req) /\ life' = "restored"
      BY <1>1, <2>3, RestoredRequest DEF FromReceipt
    <3>2. QED
      BY <1>1, <1>2, <3>1
  <2>4. QED
    BY <1>1, <1>3, <2>1, <2>2, <2>3, KnownGrows
<1>4. QED
  BY <1>3 DEF StartsNumbered

\* A new request has a number of its own.
LEMMA NewNumber ==
  ASSUME IInv, StartsNumbered, NEW req, WorkerAsks(req) \/ FromReceipt(req), NEW old \in Known
  PROVE  old.id # req.id
<1>1. /\ TypeOK /\ Numbered /\ MaxRequests \in Nat /\ restarts \in Nat /\ asked \in Nat
      /\ asked <= MaxRequests /\ old.id \in Nat
  BY BoundsNat, AskedNat, KnownAreRequests, RequestIdNat DEF IInv
<1>2. CASE WorkerAsks(req)
  <2>1. req.id = asked + 1 /\ asked + 1 <= MaxRequests
    BY <1>2 DEF WorkerAsks
  <2>2. QED
    BY <1>1, <2>1 DEF Numbered
<1>3. CASE FromReceipt(req)
  <2>1. req.id = MaxRequests + restarts + 1 /\ life = "down"
    BY <1>1, <1>3, RestoredRequest DEF FromReceipt
  <2>2. old.id <= MaxRequests + restarts
    BY <2>1 DEF StartsNumbered
  <2>3. QED
    BY <1>1, <2>1, <2>2
<1>4. QED
  BY <1>2, <1>3

\* The request of a step that saves a receipt is new to the receipts.
LEMMA SavedIsNew ==
  ASSUME TypeOK, UnsavedAreNew, NEW job, ThreadSteps(job), Saves(job)
  PROVE  /\ ~HasReceipt(job.req.id)
         /\ receipts \in Seq(SavedReceipts) /\ Len(receipts) \in Nat
         /\ Len(receipts') = Len(receipts) + 1
         /\ \A k \in 1..Len(receipts) : receipts'[k] = receipts[k]
         /\ receipts'[Len(receipts) + 1].req = job.req
<1>1. job \in receipting /\ job \in Jobs /\ receipts \in Seq(SavedReceipts) /\ Len(receipts) \in Nat
  BY ThreadMoves DEF TypeOK, WorkerTypeOK
<1>2. ~HasReceipt(job.req.id)
  BY <1>1 DEF UnsavedAreNew, Saves
<1> DEFINE saved == [req |-> job.req, at |-> job.at]
<1>3. saved \in SavedReceipts /\ saved.req = job.req /\ receipts' = Append(receipts, saved)
  BY <1>1 DEF Jobs, SavedReceipts, Saves
<1>4. QED
  <2> HIDE DEF saved
  <2>1. QED
    BY <1>1, <1>2, <1>3, AppendPlaces

LEMMA UnsavedAreNewKept ==
  IInv /\ NotUp /\ StartsNumbered /\ UnsavedAreNew /\ [Next]_vars => UnsavedAreNew'
<1> SUFFICES ASSUME IInv, NotUp, StartsNumbered, UnsavedAreNew, [Next]_vars PROVE UnsavedAreNew'
  OBVIOUS
<1>1. TypeOK /\ AppliedOnce /\ NotUp
  BY DEF IInv
<1>2. \A i \in 1..Len(receipts) : receipts[i].req \in Known
  BY <1>1, KnownPlaces
<1>3. ASSUME NEW req, WorkerAsks(req) PROVE UnsavedAreNew'
  <2>1. Waiting' \subseteq Waiting \cup {req} /\ receipting' = receipting /\ receipts' = receipts
    <3>1. ToSet(lifecycleQ') \subseteq ToSet(lifecycleQ) \cup {req}
      BY <1>1, <1>3, AppendSet DEF WorkerAsks, TypeOK, QueuesTypeOK
    <3>2. QED
      BY <1>3, <3>1 DEF WorkerAsks, monitor, disk, Waiting
  <2>2. ~HasReceipt(req.id)
    BY <1>2, <1>3, NewNumber DEF HasReceipt
  <2>3. QED
    BY <2>1, <2>2 DEF UnsavedAreNew, HasReceipt
<1>4. ASSUME NEW req, Considers(req) PROVE UnsavedAreNew'
  <2>1. ~HasReceipt(req.id)
    <3>1. CASE req \in Waiting
      BY <3>1 DEF UnsavedAreNew
    <3>2. CASE FromReceipt(req)
      BY <1>2, <3>2, NewNumber DEF HasReceipt
    <3>3. QED
      BY <1>1, <1>4, <3>1, <3>2, ConsideredIsWaiting
  <2>2. \A job \in receipting : job.req.id # req.id
    <3>1. CASE FromPend(req)
      BY <1>1, <3>1 DEF FromPend, AppliedOnce
    <3>2. CASE FromQueue(req)
      <4>1. req = lifecycleQ[1] /\ 1 \in 1..Len(lifecycleQ)
        BY <1>1, <3>2, TailPlaces DEF FromQueue, TypeOK, QueuesTypeOK
      <4>2. QED
        BY <1>1, <4>1 DEF AppliedOnce
    <3>3. CASE FromReceipt(req)
      BY <1>1, <3>3 DEF FromReceipt, NotUp
    <3>4. QED
      BY <1>4, <3>1, <3>2, <3>3 DEF Considers
  <2>3. /\ Waiting' \subseteq Waiting \cup {req} /\ receipts' = receipts
        /\ \A job \in receipting' : job \in receipting \/ job.req = req
    BY <1>1, <1>4, ConsideredMoves
  <2>4. \A job, other \in receipting' : job.req.id = other.req.id => job = other
    <3>1. CASE receipting' = receipting
      BY <3>1 DEF UnsavedAreNew
    <3>2. CASE Applies(req)
      <4>1. PICK time \in Times : Apply(req, time)
        BY <3>2 DEF Applies
      <4> DEFINE new == [req |-> req, at |-> time, stage |-> "save", seed |-> Nothing]
      <4>2. receipting' = receipting \cup {new} /\ new.req = req
        BY <4>1 DEF Apply
      <4> HIDE DEF new
      <4>3. QED
        BY <2>2, <4>2 DEF UnsavedAreNew
    <3>3. QED
      BY <1>1, <1>4, <3>1, <3>2, ConsideredMoves
  <2>5. QED
    BY <2>1, <2>3, <2>4 DEF UnsavedAreNew, HasReceipt
<1>5. ASSUME NEW job, ThreadSteps(job) PROVE UnsavedAreNew'
  <2>1. /\ Waiting' = Waiting /\ job \in receipting
        /\ \A j \in receipting' : j \in receipting \ {job} \/ (j.req = job.req /\ j.stage # "save")
    BY <1>1, <1>5, ThreadMoves
  <2>2. \A req \in Waiting : job.req.id # req.id
    <3>1. \A i \in 1..Len(lifecycleQ) : job.req.id # lifecycleQ[i].id
      BY <1>1, <2>1 DEF AppliedOnce
    <3>2. \A req \in ToSet(lifecycleQ) : job.req.id # req.id
      BY <1>1, <3>1 DEF ToSet, TypeOK, QueuesTypeOK
    <3>3. QED
      BY <1>1, <2>1, <3>2 DEF Waiting, AppliedOnce
  <2>3. \A id : HasReceipt(id)' => HasReceipt(id) \/ id = job.req.id
    <3>1. CASE receipts' = receipts
      BY <3>1 DEF HasReceipt
    <3>2. CASE Saves(job)
      <4>1. /\ Len(receipts) \in Nat /\ Len(receipts') = Len(receipts) + 1
            /\ \A k \in 1..Len(receipts) : receipts'[k] = receipts[k]
            /\ receipts'[Len(receipts) + 1].req = job.req
        BY <1>1, <1>5, <3>2, SavedIsNew
      <4>2. \A k \in 1..Len(receipts') : k \in 1..Len(receipts) \/ k = Len(receipts) + 1
        BY <4>1
      <4>3. QED
        BY <4>1, <4>2 DEF HasReceipt
    <3>3. QED
      BY <1>1, <1>5, <3>1, <3>2, ThreadMoves
  <2>4. \A req \in Waiting' : ~HasReceipt(req.id)'
    BY <2>1, <2>2, <2>3 DEF UnsavedAreNew
  <2>5. \A j \in receipting' : j.stage = "save" => ~HasReceipt(j.req.id)'
    BY <2>1, <2>3 DEF UnsavedAreNew
  <2>6. \A j, other \in receipting' : j.req.id = other.req.id => j = other
    <3>1. PICK jobs : Becomes(job, jobs) /\ \A j, other \in jobs : j = other
      BY <1>5 DEF ThreadSteps, Saves, Fails, TakesSeed, Sends
    <3>2. \A j \in receipting' : j \in receipting \ {job} \/ j \in jobs
      BY <3>1 DEF Becomes
    <3>3. \A j \in receipting \ {job} : j.req.id # job.req.id
      BY <2>1 DEF UnsavedAreNew
    <3>4. \A j \in jobs : j \in receipting'
      BY <3>1 DEF Becomes
    <3>5. ASSUME NEW j \in receipting', NEW other \in receipting', j.req.id = other.req.id
          PROVE  j = other
      <4>1. CASE j \in receipting \ {job} /\ other \in receipting \ {job}
        BY <3>5, <4>1 DEF UnsavedAreNew
      <4>2. CASE j \in jobs /\ other \in jobs
        BY <3>1, <4>2
      <4>3. j \notin receipting \ {job} => j.req = job.req /\ j \in jobs
        BY <2>1, <3>2
      <4>4. other \notin receipting \ {job} => other.req = job.req /\ other \in jobs
        BY <2>1, <3>2
      <4>5. QED
        BY <3>3, <3>5, <4>1, <4>2, <4>3, <4>4
    <3>6. QED
      BY <3>5
  <2>7. QED
    BY <2>4, <2>5, <2>6 DEF UnsavedAreNew, HasReceipt
<1>6. CASE SwitchSymbol \/ Stop \/ Still
  <2>1. /\ Waiting' \subseteq Waiting /\ receipting' \subseteq receipting /\ receipts' = receipts
    BY <1>6 DEF SwitchSymbol, Stop, Still, Waiting, queues, disk, ToSet
  <2>2. QED
    BY <2>1 DEF UnsavedAreNew, HasReceipt
<1>7. QED
  BY <1>1, <1>3, <1>4, <1>5, <1>6, StepShapes

LEMMA OneThreadKept == IInv /\ NotUp /\ OneThread /\ [Next]_vars => OneThread'
<1> SUFFICES ASSUME IInv, NotUp, OneThread, [Next]_vars PROVE OneThread'
  OBVIOUS
<1>1. TypeOK /\ observed \in [receiptLost : BOOLEAN, overlapped : BOOLEAN]
  BY DEF IInv, TypeOK, MonitorTypeOK
<1>2. ASSUME NEW req, Considers(req) PROVE OneThread'
  <2>1. CASE Applies(req)
    <3>1. PICK time \in Times : Apply(req, time)
      BY <2>1 DEF Applies
    <3> DEFINE new == [req |-> req, at |-> time, stage |-> "save", seed |-> Nothing]
    <3>2. receipting' = receipting \cup {new} /\ (receipting # {} => observed'.overlapped)
      BY <1>1, <3>1 DEF Apply
    <3> HIDE DEF new
    <3>3. QED
      BY <3>2 DEF OneThread
  <2>2. CASE ~Applies(req)
    BY <1>1, <1>2, <2>2, ConsideredMoves DEF OneThread
  <2>3. QED
    BY <2>1, <2>2
<1>3. ASSUME NEW job, ThreadSteps(job) PROVE OneThread'
  <2>1. PICK jobs : Becomes(job, jobs) /\ \A j, other \in jobs : j = other
    BY <1>3 DEF ThreadSteps, Saves, Fails, TakesSeed, Sends
  <2>2. observed'.overlapped = observed.overlapped /\ job \in receipting
    BY <1>1, <1>3 DEF ThreadSteps, Saves, Fails, TakesSeed, Sends
  <2>3. QED
    BY <2>1, <2>2 DEF OneThread, Becomes
<1>4. ASSUME receipting' \subseteq receipting, observed'.overlapped = observed.overlapped PROVE OneThread'
  BY <1>4 DEF OneThread
<1>5. ASSUME NEW req, WorkerAsks(req) PROVE OneThread'
  BY <1>4, <1>5 DEF WorkerAsks
<1>6. CASE SwitchSymbol \/ Stop \/ Still
  BY <1>1, <1>4, <1>6 DEF SwitchSymbol, Stop, Still
<1>7. QED
  BY <1>1, <1>2, <1>3, <1>5, <1>6, StepShapes

LEMMA QueueIsOfWorker ==
  ASSUME IInv, StartsNumbered, NEW i \in 1..Len(lifecycleQ)
  PROVE  OfWorker(lifecycleQ[i]) /\ lifecycleQ[i].id <= asked
<1>1. TypeOK /\ QueueOrdered /\ asked \in Nat /\ MaxRequests \in Nat /\ asked <= MaxRequests
  BY AskedNat DEF IInv
<1>2. lifecycleQ[i] \in Known /\ lifecycleQ[i].id \in Nat
  BY <1>1, KnownPlaces, KnownAreRequests, RequestIdNat
<1>3. lifecycleQ[i].id <= asked
  BY <1>1 DEF QueueOrdered
<1>4. QED
  BY <1>1, <1>2, <1>3 DEF StartsNumbered

LEMMA QueueHeadIsOfWorker ==
  ASSUME IInv, StartsNumbered, NEW req, FromQueue(req)
  PROVE  OfWorker(req) /\ req = lifecycleQ[1] /\ 1 \in 1..Len(lifecycleQ)
<1>1. req = lifecycleQ[1] /\ 1 \in 1..Len(lifecycleQ)
  BY TailPlaces DEF FromQueue, IInv, TypeOK, QueuesTypeOK
<1>2. QED
  BY <1>1, QueueIsOfWorker

LEMMA RestoreIsFirstKept ==
  IInv /\ NotUp /\ StartsNumbered /\ RestoreIsFirst /\ [Next]_vars => RestoreIsFirst'
<1> SUFFICES ASSUME IInv, NotUp, StartsNumbered, RestoreIsFirst, [Next]_vars,
                    pend' # Nothing, ~OfWorker(pend')
             PROVE  receipting' = {}
  BY DEF RestoreIsFirst, OfWorker
<1>1. TypeOK
  BY DEF IInv
<1>2. ASSUME NEW req, Considers(req) PROVE receipting' = {}
  <2>1. CASE pend' = pend
    <3>1. receipting' = receipting
      BY <1>1, <1>2, <2>1, ConsideredMoves
    <3>2. QED
      BY <2>1, <3>1 DEF RestoreIsFirst
  <2>2. CASE pend' = req /\ Holds(req)
    <3>1. receipting' = receipting /\ ~OfWorker(req)
      BY <2>2 DEF Holds
    <3>2. CASE FromQueue(req)
      BY <3>1, <3>2, QueueHeadIsOfWorker
    <3>3. CASE FromPend(req)
      BY <3>1, <3>3 DEF FromPend, RestoreIsFirst
    <3>4. CASE FromReceipt(req)
      BY <3>1, <3>4 DEF FromReceipt, NotUp
    <3>5. QED
      BY <1>2, <3>2, <3>3, <3>4 DEF Considers
  <2>3. QED
    BY <1>1, <1>2, <2>1, <2>2, ConsideredMoves
<1>3. ASSUME NEW job, ThreadSteps(job) PROVE FALSE
  BY <1>3 DEF ThreadSteps, RestoreIsFirst
<1>4. ASSUME pend' = pend, receipting' = receipting PROVE receipting' = {}
  BY <1>4 DEF RestoreIsFirst
<1>5. ASSUME NEW req, WorkerAsks(req) PROVE receipting' = {}
  BY <1>4, <1>5 DEF WorkerAsks, monitor
<1>6. CASE SwitchSymbol \/ Stop \/ Still
  BY <1>4, <1>6 DEF SwitchSymbol, Stop, Still
<1>7. QED
  BY <1>1, <1>2, <1>3, <1>5, <1>6, StepShapes

-----------------------------------------------------------------------------
(* Histories and receipts *)

LEMMA ReceiptsChange ==
  ASSUME TypeOK, NotUp, [Next]_vars
  PROVE  receipts' = receipts \/ \E job : ThreadSteps(job) /\ Saves(job)
<1>1. ASSUME NEW req, WorkerAsks(req) PROVE receipts' = receipts
  BY <1>1 DEF WorkerAsks, disk
<1>2. ASSUME NEW req, Considers(req) PROVE receipts' = receipts
  BY <1>2 DEF Considers
<1>3. ASSUME NEW job, ThreadSteps(job) PROVE receipts' = receipts \/ Saves(job)
  BY <1>3, ThreadMoves
<1>4. SwitchSymbol \/ Stop \/ Still => receipts' = receipts
  BY DEF SwitchSymbol, Stop, Still, disk
<1>5. QED
  BY <1>1, <1>2, <1>3, <1>4, StepShapes

LEMMA HistoryHasReceipts ==
  ASSUME IInv, NEW e \in ExperimentIds, NEW i \in 1..Len(experiments[e].history)
  PROVE  HasReceipt(experiments[e].history[i].id)
BY DEF IInv, Recorded, HasReceipt

LEMMA HistoriesAgreeKept ==
  IInv /\ NotUp /\ UnsavedAreNew /\ HistoriesAgree /\ AskedIsLast /\ [Next]_vars => HistoriesAgree'
<1> SUFFICES ASSUME IInv, NotUp, UnsavedAreNew, HistoriesAgree, AskedIsLast, [Next]_vars
             PROVE  HistoriesAgree'
  OBVIOUS
<1>1. TypeOK /\ Len(experiments) \in Nat /\ Len(receipts) \in Nat
  BY DEF IInv, TypeOK, WorkerTypeOK
<1>2. ASSUME NEW job, ThreadSteps(job), Saves(job) PROVE HistoriesAgree'
  <2>1. /\ ~HasReceipt(job.req.id)
        /\ Len(receipts') = Len(receipts) + 1
        /\ \A k \in 1..Len(receipts) : receipts'[k] = receipts[k]
        /\ receipts'[Len(receipts) + 1].req = job.req
    BY <1>1, <1>2, SavedIsNew
  <2>2. experiments' = experiments
    BY <1>2 DEF ThreadSteps
  <2>3. ASSUME NEW e \in ExperimentIds, NEW i \in 1..Len(experiments[e].history),
               NEW k \in 1..Len(receipts'), receipts'[k].req.id = experiments[e].history[i].id
        PROVE  k \in 1..Len(receipts) /\ receipts'[k] = receipts[k]
    <3>1. k # Len(receipts) + 1
      BY <2>1, <2>3, HistoryHasReceipts
    <3>2. QED
      BY <1>1, <2>1, <3>1
  <2>4. \A e \in ExperimentIds : Agree(experiments[e].history, receipts)
    BY DEF HistoriesAgree
  <2>5. ASSUME NEW e \in ExperimentIds, NEW i \in 1..Len(experiments[e].history),
               NEW k \in 1..Len(receipts'), receipts'[k].req.id = experiments[e].history[i].id
        PROVE  /\ receipts'[k].req.to = experiments[e].history[i].to
               /\ \A j \in 1..Len(experiments[e].history) : \A l \in 1..Len(receipts') :
                     i < j /\ receipts'[l].req.id = experiments[e].history[j].id => k < l
    <3>1. k \in 1..Len(receipts) /\ receipts'[k] = receipts[k]
      BY <2>3, <2>5
    <3>2. receipts[k].req.to = experiments[e].history[i].to
      BY <2>4, <2>5, <3>1 DEF Agree
    <3>3. ASSUME NEW j \in 1..Len(experiments[e].history), NEW l \in 1..Len(receipts'),
                 i < j, receipts'[l].req.id = experiments[e].history[j].id
          PROVE  k < l
      <4>1. l \in 1..Len(receipts) /\ receipts'[l] = receipts[l]
        BY <2>3, <3>3
      <4>2. QED
        BY <2>4, <2>5, <3>1, <3>3, <4>1 DEF Agree
    <3>4. QED
      BY <3>1, <3>2, <3>3
  <2>6. \A e \in ExperimentIds : Agree(experiments[e].history, receipts')
    BY <2>5 DEF Agree
  <2>7. QED
    BY <2>2, <2>6 DEF HistoriesAgree, ExperimentIds
<1>3. CASE receipts' = receipts /\ experiments' = experiments
  BY <1>3 DEF HistoriesAgree, ExperimentIds
<1>4. ASSUME NEW seed, Makes(seed), receipts' = receipts PROVE HistoriesAgree'
  <2>1. \A e \in 1..Len(experiments') : e \in ExperimentIds \/ e = worker'.exp
    BY <1>1, <1>4 DEF Makes, ExperimentIds
  <2>2. \A e \in ExperimentIds : experiments'[e] = experiments[e]
    BY <1>4 DEF Makes
  <2>3. Agree(experiments'[worker'.exp].history, receipts)
    BY <1>4 DEF Makes, Agree
  <2>4. QED
    BY <1>4, <2>1, <2>2, <2>3 DEF HistoriesAgree, ExperimentIds
<1>5. ASSUME Records, receipts' = receipts PROVE HistoriesAgree'
  <2> DEFINE n == Len(History)
             after == experiments'[worker.exp].history
  <2>1. /\ worker.exp \in ExperimentIds /\ History \in Seq(Changes) /\ n \in Nat
        /\ Len(experiments') = Len(experiments)
        /\ \A e \in ExperimentIds \ {worker.exp} : experiments'[e] = experiments[e]
        /\ Len(after) = n + 1
        /\ \A i \in 1..n : after[i] = History[i]
        /\ after[n + 1].id = worker.asks.id /\ after[n + 1].to = worker.asks.to
    BY <1>1, <1>5, RecordsHow
  <2>2. Running /\ worker.asks # Nothing /\ AskedIsKnown
    BY <1>5 DEF Records, IInv
  <2>3. \A k \in 1..Len(receipts) :
           receipts[k].req.id = worker.asks.id => receipts[k].req.to = worker.asks.to
    BY <1>1, <2>2, KnownPlaces DEF AskedIsKnown
  <2>4. \A i \in 1..Len(after) : (i \in 1..n /\ after[i] = History[i]) \/ i = n + 1
    BY <2>1
  <2>5. Agree(History, receipts)
    BY <2>1 DEF HistoriesAgree, History
  <2>6. ASSUME NEW i \in 1..Len(after), NEW k \in 1..Len(receipts), receipts[k].req.id = after[i].id
        PROVE  /\ receipts[k].req.to = after[i].to
               /\ \A j \in 1..Len(after) : \A l \in 1..Len(receipts) :
                     i < j /\ receipts[l].req.id = after[j].id => k < l
    <3>1. CASE i = n + 1
      BY <2>1, <2>3, <2>6, <3>1
    <3>2. CASE i \in 1..n /\ after[i] = History[i]
      <4>1. receipts[k].req.to = after[i].to
        BY <2>1, <2>6, <2>5, <3>2 DEF Agree
      <4>2. ASSUME NEW j \in 1..Len(after), NEW l \in 1..Len(receipts),
                   i < j, receipts[l].req.id = after[j].id
            PROVE  k < l
        <5>1. CASE j = n + 1
          BY <2>1, <2>2, <2>6, <3>2, <4>2, <5>1 DEF AskedIsLast
        <5>2. CASE j \in 1..n /\ after[j] = History[j]
          BY <2>1, <2>6, <2>5, <3>2, <4>2, <5>2 DEF Agree
        <5>3. QED
          BY <2>4, <5>1, <5>2
      <4>3. QED
        BY <4>1, <4>2
    <3>3. QED
      BY <2>4, <3>1, <3>2
  <2>7. ASSUME NEW e \in ExperimentIds, e # worker.exp
        PROVE  experiments'[e] = experiments[e]
    BY <2>1, <2>7
  <2>8. Agree(after, receipts)
    BY <2>6 DEF Agree
  <2> HIDE DEF n
  <2>9. \A e \in ExperimentIds : e = worker.exp \/ experiments'[e] = experiments[e]
    BY <2>7
  <2>10. QED
    BY <1>5, <2>1, <2>8, <2>9 DEF HistoriesAgree, ExperimentIds
<1>6. ASSUME NEW req, WorkerAsks(req) PROVE experiments' = experiments
  BY <1>6 DEF WorkerAsks, disk
<1>7. ASSUME NEW seed, Builds(seed) PROVE experiments' = experiments \/ Makes(seed)
  BY <1>1, <1>7, BuildsHow DEF Reuses
<1>8. CASE receipts' = receipts
  BY <1>1, <1>3, <1>4, <1>5, <1>6, <1>7, <1>8, WorkerSteps DEF Keeps
<1>9. QED
  BY <1>1, <1>2, <1>8, ReceiptsChange

LEMMA AskedIsLastKept ==
  IInv /\ NotUp /\ UnsavedAreNew /\ StartsNumbered /\ AskedIsLast /\ [Next]_vars => AskedIsLast'
<1> SUFFICES ASSUME IInv, NotUp, UnsavedAreNew, StartsNumbered, AskedIsLast, [Next]_vars,
                    Running', worker'.asks # Nothing
             PROVE  \A i \in 1..Len(experiments'[worker'.exp].history) :
                    \A k, l \in 1..Len(receipts') :
                       /\ receipts'[k].req.id = experiments'[worker'.exp].history[i].id
                       /\ receipts'[l].req.id = worker'.asks.id
                       => k < l
  BY DEF AskedIsLast, History
<1>1. TypeOK /\ Len(receipts) \in Nat
  BY DEF IInv, TypeOK, WorkerTypeOK
<1>2. ASSUME NEW req, WorkerAsks(req)
      PROVE  \A l \in 1..Len(receipts') : receipts'[l].req.id # worker'.asks.id
  <2>1. receipts' = receipts /\ worker'.asks = req
    BY <1>2 DEF WorkerAsks, disk
  <2>2. QED
    BY <1>1, <1>2, <2>1, NewNumber, KnownPlaces
<1>3. ASSUME NEW job, ThreadSteps(job), Saves(job)
      PROVE  \A i \in 1..Len(experiments'[worker'.exp].history) :
             \A k, l \in 1..Len(receipts') :
                /\ receipts'[k].req.id = experiments'[worker'.exp].history[i].id
                /\ receipts'[l].req.id = worker'.asks.id
                => k < l
  <2>1. /\ ~HasReceipt(job.req.id)
        /\ Len(receipts') = Len(receipts) + 1
        /\ \A k \in 1..Len(receipts) : receipts'[k] = receipts[k]
        /\ receipts'[Len(receipts) + 1].req = job.req
    BY <1>1, <1>3, SavedIsNew
  <2>2. experiments' = experiments /\ worker' = worker /\ Running /\ worker.asks # Nothing
    BY <1>3 DEF ThreadSteps, Running
  <2>3. worker.exp \in ExperimentIds
    BY <1>1, <2>2, ExperimentOf
  <2>4. ASSUME NEW i \in 1..Len(History), NEW k \in 1..Len(receipts'), NEW l \in 1..Len(receipts'),
               receipts'[k].req.id = History[i].id, receipts'[l].req.id = worker.asks.id
        PROVE  k < l
    <3>1. History[i].id # job.req.id
      BY <2>1, <2>3, HistoryHasReceipts DEF History
    <3>2. k \in 1..Len(receipts) /\ receipts'[k] = receipts[k]
      BY <1>1, <2>1, <2>4, <3>1
    <3>3. CASE l = Len(receipts) + 1
      BY <1>1, <3>2, <3>3
    <3>4. CASE l \in 1..Len(receipts)
      <4>1. receipts'[l] = receipts[l]
        BY <2>1, <3>4
      <4>2. QED
        BY <2>2, <2>4, <3>2, <3>4, <4>1 DEF AskedIsLast
    <3>5. QED
      BY <1>1, <2>1, <3>3, <3>4
  <2>5. QED
    BY <2>2, <2>4 DEF History
<1>4. CASE receipts' = receipts /\ Keeps
  BY <1>4 DEF Keeps, AskedIsLast, History
<1>5. ASSUME NEW seed, Builds(seed) PROVE FALSE
  BY <1>1, <1>5, BuildsHow DEF Reuses, Makes
<1>6. ASSUME Records PROVE FALSE
  BY <1>1, <1>6, RecordsHow
<1>7. QED
  BY <1>1, <1>2, <1>3, <1>4, <1>5, <1>6, ReceiptsChange, WorkerSteps

-----------------------------------------------------------------------------
(* Requests and receipts are for ever newer experiments *)

\* What stays in the queue was asked for after its head.
LEMMA TailIsLater ==
  ASSUME IInv, NEW head, FromQueue(head), NEW req \in ToSet(lifecycleQ')
  PROVE  head.id < req.id
<1>1. /\ lifecycleQ \in Seq(Requests) /\ lifecycleQ' = Tail(lifecycleQ) /\ lifecycleQ # <<>>
      /\ head = Head(lifecycleQ) /\ QueueOrdered
  BY DEF IInv, TypeOK, QueuesTypeOK, FromQueue
<1>2. PICK i \in 1..Len(Tail(lifecycleQ)) : req = Tail(lifecycleQ)[i]
  BY <1>1, TailPlaces DEF ToSet
<1>3. /\ head = lifecycleQ[1] /\ 1 \in 1..Len(lifecycleQ) /\ i + 1 \in 1..Len(lifecycleQ)
      /\ req = lifecycleQ[i + 1] /\ 1 < i + 1
  BY <1>1, <1>2, TailPlaces
<1>4. QED
  BY <1>1, <1>3 DEF QueueOrdered

LEMMA PendIsEarlier ==
  IInv /\ NotUp /\ StartsNumbered /\ RequestsOrdered /\ [Next]_vars =>
     (pend' # Nothing /\ OfWorker(pend') => \A req \in ToSet(lifecycleQ') : pend'.id < req.id)
<1> SUFFICES ASSUME IInv, NotUp, StartsNumbered, RequestsOrdered, [Next]_vars,
                    pend' # Nothing, OfWorker(pend'), NEW req \in ToSet(lifecycleQ')
             PROVE  pend'.id < req.id
  OBVIOUS
<1>1. TypeOK /\ Numbered
  BY DEF IInv
<1>2. ASSUME pend' = pend, req \in ToSet(lifecycleQ) PROVE pend'.id < req.id
  BY <1>2 DEF RequestsOrdered
<1>3. ASSUME NEW new, WorkerAsks(new) PROVE pend'.id < req.id
  <2>1. pend' = pend /\ new.id = asked + 1 /\ (req \in ToSet(lifecycleQ) \/ req = new)
    BY <1>1, <1>3, AppendSet DEF WorkerAsks, monitor, TypeOK, QueuesTypeOK
  <2>2. pend \in Known /\ pend.id \in Nat /\ asked \in Nat /\ asked <= MaxRequests /\ MaxRequests \in Nat
    BY <1>1, <2>1, KnownPlaces, KnownAreRequests, RequestIdNat, AskedNat
  <2>3. pend.id <= MaxRequests
    BY <2>1, <2>2 DEF StartsNumbered
  <2>4. pend.id <= asked
    BY <1>1, <2>2, <2>3 DEF Numbered
  <2>5. QED
    BY <1>2, <2>1, <2>2, <2>4
<1>4. ASSUME NEW head, Considers(head) PROVE pend'.id < req.id
  <2>1. req \in ToSet(lifecycleQ)
    BY <1>1, <1>4, ConsideredMoves
  <2>2. CASE pend' = pend
    BY <1>2, <2>1, <2>2
  <2>3. CASE pend' = head
    <3>1. CASE FromPend(head)
      BY <1>2, <2>1, <2>3, <3>1 DEF FromPend
    <3>2. CASE FromQueue(head)
      BY <2>3, <3>2, TailIsLater
    <3>3. CASE FromReceipt(head)
      BY <1>1, <2>3, <3>3, RestoredRequest
    <3>4. QED
      BY <1>4, <3>1, <3>2, <3>3 DEF Considers
  <2>4. QED
    BY <1>1, <1>4, <2>2, <2>3, ConsideredMoves
<1>5. ASSUME NEW job, ThreadSteps(job) PROVE pend'.id < req.id
  BY <1>2, <1>5 DEF ThreadSteps
<1>6. CASE SwitchSymbol \/ Stop \/ Still
  BY <1>2, <1>6 DEF SwitchSymbol, Stop, Still, queues
<1>7. QED
  BY <1>1, <1>3, <1>4, <1>5, <1>6, StepShapes

LEMMA RequestsOrderedKept ==
  IInv /\ NotUp /\ StartsNumbered /\ RequestsFit /\ WorkerFits /\ RequestsOrdered /\ [Next]_vars =>
     RequestsOrdered'
<1> SUFFICES ASSUME IInv, NotUp, StartsNumbered, RequestsFit, WorkerFits, RequestsOrdered, [Next]_vars
             PROVE  RequestsOrdered'
  OBVIOUS
<1>1. TypeOK /\ Numbered /\ DownIsEmpty
  BY DEF IInv
<1>2. ASSUME NEW req \in Waiting', NEW old \in Known', OfWorker(req),
             SameSymbol(old.context, req.context),
             old \in Applied' \/ ~OfWorker(old) \/ old.id < req.id
      PROVE  old.exp <= req.exp
  <2>1. CASE WorkerAsks(req)
    <3>1. /\ Running /\ req.exp = worker.exp /\ req.context = worker.seed.context
          /\ experiments' = experiments
      BY <2>1 DEF WorkerAsks, disk
    <3>2. worker.exp \in ExperimentIds /\ Len(experiments) \in Nat
      BY <1>1, <3>1, ExperimentOf DEF TypeOK, WorkerTypeOK
    <3>3. CASE old \in Known
      <4>1. old.exp \in ExperimentIds /\ SameSymbol(experiments[old.exp].context, old.context)
        BY <3>3 DEF RequestsFit
      <4>2. QED
        BY <1>2, <3>1, <4>1 DEF WorkerFits, SameSymbol
    <3>4. CASE WorkerAsks(old)
      BY <3>1, <3>2, <3>4 DEF WorkerAsks, ExperimentIds
    <3>5. CASE FromReceipt(old)
      BY <1>1, <3>1, <3>5 DEF FromReceipt, DownIsEmpty, Running
    <3>6. QED
      BY <1>1, <3>3, <3>4, <3>5, KnownGrows
  <2>2. CASE req \in Waiting
    <3>1. CASE WorkerAsks(old)
      <4>1. old.id = asked + 1 /\ OfWorker(old) /\ Applied' = Applied
        BY <3>1 DEF WorkerAsks, OfWorker, Applied, disk
      <4>2. req \in Known /\ req.id \in Nat /\ asked \in Nat /\ asked <= MaxRequests /\ MaxRequests \in Nat
        BY <1>1, <2>2, KnownAreRequests, RequestIdNat, AskedNat DEF Known
      <4>3. req.id <= MaxRequests
        BY <1>2, <4>2 DEF StartsNumbered
      <4>4. req.id <= asked
        BY <1>1, <4>2, <4>3 DEF Numbered
      <4>5. old \in Applied
        BY <1>2, <4>1, <4>2, <4>4
      <4>6. old \in Known
        BY <4>5 DEF Known
      <4>7. QED
        BY <3>1, <4>6, NewNumber
    <3>2. CASE FromReceipt(old)
      BY <1>1, <2>2, <3>2 DEF FromReceipt, DownIsEmpty, Waiting, ToSet
    <3>3. CASE old \in Known
      <4>1. CASE old \in Applied \/ ~OfWorker(old) \/ old.id < req.id
        BY <1>2, <2>2, <3>3, <4>1 DEF RequestsOrdered
      <4>2. CASE old \in Applied' /\ old \notin Applied /\ OfWorker(old)
        <5>1. Considers(old) /\ Applies(old)
          <6>1. ASSUME NEW new, WorkerAsks(new) PROVE FALSE
            BY <4>2, <6>1 DEF WorkerAsks, Applied, disk
          <6>2. ASSUME NEW job, ThreadSteps(job) PROVE FALSE
            BY <1>1, <4>2, <6>2, ThreadMoves
          <6>3. ASSUME NEW new, Considers(new) PROVE Considers(old) /\ Applies(old)
            <7>1. new = old
              BY <1>1, <4>2, <6>3, ConsideredMoves
            <7>2. ~Applies(old) => receipting' = receipting /\ receipts' = receipts
              BY <1>1, <6>3, <7>1, ConsideredMoves
            <7>3. QED
              BY <4>2, <6>3, <7>1, <7>2 DEF Applied
          <6>4. SwitchSymbol \/ Stop \/ Still => FALSE
            BY <4>2 DEF SwitchSymbol, Stop, Still, Applied, disk
          <6>5. QED
            BY <1>1, <6>1, <6>2, <6>3, <6>4, StepShapes
        <5>2. req \in ToSet(lifecycleQ')
          BY <1>1, <1>2, <5>1, ConsideredMoves DEF Waiting
        <5>3. old.id < req.id
          <6>1. CASE FromPend(old)
            BY <4>2, <5>2, <6>1 DEF FromPend, RequestsOrdered
          <6>2. CASE FromQueue(old)
            BY <5>2, <6>2, TailIsLater
          <6>3. CASE FromReceipt(old)
            BY <1>1, <4>2, <6>3, RestoredRequest
          <6>4. QED
            BY <5>1, <6>1, <6>2, <6>3 DEF Considers
        <5>4. QED
          BY <1>2, <2>2, <3>3, <5>3 DEF RequestsOrdered
      <4>3. QED
        BY <1>2, <4>1, <4>2
    <3>4. QED
      BY <1>1, <3>1, <3>2, <3>3, KnownGrows
  <2>3. req \in Waiting \/ WorkerAsks(req)
    <3>1. ASSUME NEW new, WorkerAsks(new) PROVE req \in Waiting \/ req = new
      <4>1. ToSet(lifecycleQ') \subseteq ToSet(lifecycleQ) \cup {new}
        BY <1>1, <3>1, AppendSet DEF WorkerAsks, TypeOK, QueuesTypeOK
      <4>2. QED
        BY <1>2, <3>1, <4>1 DEF WorkerAsks, monitor, Waiting
    <3>2. ASSUME NEW new, Considers(new) PROVE req \in Waiting
      BY <1>1, <1>2, <3>2, ConsideredMoves, ConsideredIsWaiting, RestoredRequest
    <3>3. ASSUME NEW job, ThreadSteps(job) PROVE req \in Waiting
      BY <1>1, <1>2, <3>3, ThreadMoves
    <3>4. SwitchSymbol \/ Stop \/ Still => req \in Waiting
      BY <1>2 DEF SwitchSymbol, Stop, Still, Waiting, queues, ToSet
    <3>5. QED
      BY <1>1, <3>1, <3>2, <3>3, <3>4, StepShapes
  <2>4. QED
    BY <2>1, <2>2, <2>3
<1>3. QED
  BY <1>2, PendIsEarlier DEF RequestsOrdered

LEMMA ChronologicalBefore ==
  ASSUME TypeOK, TypeOK', ReceiptsStand, Chronological'
  PROVE  Chronological
<1>1. Len(receipts) \in Nat /\ Len(receipts') \in Nat
  BY DEF TypeOK, WorkerTypeOK
<1>2. \A i \in 1..Len(receipts) : i \in 1..Len(receipts') /\ receipts'[i] = receipts[i]
  BY <1>1 DEF ReceiptsStand
<1>3. \A i, j \in 1..Len(receipts') : i < j => receipts'[i].at < receipts'[j].at
  BY DEF Chronological
<1>4. ASSUME NEW i \in 1..Len(receipts), NEW j \in 1..Len(receipts), i < j
      PROVE  receipts[i].at < receipts[j].at
  <2>1. receipts'[i].at < receipts'[j].at
    BY <1>2, <1>3, <1>4
  <2>2. QED
    BY <1>2, <2>1
<1>5. QED
  BY <1>4 DEF Chronological

LEMMA OverlappedBefore ==
  ASSUME TypeOK, NotUp, [Next]_vars, ~observed'.overlapped
  PROVE  ~observed.overlapped
<1>1. observed \in [receiptLost : BOOLEAN, overlapped : BOOLEAN]
  BY DEF TypeOK, MonitorTypeOK
<1>2. ASSUME NEW req, WorkerAsks(req) PROVE observed' = observed
  BY <1>2 DEF WorkerAsks
<1>3. ASSUME NEW req, Considers(req) PROVE ~observed.overlapped
  <2>1. CASE Applies(req)
    BY <1>1, <2>1 DEF Applies, Apply
  <2>2. CASE ~Applies(req)
    BY <1>3, <2>2, ConsideredMoves
  <2>3. QED
    BY <2>1, <2>2
<1>4. ASSUME NEW job, ThreadSteps(job) PROVE observed'.overlapped = observed.overlapped
  BY <1>1, <1>4 DEF ThreadSteps, Saves, Fails, TakesSeed, Sends
<1>5. SwitchSymbol \/ Stop \/ Still => observed'.overlapped = observed.overlapped
  BY <1>1 DEF SwitchSymbol, Stop, Still
<1>6. QED
  BY <1>2, <1>3, <1>4, <1>5, StepShapes

\* A start goes by the last receipt of the first symbol.
LEMMA RestoredIsNewest ==
  ASSUME IInv, Chronological, ~observed.overlapped, ReceiptsOrdered,
         NEW req, FromReceipt(req), NEW k \in 1..Len(receipts),
         SameSymbol(receipts[k].req.context, req.context)
  PROVE  receipts[k].req.exp <= req.exp
<1>1. TypeOK /\ receipts \in Seq(SavedReceipts)
  BY DEF IInv, TypeOK, WorkerTypeOK
<1>2. PICK j : RestoredFrom(req, j)
  BY <1>1, RestoredRequest
<1>3. receipts[k].req.context.sym = FirstSymbol
  BY <1>1, RestoredRequest DEF SameSymbol, Context
<1>4. j \in 1..Len(receipts) /\ receipts[j].req.exp = req.exp
      /\ receipts[j].req.context.sym = FirstSymbol /\ receipts[k].at <= receipts[j].at
  BY <1>2, <1>3 DEF RestoredFrom
<1>5. receipts[j] \in SavedReceipts /\ receipts[k] \in SavedReceipts
  BY <1>1, <1>4
<1>6. receipts[j].at \in Int /\ receipts[k].at \in Int /\ receipts[j].req.exp \in Int
  BY <1>5, HandoverAssumption DEF SavedReceipts, Requests, Times
<1>7. ~(j < k)
  BY <1>4, <1>6 DEF Chronological
<1>8. CASE k < j
  BY <1>3, <1>4, <1>8 DEF ReceiptsOrdered, SameSymbol
<1>9. QED
  BY <1>4, <1>6, <1>7, <1>8

LEMMA ReceiptsOrderedKept ==
  /\ IInv /\ NotUp /\ StartsNumbered /\ UnsavedAreNew /\ OneThread /\ RestoreIsFirst
  /\ RequestsOrdered /\ ReceiptsOrdered /\ [Next]_vars
  => ReceiptsOrdered'
<1> SUFFICES ASSUME IInv, NotUp, StartsNumbered, UnsavedAreNew, OneThread, RestoreIsFirst,
                    RequestsOrdered, ReceiptsOrdered, [Next]_vars,
                    ~observed'.overlapped, Chronological'
             PROVE  /\ \A k, l \in 1..Len(receipts') :
                          k < l /\ SameSymbol(receipts'[k].req.context, receipts'[l].req.context) =>
                             receipts'[k].req.exp <= receipts'[l].req.exp
                    /\ \A k \in 1..Len(receipts') :
                          /\ \A job \in receipting' :
                                SameSymbol(receipts'[k].req.context, job.req.context) =>
                                   receipts'[k].req.exp <= job.req.exp
                          /\ pend' # Nothing /\ ~OfWorker(pend')
                                /\ SameSymbol(receipts'[k].req.context, pend'.context) =>
                                   receipts'[k].req.exp <= pend'.exp
  BY DEF ReceiptsOrdered, OfWorker
<1>1. TypeOK /\ Chronological /\ ~observed.overlapped
  BY NextTypeOK, ReceiptsStandStep, ChronologicalBefore, OverlappedBefore DEF IInv
<1>2. /\ \A k, l \in 1..Len(receipts) :
            k < l /\ SameSymbol(receipts[k].req.context, receipts[l].req.context) =>
               receipts[k].req.exp <= receipts[l].req.exp
      /\ \A k \in 1..Len(receipts) :
            /\ \A job \in receipting :
                  SameSymbol(receipts[k].req.context, job.req.context) =>
                     receipts[k].req.exp <= job.req.exp
            /\ pend # Nothing /\ ~OfWorker(pend) /\ SameSymbol(receipts[k].req.context, pend.context) =>
                  receipts[k].req.exp <= pend.exp
  BY <1>1 DEF ReceiptsOrdered
<1>3. \A k \in 1..Len(receipts) : receipts[k].req \in Applied /\ receipts[k].req \in Known
  <2>1. receipts \in Seq(SavedReceipts)
    BY <1>1 DEF TypeOK, WorkerTypeOK
  <2>2. \A k \in 1..Len(receipts) : receipts[k] \in ToSet(receipts)
    BY <2>1 DEF ToSet
  <2>3. QED
    BY <2>2 DEF Applied, Known
<1>4. CASE receipts' = receipts /\ receipting' \subseteq receipting /\ (pend' = pend \/ pend' = Nothing)
  BY <1>2, <1>4
<1>5. ASSUME NEW req, Considers(req)
      PROVE  \A k \in 1..Len(receipts) :
                SameSymbol(receipts[k].req.context, req.context) /\ (OfWorker(req) => Applies(req)) =>
                   receipts[k].req.exp <= req.exp
  <2>1. CASE FromReceipt(req)
    BY <1>1, <2>1, RestoredIsNewest
  <2>2. CASE req \in Waiting /\ OfWorker(req)
    BY <1>3, <2>2 DEF RequestsOrdered
  <2>3. CASE ~FromReceipt(req) /\ ~OfWorker(req)
    <3>1. FromPend(req)
      BY <1>5, <2>3, QueueHeadIsOfWorker DEF Considers
    <3>2. QED
      BY <1>2, <2>3, <3>1 DEF FromPend
  <2>4. QED
    BY <1>1, <1>5, <2>1, <2>2, <2>3, ConsideredIsWaiting
<1>6. ASSUME NEW req, Considers(req)
      PROVE  \A k \in 1..Len(receipts') :
                /\ \A job \in receipting' :
                      SameSymbol(receipts'[k].req.context, job.req.context) =>
                         receipts'[k].req.exp <= job.req.exp
                /\ pend' # Nothing /\ ~OfWorker(pend')
                      /\ SameSymbol(receipts'[k].req.context, pend'.context) =>
                         receipts'[k].req.exp <= pend'.exp
  <2>1. receipts' = receipts /\ (pend' # Nothing => pend' = pend \/ pend' = req)
        /\ \A job \in receipting' : job \in receipting \/ (job.req = req /\ Applies(req))
    BY <1>1, <1>6, ConsideredMoves
  <2>2. QED
    BY <1>2, <1>5, <1>6, <2>1
<1>7. ASSUME NEW job, ThreadSteps(job), Saves(job)
      PROVE  /\ \A k, l \in 1..Len(receipts') :
                   k < l /\ SameSymbol(receipts'[k].req.context, receipts'[l].req.context) =>
                      receipts'[k].req.exp <= receipts'[l].req.exp
             /\ \A k \in 1..Len(receipts') :
                   \A j \in receipting' :
                      SameSymbol(receipts'[k].req.context, j.req.context) =>
                         receipts'[k].req.exp <= j.req.exp
  <2>1. /\ Len(receipts) \in Nat /\ Len(receipts') = Len(receipts) + 1
        /\ \A k \in 1..Len(receipts) : receipts'[k] = receipts[k]
        /\ receipts'[Len(receipts) + 1].req = job.req
    BY <1>1, <1>7, SavedIsNew
  <2>2. job \in receipting /\ job \in Jobs
    BY <1>1, <1>7, ThreadMoves
  <2>3. \A j \in receipting' : j.req = job.req
    BY <1>1, <1>7, <2>2, ThreadMoves DEF OneThread
  <2>4. job.req.exp \in Int
    BY <2>2, HandoverAssumption DEF Jobs, Requests
  <2>5. \A k \in 1..Len(receipts') : SameSymbol(receipts'[k].req.context, job.req.context) =>
           receipts'[k].req.exp <= job.req.exp
    <3>1. \A k \in 1..Len(receipts') : k \in 1..Len(receipts) \/ k = Len(receipts) + 1
      BY <2>1
    <3>2. QED
      BY <1>2, <2>1, <2>2, <2>4, <3>1
  <2>6. ASSUME NEW k \in 1..Len(receipts'), NEW l \in 1..Len(receipts'), k < l,
               SameSymbol(receipts'[k].req.context, receipts'[l].req.context)
        PROVE  receipts'[k].req.exp <= receipts'[l].req.exp
    <3>1. CASE l = Len(receipts) + 1
      BY <2>1, <2>5, <2>6, <3>1
    <3>2. CASE l \in 1..Len(receipts)
      <4>1. k \in 1..Len(receipts)
        BY <2>1, <2>6, <3>2
      <4>2. receipts'[k] = receipts[k] /\ receipts'[l] = receipts[l]
        BY <2>1, <3>2, <4>1
      <4>3. QED
        BY <1>2, <2>6, <3>2, <4>1, <4>2
    <3>3. QED
      BY <2>1, <3>1, <3>2
  <2>7. QED
    BY <2>3, <2>5, <2>6
<1>8. ASSUME NEW job, ThreadSteps(job), pend' # Nothing, ~OfWorker(pend') PROVE FALSE
  BY <1>8 DEF ThreadSteps, RestoreIsFirst
<1>9. ASSUME NEW job, ThreadSteps(job), ~Saves(job)
      PROVE  /\ receipts' = receipts
             /\ \A k \in 1..Len(receipts) : \A j \in receipting' :
                   SameSymbol(receipts[k].req.context, j.req.context) =>
                      receipts[k].req.exp <= j.req.exp
  BY <1>1, <1>2, <1>9, ThreadMoves
<1>10. ASSUME NEW req, WorkerAsks(req)
       PROVE  receipts' = receipts /\ receipting' = receipting /\ pend' = pend
  BY <1>10 DEF WorkerAsks, monitor, disk
<1>11. SwitchSymbol \/ Stop \/ Still =>
          receipts' = receipts /\ receipting' \subseteq receipting /\ (pend' = pend \/ pend' = Nothing)
  BY DEF SwitchSymbol, Stop, Still, disk
<1>12. ASSUME NEW req, Considers(req) PROVE receipts' = receipts
  BY <1>12 DEF Considers
<1>13. ASSUME NEW job, ThreadSteps(job)
       PROVE  /\ \A k, l \in 1..Len(receipts') :
                    k < l /\ SameSymbol(receipts'[k].req.context, receipts'[l].req.context) =>
                       receipts'[k].req.exp <= receipts'[l].req.exp
              /\ \A k \in 1..Len(receipts') :
                    /\ \A j \in receipting' :
                          SameSymbol(receipts'[k].req.context, j.req.context) =>
                             receipts'[k].req.exp <= j.req.exp
                    /\ pend' # Nothing /\ ~OfWorker(pend')
                          /\ SameSymbol(receipts'[k].req.context, pend'.context) =>
                             receipts'[k].req.exp <= pend'.exp
  BY <1>2, <1>7, <1>8, <1>9, <1>13
<1>14. QED
  BY <1>1, <1>2, <1>4, <1>6, <1>10, <1>11, <1>12, <1>13, StepShapes

-----------------------------------------------------------------------------
(* Contexts come one after the other *)

LEMMA GenIsNat == \A c \in Contexts : c.gen \in Nat
BY HandoverAssumption DEF Contexts

LEMMA PastGoesOn ==
  ASSUME NEW c \in Contexts, NEW d \in Contexts, NEW e \in Contexts, Past(c, d), Past(d, e)
  PROVE  Past(c, e)
<1>1. c.gen \in Nat /\ d.gen \in Nat /\ e.gen \in Nat
  BY GenIsNat
<1>2. QED
  BY <1>1 DEF Past

LEMMA PastSelf == \A c \in Contexts : Past(c, c)
BY GenIsNat DEF Past

LEMMA PastBoth ==
  ASSUME NEW c \in Contexts, NEW d \in Contexts, Past(c, d), Past(d, c)
  PROVE  c = d
<1>1. c.gen \in Nat /\ d.gen \in Nat
  BY GenIsNat
<1>2. QED
  BY <1>1 DEF Past

\* The context changes only where the symbol is switched, and at a stop.
LEMMA ContextMoves ==
  ASSUME TypeOK, NotUp, [Next]_vars
  PROVE  /\ context' = context \/ SwitchSymbol \/ Stop
         /\ SwitchSymbol => context'.gen = context.gen + 1 /\ context' \in Contexts
         /\ Stop => context' = Context(FirstSymbol, 0)
<1>1. \A req : WorkerAsks(req) \/ Considers(req) => context' = context
  BY DEF WorkerAsks, Considers, monitor
<1>2. \A job : ThreadSteps(job) => context' = context
  BY DEF ThreadSteps
<1>3. Still => context' = context
  BY DEF Still
<1>4. ASSUME SwitchSymbol PROVE context'.gen = context.gen + 1 /\ context' \in Contexts
  <2>1. context.gen + 1 \in 0..MaxSwitches
    BY <1>4, GenIsNat, HandoverAssumption DEF SwitchSymbol, TypeOK, MonitorTypeOK, Contexts
  <2>2. QED
    BY <1>4, <2>1 DEF SwitchSymbol, Context, Contexts
<1>5. QED
  BY <1>1, <1>2, <1>3, <1>4, StepShapes DEF Stop

LEMMA PastStays ==
  ASSUME TypeOK, NotUp, [Next]_vars, ~Stop, NEW c \in Contexts, Past(c, context)
  PROVE  Past(c, context') /\ (SwitchSymbol => c.gen < context'.gen)
<1>1. c.gen \in Nat /\ context.gen \in Nat
  BY GenIsNat DEF TypeOK, MonitorTypeOK
<1>2. QED
  BY <1>1, ContextMoves DEF Past

LEMMA EventContexts ==
  ASSUME TypeOK
  PROVE  /\ context \in Contexts /\ supContext \in Contexts
         /\ publishing # Nothing => publishing.context \in Contexts
         /\ \A i \in 1..Len(eventQ) : eventQ[i].context \in Contexts
<1>1. /\ context \in Contexts /\ supContext \in Contexts
      /\ publishing \in {Nothing} \cup [kind : {"minute"}, context : Contexts]
  BY DEF TypeOK, MonitorTypeOK, QueuesTypeOK
<1>2. eventQ \in Seq(Batches)
  BY DEF TypeOK, QueuesTypeOK
<1>3. \A i \in 1..Len(eventQ) : eventQ[i] \in Batches
  BY <1>2
<1>4. QED
  BY <1>1, <1>3 DEF Batches

\* The event queue, as a queue of batches.
EventsOrdered(q, sup) ==
    \A i \in 1..Len(q) :
       /\ Past(q[i].context, sup)
       /\ q[i].seed # Nothing =>
             /\ q[i].seed.context = q[i].context /\ q[i].context.gen > 0
             /\ \A j \in 1..Len(q) : j < i => q[j].context.gen < q[i].context.gen

LEMMA EventsTail ==
  ASSUME NEW sup, EventsOrdered(eventQ, sup), TypeOK, eventQ # <<>>
  PROVE  EventsOrdered(Tail(eventQ), sup)
<1>1. eventQ \in Seq(Batches)
  BY DEF TypeOK, QueuesTypeOK
<1>2. /\ Len(eventQ) \in Nat /\ Len(Tail(eventQ)) = Len(eventQ) - 1
      /\ \A i \in 1..Len(Tail(eventQ)) : i + 1 \in 1..Len(eventQ) /\ Tail(eventQ)[i] = eventQ[i + 1]
  BY <1>1, TailPlaces
<1>3. \A i, j \in 1..Len(Tail(eventQ)) : j < i => j + 1 < i + 1
  BY <1>2
<1>4. QED
  BY <1>2, <1>3 DEF EventsOrdered

\* What is published comes after all that was.
LEMMA PublishOrdered ==
  ASSUME TypeOK, EventsPast, Publish
  PROVE  /\ Past(supContext', context)
         /\ EventsOrdered(eventQ', supContext')
<1> DEFINE c == publishing.context
           batch == [context |-> c, at |-> CloseOf(now),
                     seed |-> IF c # supContext THEN Seed ELSE Nothing]
<1>1. /\ eventQ \in Seq(Batches) /\ Len(eventQ) \in Nat /\ context \in Contexts
      /\ supContext \in Contexts /\ c \in Contexts
      /\ \A i \in 1..Len(eventQ) : eventQ[i].context \in Contexts
  BY EventContexts DEF TypeOK, QueuesTypeOK, Publish
<1>2. /\ Past(supContext, context) /\ Past(c, context)
      /\ \A i \in 1..Len(eventQ) :
            /\ Past(eventQ[i].context, supContext)
            /\ eventQ[i].seed # Nothing =>
                  /\ eventQ[i].seed.context = eventQ[i].context /\ eventQ[i].context.gen > 0
                  /\ \A j \in 1..Len(eventQ) : j < i => eventQ[j].context.gen < eventQ[i].context.gen
  BY DEF EventsPast, Publish
<1>3. CASE UNCHANGED <<eventQ, supContext>>
  BY <1>2, <1>3 DEF EventsOrdered
<1>4. CASE /\ eventQ' = Append(eventQ, batch) /\ supContext' = c
           /\ c # supContext => context = c
  <2>1. batch \in Batches
    BY <1>1, SeedType, TimesOfMinutes DEF TypeOK, MonitorTypeOK, Batches
  <2>2. \A i \in 1..Len(eventQ) : Past(eventQ[i].context, c)
    BY <1>1, <1>2, <1>4, PastGoesOn
  <2>3. Past(c, c)
    BY <1>1, PastSelf
  <2>4. batch.context = c
    OBVIOUS
  <2>5. batch.seed # Nothing =>
          /\ batch.seed.context = c /\ c.gen > 0
          /\ \A j \in 1..Len(eventQ) : eventQ[j].context.gen < c.gen
    <3>1. SUFFICES ASSUME c # supContext
                   PROVE  /\ Seed.context = c /\ c.gen > 0
                          /\ \A j \in 1..Len(eventQ) : eventQ[j].context.gen < c.gen
      OBVIOUS
    <3>2. context = c /\ Past(supContext, c) /\ supContext.gen \in Nat /\ c.gen \in Nat
      BY <1>1, <1>2, <1>4, <3>1, GenIsNat
    <3>3. supContext.gen < c.gen
      BY <3>1, <3>2 DEF Past
    <3>4. \A j \in 1..Len(eventQ) : eventQ[j].context.gen \in Nat /\ eventQ[j].context.gen <= supContext.gen
      BY <1>1, <1>2, GenIsNat DEF Past
    <3>5. QED
      BY <3>2, <3>3, <3>4 DEF Seed
  <2> HIDE DEF batch, c
  <2>6. /\ Len(eventQ') = Len(eventQ) + 1
        /\ \A i \in 1..Len(eventQ) : eventQ'[i] = eventQ[i]
        /\ eventQ'[Len(eventQ) + 1] = batch
        /\ \A i \in 1..Len(eventQ') : i \in 1..Len(eventQ) \/ i = Len(eventQ) + 1
    BY <1>1, <1>4, <2>1, AppendPlaces
  <2>7. ASSUME NEW i \in 1..Len(eventQ')
        PROVE  /\ Past(eventQ'[i].context, c)
               /\ eventQ'[i].seed # Nothing =>
                     /\ eventQ'[i].seed.context = eventQ'[i].context /\ eventQ'[i].context.gen > 0
                     /\ \A j \in 1..Len(eventQ') : j < i => eventQ'[j].context.gen < eventQ'[i].context.gen
    <3>1. CASE i = Len(eventQ) + 1
      <4>1. \A j \in 1..Len(eventQ') : j < i => j \in 1..Len(eventQ) /\ eventQ'[j] = eventQ[j]
        BY <1>1, <2>6, <3>1
      <4>2. QED
        BY <2>3, <2>4, <2>5, <2>6, <3>1, <4>1
    <3>2. CASE i \in 1..Len(eventQ)
      <4>1. \A j \in 1..Len(eventQ') : j < i => j \in 1..Len(eventQ) /\ eventQ'[j] = eventQ[j]
        BY <1>1, <2>6, <3>2
      <4>2. eventQ'[i] = eventQ[i]
        BY <2>6, <3>2
      <4>3. QED
        BY <1>2, <2>2, <3>2, <4>1, <4>2
    <3>3. QED
      BY <2>6, <3>1, <3>2
  <2>8. QED
    BY <1>2, <1>4, <2>7 DEF EventsOrdered, c
<1>5. QED
  <2>1. \/ UNCHANGED <<eventQ, supContext>>
        \/ /\ eventQ' = Append(eventQ, batch) /\ supContext' = c
           /\ c # supContext => context = c
    BY DEF Publish
  <2>2. QED
    BY <1>3, <1>4, <2>1

LEMMA EventsPastKept == IInv /\ NotUp /\ EventsPast /\ [Next]_vars => EventsPast'
<1> SUFFICES ASSUME IInv, NotUp, EventsPast, [Next]_vars PROVE EventsPast'
  OBVIOUS
<1>1. /\ TypeOK /\ TypeOK' /\ context \in Contexts /\ supContext \in Contexts
      /\ publishing # Nothing => publishing.context \in Contexts
  BY NextTypeOK, EventContexts DEF IInv
<1>2. /\ Past(supContext, context) /\ (publishing # Nothing => Past(publishing.context, context))
      /\ EventsOrdered(eventQ, supContext)
  BY DEF EventsPast, EventsOrdered
<1>3. ASSUME Past(supContext', context'), publishing' # Nothing => Past(publishing'.context, context'),
             EventsOrdered(eventQ', supContext')
      PROVE  EventsPast'
  BY <1>3 DEF EventsPast, EventsOrdered
<1>4. ASSUME context' = context, supContext' = supContext, publishing' = publishing,
             eventQ' = eventQ \/ (eventQ # <<>> /\ eventQ' = Tail(eventQ))
      PROVE  EventsPast'
  BY <1>1, <1>2, <1>3, <1>4, EventsTail
<1>5. ASSUME NEW req, WorkerAsks(req) PROVE EventsPast'
  <2>1. eventQ # <<>>
    BY <1>5 DEF WorkerAsks, AtBatch
  <2>2. QED
    BY <1>4, <1>5, <2>1 DEF WorkerAsks, monitor
<1>6. CASE Minute
  <2>1. UNCHANGED <<context, supContext, eventQ>> /\ publishing' = [kind |-> "minute", context |-> context]
    BY <1>6 DEF Minute, queues
  <2>2. QED
    BY <1>1, <1>2, <1>3, <2>1, PastSelf
<1>7. CASE Publish
  <2>1. context' = context /\ publishing' = Nothing
    BY <1>7 DEF Publish, monitor
  <2>2. QED
    BY <1>1, <1>3, <1>7, <2>1, PublishOrdered
<1>8. CASE SwitchSymbol
  <2>1. ~Stop /\ UNCHANGED <<supContext, eventQ, publishing>>
    BY <1>8 DEF SwitchSymbol, Stop, queues
  <2>2. QED
    BY <1>1, <1>2, <1>3, <2>1, PastStays
<1>9. CASE Stop
  <2>1. supContext' = context' /\ publishing' = Nothing /\ eventQ' = <<>> /\ context' \in Contexts
    BY <1>9, InitialContext DEF Stop
  <2>2. EventsOrdered(eventQ', supContext')
    BY <2>1 DEF EventsOrdered
  <2>3. QED
    BY <1>3, <2>1, <2>2, PastSelf
<1>10. CASE StartWorker
  <2>1. supContext' = context /\ context' = context /\ publishing' = publishing /\ eventQ' = eventQ
    BY <1>10 DEF StartWorker, queues
  <2>2. supContext = context
    BY <1>10 DEF StartWorker, NotUp
  <2>3. QED
    BY <1>2, <1>3, <2>1, <2>2
<1>11. CASE StartMonitor \/ HandleRequest \/ Receipt \/ Work \/ Evaluate \/ SaveReceiptFails
              \/ WorkerDies \/ UNCHANGED vars
  BY <1>4, <1>11 DEF StartMonitor, HandleRequest, Receipt, SaveReceipt, TakeSeed, SendResult, Work,
       WorkerBegins, TakeResult, Drained, TakeBatch, Evaluate, AtBatch, SaveReceiptFails, WorkerDies,
       vars, monitor, queues
<1>12. QED
  BY <1>1, <1>5, <1>6, <1>7, <1>8, <1>9, <1>10, <1>11, StepKinds DEF Otherwise

\* Where the seed of an optimizer comes from.
FromStart(seed) == worker.st = "starting" /\ seed = worker.seed /\ UNCHANGED <<eventQ, resultQ>>
FromAnswer(seed) ==
    /\ Running /\ resultQ # <<>> /\ Head(resultQ).applied /\ seed = Head(resultQ).seed
    /\ resultQ' = Tail(resultQ) /\ eventQ' = eventQ
FromBatch(seed) ==
    /\ Running /\ eventQ # <<>> /\ Head(eventQ).seed # Nothing /\ seed = Head(eventQ).seed
    /\ eventQ' = Tail(eventQ) /\ resultQ' = resultQ
BuildsFrom(seed) == Builds(seed) /\ (FromStart(seed) \/ FromAnswer(seed) \/ FromBatch(seed))

\* The worker starts, or is started still.
Starts == worker'.st = "starting" => worker' = worker \/ StartWorker

LEMMA WorkerStepsFrom ==
  TypeOK /\ [Next]_vars =>
     \/ \E req : WorkerAsks(req)
     \/ Starts /\ ((\E seed \in Seeds : BuildsFrom(seed)) \/ Records \/ (Otherwise /\ Keeps))
<1> SUFFICES ASSUME TypeOK, Otherwise
             PROVE  Starts /\ ((\E seed \in Seeds : BuildsFrom(seed)) \/ Records \/ Keeps)
  BY StepKinds
<1>1. ASSUME NEW seed \in Seeds, BuildOptimizer(seed) PROVE worker'.st # "starting"
  <2>1. PICK e, c : worker' = Optimizer(seed, e, c) \/ worker' = NoWorker
    BY <1>1 DEF BuildOptimizer
  <2>2. QED
    BY <2>1 DEF Optimizer, NoWorker
<1>2. CASE StartMonitor \/ Minute \/ Publish \/ HandleRequest \/ Receipt \/ SwitchSymbol
             \/ SaveReceiptFails \/ UNCHANGED vars
  BY <1>2 DEF StartMonitor, Minute, Publish, HandleRequest, Receipt, SaveReceipt, TakeSeed,
              SendResult, SwitchSymbol, SaveReceiptFails, vars, disk, Running, Keeps, Starts
<1>3. CASE StartWorker \/ Stop \/ WorkerDies
  BY <1>3 DEF StartWorker, Stop, WorkerDies, Running, NoWorker, disk, Keeps, Starts
<1>4. CASE Drained \/ Evaluate
  <2>1. Running /\ worker \in Optimizers /\ experiments' = experiments
    BY <1>4, RunningIsOptimizer DEF Drained, Evaluate, AtBatch, disk
  <2>2. /\ worker'.asks = worker.asks /\ worker'.exp = worker.exp /\ worker'.seed = worker.seed
        /\ worker'.champion = worker.champion /\ worker'.st = "run"
    BY <1>4, <2>1 DEF Drained, Evaluate, Optimizers
  <2>3. QED
    BY <2>1, <2>2 DEF Keeps, Starts
<1>5. CASE WorkerBegins
  <2>1. Builds(worker.seed) /\ worker.seed \in Seeds /\ BuildOptimizer(worker.seed)
    BY <1>5, BuildersBuild DEF Builds
  <2>2. FromStart(worker.seed)
    BY <1>5 DEF WorkerBegins, FromStart, queues
  <2>3. QED
    BY <1>1, <2>1, <2>2 DEF BuildsFrom, Starts
<1>6. CASE TakeResult
  <2>1. Running /\ resultQ # <<>> /\ resultQ' = Tail(resultQ) /\ eventQ' = eventQ /\ worker \in Optimizers
    BY <1>6, RunningIsOptimizer DEF TakeResult
  <2>2. CASE Head(resultQ).applied /\ Builds(Head(resultQ).seed)
    <3>1. FromAnswer(Head(resultQ).seed) /\ Head(resultQ).seed \in Seeds
          /\ BuildOptimizer(Head(resultQ).seed)
      BY <2>1, <2>2 DEF FromAnswer, Builds
    <3>2. QED
      BY <1>1, <2>2, <3>1 DEF BuildsFrom, Starts
  <2>3. CASE Records
    BY <2>1, <2>3 DEF Records, Starts, Optimizers
  <2>4. CASE Keeps /\ ~(Head(resultQ).applied /\ Builds(Head(resultQ).seed)) /\ ~Records
    <3>1. worker'.st # "starting"
      <4>1. Head(resultQ).applied => Head(resultQ).seed \in Seeds
        BY <2>1, ResultType
      <4>2. \/ worker' = [worker EXCEPT !.champion = worker.asks.to, !.asks = Nothing]
            \/ worker' = [worker EXCEPT !.asks = Nothing]
            \/ worker' = worker
            \/ Head(resultQ).applied /\ BuildOptimizer(Head(resultQ).seed)
        BY <1>6 DEF TakeResult, Unasked
      <4>3. worker.st = "run"
        BY <2>1 DEF Running
      <4>4. QED
        BY <1>1, <2>1, <4>1, <4>2, <4>3 DEF Optimizers
    <3>2. QED
      BY <2>4, <3>1 DEF Starts
  <2>5. QED
    BY <1>6, <2>2, <2>3, <2>4, BuildersBuild
<1>7. CASE TakeBatch
  <2>1. Running /\ eventQ # <<>> /\ eventQ' = Tail(eventQ) /\ resultQ' = resultQ /\ worker \in Optimizers
    BY <1>7, RunningIsOptimizer DEF TakeBatch
  <2>2. CASE Head(eventQ).seed # Nothing /\ Builds(Head(eventQ).seed)
    <3>1. FromBatch(Head(eventQ).seed) /\ Head(eventQ).seed \in Seeds
          /\ BuildOptimizer(Head(eventQ).seed)
      BY <2>1, <2>2 DEF FromBatch, Builds
    <3>2. QED
      BY <1>1, <2>2, <3>1 DEF BuildsFrom, Starts
  <2>3. CASE Head(eventQ).seed = Nothing /\ Keeps
    <3>1. worker'.st = "run"
      BY <1>7, <2>1, <2>3 DEF TakeBatch, Optimizers
    <3>2. QED
      BY <2>3, <3>1 DEF Starts
  <2>4. QED
    BY <1>7, <2>2, <2>3, BuildersBuild
<1>8. QED
  BY <1>2, <1>3, <1>4, <1>5, <1>6, <1>7 DEF Otherwise, Work

LEMMA RequestContexts ==
  ASSUME TypeOK
  PROVE  /\ \A req \in Known \cup Asking : req \in Requests /\ req.context \in Contexts
         /\ \A job \in receipting : job.req \in Known
<1>1. \A req \in Asking : req \in Requests
  BY RunningIsOptimizer DEF Asking, Optimizers
<1>2. \A req \in Requests : req.context \in Contexts
  BY DEF Requests
<1>3. QED
  BY <1>1, <1>2, KnownAreRequests, KnownPlaces

LEMMA RequestsPastKept ==
  IInv /\ NotUp /\ RequestsPast /\ SeedsPast /\ [Next]_vars => RequestsPast'
<1> SUFFICES ASSUME IInv, NotUp, RequestsPast, SeedsPast, [Next]_vars PROVE RequestsPast'
  OBVIOUS
<1>1. TypeOK /\ context \in Contexts
  BY DEF IInv, TypeOK, MonitorTypeOK
<1>2. CASE Stop
  <2>1. Waiting' = {} /\ receipting' = {} /\ Asking' = {}
    BY <1>2 DEF Stop, Waiting, Asking, Running, NoWorker, ToSet
  <2>2. QED
    BY <2>1 DEF RequestsPast
<1>3. ASSUME ~Stop,
             \A req \in Waiting' \cup Asking' :
                req \in Known \cup Asking /\ Past(req.context, context),
             \A job \in receipting' :
                job.req \in Known \cup Asking /\ Past(job.req.context, context)
      PROVE  RequestsPast'
  BY <1>1, <1>3, PastStays, RequestContexts DEF RequestsPast
<1>4. ASSUME NEW req, WorkerAsks(req) PROVE RequestsPast'
  <2>1. Running /\ context' = context /\ req.context = worker.seed.context /\ receipting' = receipting
    BY <1>4 DEF WorkerAsks, monitor
  <2>2. Past(req.context, context)
    BY <2>1 DEF SeedsPast, Running
  <2>3. Waiting' \subseteq Waiting \cup {req} /\ Asking' \subseteq {req}
    <3>1. ToSet(lifecycleQ') \subseteq ToSet(lifecycleQ) \cup {req}
      BY <1>1, <1>4, AppendSet DEF WorkerAsks, TypeOK, QueuesTypeOK
    <3>2. QED
      BY <1>4, <3>1 DEF WorkerAsks, monitor, Waiting, Asking
  <2>4. QED
    BY <2>1, <2>2, <2>3 DEF RequestsPast
<1>5. ASSUME NEW req, Considers(req) PROVE RequestsPast'
  <2>1. context' = context /\ worker' = worker
    BY <1>5 DEF Considers
  <2>2. Past(req.context, context)
    <3>1. CASE req \in Waiting
      BY <3>1 DEF RequestsPast
    <3>2. CASE FromReceipt(req)
      <4>1. req.context = context
        BY <1>1, <3>2, RestoredRequest DEF FromReceipt, NotUp
      <4>2. QED
        BY <1>1, <4>1, PastSelf
    <3>3. QED
      BY <1>1, <1>5, <3>1, <3>2, ConsideredIsWaiting
  <2>3. Asking' = Asking
    BY <2>1 DEF Asking, Running
  <2>4. QED
    BY <1>1, <1>5, <2>1, <2>2, <2>3, ConsideredMoves DEF RequestsPast
<1>6. ASSUME NEW job, ThreadSteps(job) PROVE RequestsPast'
  <2>1. context' = context /\ worker' = worker
    BY <1>6 DEF ThreadSteps
  <2>2. Asking' = Asking
    BY <2>1 DEF Asking, Running
  <2>3. QED
    BY <1>1, <1>6, <2>1, <2>2, ThreadMoves DEF RequestsPast
<1>7. CASE SwitchSymbol
  <2>1. ~Stop /\ Waiting' \subseteq Waiting /\ receipting' = receipting /\ Asking' = Asking
    BY <1>7 DEF SwitchSymbol, Stop, Waiting, Asking, Running, queues
  <2>2. QED
    BY <1>1, <1>3, <2>1, RequestContexts DEF RequestsPast, Known
<1>8. CASE Still /\ ~(\E req : WorkerAsks(req))
  <2>1. context' = context /\ Waiting' = Waiting /\ receipting' = receipting
    BY <1>8 DEF Still, Waiting
  <2>2. Asking' \subseteq Asking
    BY <1>1, <1>8, AskingGrows
  <2>3. QED
    BY <2>1, <2>2 DEF RequestsPast
<1>9. QED
  BY <1>1, <1>2, <1>4, <1>5, <1>6, <1>7, <1>8, StepShapes

LEMMA SeedContexts ==
  ASSUME TypeOK
  PROVE  /\ \A job \in receipting : job.stage = "put" => job.seed.context \in Contexts
         /\ \A i \in 1..Len(resultQ) : resultQ[i].applied => resultQ[i].seed.context \in Contexts
         /\ worker.st \in {"starting", "run"} => worker.seed.context \in Contexts
<1>1. \A seed \in Seeds : seed.context \in Contexts
  BY DEF Seeds
<1>2. QED
  BY <1>1, RunningIsOptimizer, StartingHasSeed
     DEF TypeOK, MonitorTypeOK, QueuesTypeOK, Running, Optimizers

LEMMA SeedsPastKept ==
  IInv /\ NotUp /\ EventsPast /\ RequestsPast /\ SeedsPast /\ [Next]_vars => SeedsPast'
<1> SUFFICES ASSUME IInv, NotUp, EventsPast, RequestsPast, SeedsPast, [Next]_vars PROVE SeedsPast'
  OBVIOUS
<1>1. TypeOK /\ context \in Contexts /\ resultQ \in Seq(Results) /\ Len(resultQ) \in Nat
  BY DEF IInv, TypeOK, MonitorTypeOK, QueuesTypeOK
<1>2. CASE Stop
  BY <1>2 DEF Stop, SeedsPast, NoWorker
<1>3. ASSUME ~Stop
      PROVE  \A job \in receipting' : job.stage = "put" =>
                Past(job.req.context, job.seed.context) /\ Past(job.seed.context, context')
  <2>1. ASSUME NEW c \in Contexts, Past(c, context) PROVE Past(c, context')
    BY <1>1, <1>3, <2>1, PastStays
  <2>2. \A job \in receipting : job.stage = "put" =>
           Past(job.req.context, job.seed.context) /\ Past(job.seed.context, context')
    BY <1>1, <2>1, SeedContexts DEF SeedsPast
  <2>3. CASE receipting' = receipting
    BY <2>2, <2>3
  <2>4. ASSUME NEW req, Considers(req)
        PROVE  \A job \in receipting' : job \in receipting \/ job.stage = "save"
    BY <1>1, <2>4, ConsideredMoves
  <2>5. ASSUME NEW job, ThreadSteps(job), NEW j \in receipting', j.stage = "put"
        PROVE  Past(j.req.context, j.seed.context) /\ Past(j.seed.context, context')
    <3>1. CASE j \in receipting
      BY <2>2, <2>5, <3>1
    <3>2. CASE TakesSeed(job) /\ j = [job EXCEPT !.stage = "put", !.seed = Seed]
      <4>1. job \in Jobs /\ job \in receipting
        BY <1>1, <2>5, ThreadMoves
      <4>2. j.req = job.req /\ j.seed.context = context
        BY <3>2, <4>1 DEF Jobs, Seed
      <4>3. QED
        BY <1>1, <2>1, <4>1, <4>2, PastSelf DEF RequestsPast
    <3>3. CASE Saves(job) /\ j = [job EXCEPT !.stage = "seed"]
      BY <1>1, <2>5, <3>3, ThreadMoves DEF Jobs
    <3>4. QED
      BY <2>5, <3>1, <3>2, <3>3 DEF ThreadSteps, Saves, Fails, TakesSeed, Sends, Becomes
  <2>6. \A req : WorkerAsks(req) => receipting' = receipting
    BY DEF WorkerAsks
  <2>7. SwitchSymbol \/ Still => receipting' = receipting
    BY DEF SwitchSymbol, Still
  <2>8. QED
    BY <1>1, <1>3, <2>2, <2>3, <2>4, <2>5, <2>6, <2>7, StepShapes
<1>4. ASSUME ~Stop
      PROVE  \A i \in 1..Len(resultQ') : resultQ'[i].applied => Past(resultQ'[i].seed.context, context')
  <2>1. ASSUME NEW c \in Contexts, Past(c, context) PROVE Past(c, context')
    BY <1>1, <1>4, <2>1, PastStays
  <2>2. \A i \in 1..Len(resultQ) : resultQ[i].applied => Past(resultQ[i].seed.context, context')
    BY <1>1, <2>1, SeedContexts DEF SeedsPast
  <2>3. CASE resultQ' = resultQ
    BY <2>2, <2>3
  <2>4. CASE resultQ # <<>> /\ resultQ' = Tail(resultQ)
    BY <1>1, <2>2, <2>4, TailPlaces
  <2>5. ASSUME NEW x \in Results, resultQ' = Append(resultQ, x),
               x.applied => Past(x.seed.context, context')
        PROVE  \A i \in 1..Len(resultQ') : resultQ'[i].applied => Past(resultQ'[i].seed.context, context')
    BY <1>1, <2>2, <2>5, AppendPlaces
  <2>6. ASSUME NEW job, ThreadSteps(job), Sends(job), life = "up"
        PROVE  \E x \in Results : resultQ' = Append(resultQ, x) /\ Past(x.seed.context, context')
    <3>1. job \in receipting /\ job \in Jobs /\ job.stage = "put"
      BY <1>1, <2>6, ThreadMoves DEF Sends
    <3>2. job.seed \in Seeds /\ job.req \in Requests
      BY <1>1, <3>1 DEF TypeOK, MonitorTypeOK, Jobs
    <3> DEFINE x == [id |-> job.req.id, applied |-> TRUE, seed |-> job.seed]
    <3>3. x \in Results
      BY <3>2 DEF Results, Requests
    <3>4. resultQ' = Append(resultQ, x) /\ x.seed = job.seed
      BY <2>6 DEF Sends
    <3>5. Past(job.seed.context, context')
      BY <1>1, <2>1, <3>1, SeedContexts DEF SeedsPast
    <3> HIDE DEF x
    <3>6. QED
      BY <3>3, <3>4, <3>5
  <2>7. ASSUME NEW req, Considers(req)
        PROVE  resultQ' = resultQ \/ \E x \in Results : resultQ' = Append(resultQ, x) /\ ~x.applied
    BY <2>7 DEF Considers, Applies, Holds, Refuses
  <2>8. ASSUME NEW job, ThreadSteps(job), ~(Sends(job) /\ life = "up") PROVE resultQ' = resultQ
    BY <2>8 DEF ThreadSteps, Saves, Fails, TakesSeed, Sends
  <2>9. \A req : WorkerAsks(req) => resultQ' = resultQ
    BY DEF WorkerAsks
  <2>10. SwitchSymbol \/ Still => resultQ' = resultQ \/ (resultQ # <<>> /\ resultQ' = Tail(resultQ))
    BY DEF SwitchSymbol, Still, queues
  <2>11. QED
    BY <1>1, <1>4, <2>3, <2>4, <2>5, <2>6, <2>7, <2>8, <2>9, <2>10, StepShapes
<1>5. ASSUME ~Stop
      PROVE  /\ worker'.st \in {"starting", "run"} => Past(worker'.seed.context, context')
             /\ worker'.st = "starting" => worker'.seed.context = Context(FirstSymbol, 0)
  <2>1. ASSUME NEW c \in Contexts, Past(c, context) PROVE Past(c, context')
    BY <1>1, <1>5, <2>1, PastStays
  <2>2. worker.st \in {"starting", "run"} => Past(worker.seed.context, context')
    BY <1>1, <2>1, SeedContexts DEF SeedsPast
  <2>3. ASSUME NEW req, WorkerAsks(req) PROVE worker'.seed = worker.seed /\ worker.st = "run" /\ worker'.st = "run"
    BY <2>3 DEF WorkerAsks, Running, Optimizers
  <2>4. CASE StartWorker
    <3>1. worker' = [st |-> "starting", seed |-> Seed] /\ context = Context(FirstSymbol, 0)
          /\ context' = context
      BY <2>4 DEF StartWorker, NotUp
    <3>2. QED
      BY <1>1, <3>1, PastSelf DEF Seed
  <2>5. CASE Starts /\ worker'.st = "starting" /\ ~StartWorker
    BY <2>2, <2>5 DEF Starts, SeedsPast
  <2>6. ASSUME Running'
        PROVE  (\E req : WorkerAsks(req)) \/ Past(worker'.seed.context, context')
    <3>1. ASSUME NEW seed \in Seeds, BuildsFrom(seed) PROVE Past(worker'.seed.context, context')
      <4>1. worker'.seed = seed /\ context' = context
        BY <1>1, <2>6, <3>1, BuildsHow DEF BuildsFrom, Builds, Reuses, Makes, monitor
      <4>2. CASE FromStart(seed)
        BY <4>1, <4>2 DEF FromStart, SeedsPast
      <4>3. CASE FromAnswer(seed)
        <5>1. Head(resultQ) = resultQ[1] /\ 1 \in 1..Len(resultQ)
          BY <1>1, <4>3, TailPlaces DEF FromAnswer
        <5>2. QED
          BY <4>1, <4>3, <5>1 DEF FromAnswer, SeedsPast
      <4>4. CASE FromBatch(seed)
        <5>1. Head(eventQ) = eventQ[1] /\ 1 \in 1..Len(eventQ)
          BY <1>1, <4>4, TailPlaces DEF FromBatch, TypeOK, QueuesTypeOK
        <5>2. seed.context = eventQ[1].context /\ Past(eventQ[1].context, supContext)
              /\ Past(supContext, context)
          BY <4>4, <5>1 DEF FromBatch, EventsPast
        <5>3. QED
          BY <1>1, <4>1, <5>1, <5>2, EventContexts, PastGoesOn
      <4>5. QED
        BY <3>1, <4>2, <4>3, <4>4 DEF BuildsFrom
    <3>2. Records => Past(worker'.seed.context, context')
      BY <1>1, <2>2, RecordsHow DEF Records, Running
    <3>3. Keeps => Past(worker'.seed.context, context')
      BY <2>2, <2>6 DEF Keeps, Running
    <3>4. QED
      BY <1>1, <3>1, <3>2, <3>3, WorkerStepsFrom
  <2>7. QED
    BY <1>1, <2>2, <2>3, <2>4, <2>5, <2>6, WorkerStepsFrom, ContextMoves DEF Running
<1>6. QED
  BY <1>2, <1>3, <1>4, <1>5 DEF SeedsPast

-----------------------------------------------------------------------------
(* The first life *)

LEMMA LifeMoves ==
  ASSUME TypeOK, NotUp, [Next]_vars
  PROVE  /\ life' = life \/ Stop \/ (StartMonitor /\ life = "down" /\ life' = "restored")
            \/ (StartWorker /\ life = "restored" /\ life' = "up")
         /\ restarts' = restarts \/ (Stop /\ restarts' = restarts + 1)
<1>1. ASSUME NEW req, WorkerAsks(req) PROVE life' = life /\ restarts' = restarts
  BY <1>1 DEF WorkerAsks, monitor
<1>2. CASE StartMonitor \/ StartWorker \/ Stop
  BY <1>2 DEF StartMonitor, StartWorker, Stop
<1>3. CASE Minute \/ Publish \/ HandleRequest \/ Receipt \/ Work \/ Evaluate \/ SwitchSymbol
             \/ SaveReceiptFails \/ WorkerDies \/ UNCHANGED vars
  BY <1>3 DEF Minute, Publish, HandleRequest, Receipt, SaveReceipt, TakeSeed, SendResult, Work,
       WorkerBegins, TakeResult, Drained, TakeBatch, Evaluate, SwitchSymbol, SaveReceiptFails,
       WorkerDies, vars, monitor
<1>4. QED
  BY <1>1, <1>2, <1>3, StepKinds DEF Otherwise

LEMMA ReceiptPlaces ==
  ASSUME TypeOK
  PROVE  /\ Len(receipts) \in Nat
         /\ \A k \in 1..Len(receipts) :
               /\ receipts[k].req \in Applied /\ receipts[k].req \in Known
               /\ receipts[k].req \in Requests /\ receipts[k].req.context \in Contexts
<1>1. receipts \in Seq(SavedReceipts) /\ Len(receipts) \in Nat
  BY DEF TypeOK, WorkerTypeOK
<1>2. \A k \in 1..Len(receipts) : receipts[k] \in ToSet(receipts)
  BY <1>1 DEF ToSet
<1>3. QED
  BY <1>1, <1>2, RequestContexts DEF Applied, Known

\* In its first life the process has nothing to restore.
LEMMA NothingRestored ==
  ASSUME TypeOK, FirstLife, restarts = 0, NEW req, FromReceipt(req)
  PROVE  FALSE
<1>1. receipts = <<>>
  BY DEF FirstLife, FromReceipt
<1>2. PICK k : RestoredFrom(req, k)
  BY RestoredRequest
<1>3. QED
  BY <1>1, <1>2 DEF RestoredFrom

LEMMA FirstLifeKept ==
  IInv /\ NotUp /\ UnsavedAreNew /\ OneThread /\ RequestsPast /\ FirstLife /\ [Next]_vars => FirstLife'
<1> SUFFICES ASSUME IInv, NotUp, UnsavedAreNew, OneThread, RequestsPast, FirstLife, [Next]_vars,
                    restarts' = 0
             PROVE  /\ life' # "up" => receipts' = <<>> /\ receipting' = {}
                    /\ \A req \in Known' : OfWorker(req)
                    /\ \A k \in 1..Len(receipts') : Past(receipts'[k].req.context, context')
                    /\ ~observed'.overlapped =>
                          /\ \A k, l \in 1..Len(receipts') : k < l =>
                                receipts'[k].req.context.gen <= receipts'[l].req.context.gen
                          /\ \A k \in 1..Len(receipts') : \A job \in receipting' :
                                receipts'[k].req.context.gen <= job.req.context.gen
  BY DEF FirstLife, OfWorker
<1>1. /\ TypeOK /\ restarts \in Nat /\ context \in Contexts
      /\ restarts = 0 /\ ~Stop
  <2>1. TypeOK /\ restarts \in Nat /\ context \in Contexts
    BY BoundsNat DEF IInv, TypeOK, MonitorTypeOK
  <2>2. QED
    BY <2>1, LifeMoves DEF Stop
<1>2. \A req : ~FromReceipt(req)
  BY <1>1, NothingRestored
<1>3. /\ life # "up" => receipts = <<>> /\ receipting = {}
      /\ \A req \in Known : OfWorker(req)
      /\ \A k \in 1..Len(receipts) : Past(receipts[k].req.context, context)
      /\ ~observed.overlapped =>
            /\ \A k, l \in 1..Len(receipts) : k < l =>
                  receipts[k].req.context.gen <= receipts[l].req.context.gen
            /\ \A k \in 1..Len(receipts) : \A job \in receipting :
                  receipts[k].req.context.gen <= job.req.context.gen
  BY <1>1 DEF FirstLife
<1>4. \A req \in Known' : OfWorker(req)
  BY <1>1, <1>2, <1>3, KnownGrows DEF WorkerAsks, OfWorker
<1>5. life' # "up" => receipts' = <<>> /\ receipting' = {}
  <2> SUFFICES ASSUME life' # "up" PROVE receipts' = <<>> /\ receipting' = {}
    OBVIOUS
  <2>1. life # "up" /\ receipts = <<>> /\ receipting = {}
    BY <1>1, <1>3, LifeMoves
  <2>2. \A job : ~ThreadSteps(job)
    BY <2>1 DEF ThreadSteps
  <2>3. \A req : ~Considers(req)
    BY <1>2, <2>1 DEF Considers, FromPend, FromQueue
  <2>4. \A req : WorkerAsks(req) => receipting' = receipting
    BY DEF WorkerAsks
  <2>5. SwitchSymbol \/ Still => receipting' = receipting
    BY DEF SwitchSymbol, Still
  <2>6. QED
    BY <1>1, <2>1, <2>2, <2>3, <2>4, <2>5, ReceiptsChange, StepShapes
<1>6. ASSUME NEW job, ThreadSteps(job), Saves(job)
      PROVE  /\ context' = context /\ Past(job.req.context, context) /\ job \in receipting
             /\ Len(receipts) \in Nat /\ Len(receipts') = Len(receipts) + 1
             /\ \A k \in 1..Len(receipts) : receipts'[k] = receipts[k]
             /\ receipts'[Len(receipts) + 1].req = job.req
             /\ job.req.context.gen \in Nat
             /\ ~observed.overlapped => \A j \in receipting' : j.req = job.req
  <2>1. job \in receipting /\ context' = context
    BY <1>6 DEF ThreadSteps
  <2>2. job.req.context.gen \in Nat
    BY <1>1, <2>1, RequestContexts, GenIsNat DEF Known
  <2>3. ~observed.overlapped => \A j \in receipting' : j.req = job.req
    BY <1>1, <1>6, <2>1, ThreadMoves DEF OneThread
  <2>4. QED
    BY <1>1, <1>6, <2>1, <2>2, <2>3, SavedIsNew DEF RequestsPast
<1>7. \A k \in 1..Len(receipts') : Past(receipts'[k].req.context, context')
  <2>1. CASE receipts' = receipts
    BY <1>1, <1>3, <2>1, ReceiptPlaces, PastStays
  <2>2. ASSUME NEW job, ThreadSteps(job), Saves(job), NEW k \in 1..Len(receipts')
        PROVE  Past(receipts'[k].req.context, context')
    <3>1. k \in 1..Len(receipts) \/ k = Len(receipts) + 1
      BY <1>6, <2>2
    <3>2. QED
      BY <1>3, <1>6, <2>2, <3>1
  <2>3. QED
    BY <1>1, <2>1, <2>2, ReceiptsChange
<1>8. ASSUME ~observed'.overlapped
      PROVE  /\ \A k, l \in 1..Len(receipts') : k < l =>
                   receipts'[k].req.context.gen <= receipts'[l].req.context.gen
             /\ \A k \in 1..Len(receipts') : \A job \in receipting' :
                   receipts'[k].req.context.gen <= job.req.context.gen
  <2>1. ~observed.overlapped
    BY <1>1, <1>8, OverlappedBefore
  <2>2. /\ \A k, l \in 1..Len(receipts) : k < l =>
              receipts[k].req.context.gen <= receipts[l].req.context.gen
        /\ \A k \in 1..Len(receipts) : \A job \in receipting :
              receipts[k].req.context.gen <= job.req.context.gen
    BY <1>3, <2>1
  <2>3. CASE receipts' = receipts /\ receipting' = receipting
    BY <2>2, <2>3
  <2>4. ASSUME NEW req, Considers(req)
        PROVE  /\ receipts' = receipts
               /\ \A k \in 1..Len(receipts) : \A job \in receipting' :
                     receipts[k].req.context.gen <= job.req.context.gen
    <3>1. /\ receipts' = receipts
          /\ \A job \in receipting' : job \in receipting \/ (job.req = req /\ Applies(req))
      BY <1>1, <2>4, ConsideredMoves
    <3>2. Applies(req) => \A k \in 1..Len(receipts) : receipts[k].req.context.gen <= req.context.gen
      BY <1>3 DEF Applies, Rejected, Past
    <3>3. QED
      BY <2>2, <3>1, <3>2
  <2>5. ASSUME NEW job, ThreadSteps(job), Saves(job)
        PROVE  /\ \A k, l \in 1..Len(receipts') : k < l =>
                     receipts'[k].req.context.gen <= receipts'[l].req.context.gen
               /\ \A k \in 1..Len(receipts') : \A j \in receipting' :
                     receipts'[k].req.context.gen <= j.req.context.gen
    <3>1. /\ Len(receipts) \in Nat /\ Len(receipts') = Len(receipts) + 1
          /\ \A k \in 1..Len(receipts) : receipts'[k] = receipts[k]
          /\ receipts'[Len(receipts) + 1].req = job.req
          /\ job.req.context.gen \in Nat /\ job \in receipting
          /\ \A j \in receipting' : j.req = job.req
      BY <1>6, <2>1, <2>5
    <3>2. \A k \in 1..Len(receipts') : k \in 1..Len(receipts) \/ k = Len(receipts) + 1
      BY <3>1
    <3>3. \A k \in 1..Len(receipts') : receipts'[k].req.context.gen <= job.req.context.gen
      BY <2>2, <3>1, <3>2
    <3>4. ASSUME NEW k \in 1..Len(receipts'), NEW l \in 1..Len(receipts'), k < l
          PROVE  receipts'[k].req.context.gen <= receipts'[l].req.context.gen
      <4>1. CASE l = Len(receipts) + 1
        BY <3>1, <3>3, <4>1
      <4>2. CASE l \in 1..Len(receipts)
        <5>1. k \in 1..Len(receipts)
          BY <3>1, <3>4, <4>2
        <5>2. QED
          BY <2>2, <3>1, <3>4, <4>2, <5>1
      <4>3. QED
        BY <3>2, <4>1, <4>2
    <3>5. QED
      BY <3>1, <3>3, <3>4
  <2>6. ASSUME NEW job, ThreadSteps(job), ~Saves(job)
        PROVE  /\ receipts' = receipts
               /\ \A k \in 1..Len(receipts) : \A j \in receipting' :
                     receipts[k].req.context.gen <= j.req.context.gen
    BY <1>1, <2>2, <2>6, ThreadMoves
  <2>7. \A req : WorkerAsks(req) => receipts' = receipts /\ receipting' = receipting
    BY DEF WorkerAsks, disk
  <2>8. SwitchSymbol \/ Still => receipts' = receipts /\ receipting' = receipting
    BY DEF SwitchSymbol, Still, disk
  <2>9. QED
    BY <1>1, <2>2, <2>3, <2>4, <2>5, <2>6, <2>7, <2>8, StepShapes
<1>9. QED
  BY <1>4, <1>5, <1>7, <1>8

-----------------------------------------------------------------------------
(* A context the worker has not reached *)

Publishes(batch) ==
    /\ batch \in Batches /\ eventQ' = Append(eventQ, batch) /\ supContext' = batch.context
    /\ UNCHANGED <<context, formal>>
    /\ batch.seed = Nothing => batch.context = supContext
    /\ batch.seed # Nothing => batch.context = context /\ batch.seed = Seed /\ supContext # context

LEMMA EventsStep ==
  ASSUME TypeOK, NotUp, [Next]_vars, ~Stop
  PROVE  \/ /\ supContext' = supContext
            /\ eventQ' = eventQ \/ (eventQ # <<>> /\ eventQ' = Tail(eventQ))
         \/ \E batch : Publishes(batch)
<1>1. CASE Publish
  <2> DEFINE c == publishing.context
             batch == [context |-> c, at |-> CloseOf(now),
                       seed |-> IF c # supContext THEN Seed ELSE Nothing]
  <2>1. CASE UNCHANGED <<eventQ, supContext>>
    BY <2>1
  <2>2. CASE /\ eventQ' = Append(eventQ, batch) /\ supContext' = c
             /\ c # supContext => context = c
    <3>1. batch \in Batches
      <4>1. c \in Contexts /\ CloseOf(now) \in Times /\ Seed \in Seeds
        BY <1>1, SeedType, EventContexts, TimesOfMinutes DEF TypeOK, MonitorTypeOK, Publish
      <4>2. QED
        BY <4>1 DEF Batches
    <3>2. UNCHANGED <<context, formal>>
      BY <1>1 DEF Publish, monitor
    <3>3. Seed # Nothing
      BY DEF Seed, Nothing
    <3>4. /\ batch.context = c
          /\ batch.seed = Nothing => c = supContext
          /\ batch.seed # Nothing => c = context /\ batch.seed = Seed /\ supContext # context
      BY <2>2, <3>3
    <3>5. Publishes(batch)
      <4> HIDE DEF batch
      <4>1. QED
        BY <2>2, <3>1, <3>2, <3>4 DEF Publishes
    <3>6. QED
      BY <3>5
  <2>3. QED
    BY <1>1, <2>1, <2>2 DEF Publish
<1>2. CASE StartWorker
  BY <1>2 DEF StartWorker, NotUp, queues
<1>3. CASE StartMonitor \/ Minute \/ HandleRequest \/ Receipt \/ Work \/ Evaluate \/ SaveReceiptFails
              \/ SwitchSymbol \/ WorkerDies \/ UNCHANGED vars
  BY <1>3 DEF StartMonitor, Minute, HandleRequest, Receipt, SaveReceipt, TakeSeed, SendResult, Work,
       WorkerBegins, TakeResult, Drained, TakeBatch, Evaluate, AtBatch, SaveReceiptFails, SwitchSymbol,
       WorkerDies, vars, queues
<1>4. ASSUME NEW req, WorkerAsks(req)
      PROVE  supContext' = supContext /\ eventQ # <<>> /\ eventQ' = Tail(eventQ)
  BY <1>4 DEF WorkerAsks, AtBatch
<1>5. QED
  BY <1>1, <1>2, <1>3, <1>4, StepKinds DEF Otherwise

LEMMA UnresetBefore ==
  ASSUME TypeOK, NotUp, [Next]_vars, ~Stop, context' = context, Unreset'
  PROVE  Unreset
<1>1. eventQ \in Seq(Batches) /\ Len(eventQ) \in Nat
  BY DEF TypeOK, QueuesTypeOK
<1>2. CASE /\ supContext' = supContext
           /\ eventQ' = eventQ \/ (eventQ # <<>> /\ eventQ' = Tail(eventQ))
  <2>1. \A i \in 1..Len(eventQ') : \E j \in 1..Len(eventQ) : eventQ'[i] = eventQ[j]
    BY <1>1, <1>2, TailPlaces
  <2>2. QED
    BY <1>2, <2>1 DEF Unreset
<1>3. ASSUME NEW batch, Publishes(batch) PROVE Unreset
  <2>1. CASE batch.seed # Nothing
    BY <1>3, <2>1 DEF Publishes, Unreset
  <2>2. CASE batch.seed = Nothing
    <3>1. supContext' = supContext
      BY <1>3, <2>2 DEF Publishes
    <3>2. \A i \in 1..Len(eventQ') : eventQ'[i].seed # Nothing =>
             i \in 1..Len(eventQ) /\ eventQ'[i] = eventQ[i]
      BY <1>1, <1>3, <2>2, AppendPlaces DEF Publishes
    <3>3. QED
      BY <3>1, <3>2 DEF Unreset
  <2>3. QED
    BY <2>1, <2>2
<1>4. QED
  BY <1>2, <1>3, EventsStep

LEMMA FormalChanges ==
  ASSUME TypeOK, NotUp, [Next]_vars, ~Stop
  PROVE  formal' = formal \/ \E req : Considers(req) /\ Applies(req)
<1>1. \A req : WorkerAsks(req) => formal' = formal
  BY DEF WorkerAsks, monitor
<1>2. \A req : Considers(req) /\ ~Applies(req) => formal' = formal
  BY ConsideredMoves
<1>3. \A job : ThreadSteps(job) => formal' = formal
  BY DEF ThreadSteps
<1>4. SwitchSymbol \/ Still => formal' = formal
  BY DEF SwitchSymbol, Still
<1>5. QED
  BY <1>1, <1>2, <1>3, <1>4, StepShapes

LEMMA KnownPast ==
  ASSUME TypeOK, RequestsPast, FirstLife, restarts = 0, NEW req \in Known \cup Asking
  PROVE  Past(req.context, context)
<1>1. CASE req \in Waiting \cup Asking
  BY <1>1 DEF RequestsPast
<1>2. CASE req \in {job.req : job \in receipting}
  BY <1>2 DEF RequestsPast
<1>3. CASE req \in {r.req : r \in ToSet(receipts)}
  <2>1. PICK k \in 1..Len(receipts) : req = receipts[k].req
    BY <1>3 DEF ToSet, TypeOK, WorkerTypeOK
  <2>2. QED
    BY <2>1 DEF FirstLife
<1>4. QED
  BY <1>1, <1>2, <1>3 DEF Known, Applied

LEMMA ContextIsFreshKept ==
  /\ IInv /\ NotUp /\ EventsPast /\ RequestsPast /\ SeedsPast /\ FirstLife
  /\ ContextIsFresh /\ [Next]_vars
  => ContextIsFresh'
<1> SUFFICES ASSUME IInv, NotUp, EventsPast, RequestsPast, SeedsPast, FirstLife, ContextIsFresh,
                    [Next]_vars, restarts' = 0
             PROVE  UnresetIsUnasked' /\ ResetIsCurrent'
  BY DEF ContextIsFresh
<1>1. /\ TypeOK /\ restarts = 0 /\ ~Stop /\ context \in Contexts /\ supContext \in Contexts
      /\ eventQ \in Seq(Batches) /\ Len(eventQ) \in Nat
  <2>1. TypeOK /\ restarts \in Nat
    BY BoundsNat DEF IInv
  <2>2. QED
    BY <2>1, LifeMoves, EventContexts DEF Stop, TypeOK, QueuesTypeOK
<1>2. /\ Unreset => \A req \in Known \cup Asking : req.context # context
      /\ \A i \in 1..Len(eventQ) : eventQ[i].seed # Nothing /\ eventQ[i].context = context =>
            eventQ[i].seed.base = formal
  BY <1>1 DEF ContextIsFresh, UnresetIsUnasked, ResetIsCurrent
<1>3. ASSUME Unreset', NEW req \in Known' \cup Asking' PROVE req.context # context'
  <2>1. req \in Known \cup Asking \/ WorkerAsks(req)
    BY <1>1, <1>3, KnownGrows, AskingGrows, NothingRestored
  <2>2. CASE SwitchSymbol
    <3>1. req \in Known \cup Asking
      <4>1. context'.gen = context.gen + 1 /\ context.gen \in Nat
        BY <1>1, <2>2, ContextMoves, GenIsNat
      <4>2. ~WorkerAsks(req)
        BY <4>1 DEF WorkerAsks, monitor
      <4>3. QED
        BY <2>1, <4>2
    <3>2. req.context \in Contexts /\ Past(req.context, context)
      BY <1>1, <3>1, KnownPast, RequestContexts
    <3>3. req.context.gen < context'.gen /\ req.context.gen \in Nat
      BY <1>1, <2>2, <3>2, PastStays, GenIsNat
    <3>4. QED
      BY <3>3
  <2>3. CASE context' = context /\ req \in Known \cup Asking
    BY <1>1, <1>2, <1>3, <2>3, UnresetBefore
  <2>4. CASE WorkerAsks(req)
    <3>1. /\ eventQ # <<>> /\ eventQ' = Tail(eventQ) /\ supContext' = supContext /\ context' = context
          /\ Head(eventQ).context = worker.seed.context /\ req.context = worker.seed.context
      BY <2>4 DEF WorkerAsks, AtBatch, monitor
    <3>2. /\ Head(eventQ) = eventQ[1] /\ 1 \in 1..Len(eventQ)
          /\ \A i \in 1..Len(Tail(eventQ)) : i + 1 \in 1..Len(eventQ) /\ Tail(eventQ)[i] = eventQ[i + 1]
                                             /\ 1 < i + 1
      BY <1>1, <3>1, TailPlaces
    <3>3. SUFFICES ASSUME req.context = context PROVE FALSE
      BY <3>1
    <3>4. eventQ[1].context = context /\ context.gen \in Nat
      BY <1>1, <3>1, <3>2, <3>3, GenIsNat
    <3>5. supContext = context
      BY <1>1, <3>2, <3>4, PastBoth DEF EventsPast
    <3>6. PICK i \in 1..Len(eventQ') : eventQ'[i].seed # Nothing /\ eventQ'[i].context = context
      BY <1>3, <3>1, <3>5 DEF Unreset
    <3>7. eventQ[i + 1].seed # Nothing /\ eventQ[i + 1].context = context /\ i + 1 \in 1..Len(eventQ)
          /\ 1 < i + 1
      BY <3>1, <3>2, <3>6
    <3>8. eventQ[1].context.gen < eventQ[i + 1].context.gen
      BY <3>2, <3>7 DEF EventsPast
    <3>9. QED
      BY <3>4, <3>7, <3>8
  <2>5. QED
    BY <1>1, <2>1, <2>2, <2>3, <2>4, ContextMoves
<1>4. ASSUME NEW i \in 1..Len(eventQ'), eventQ'[i].seed # Nothing, eventQ'[i].context = context'
      PROVE  eventQ'[i].seed.base = formal'
  <2>1. ASSUME NEW j \in 1..Len(eventQ), eventQ[j].seed # Nothing, eventQ[j].context = context'
        PROVE  eventQ[j].seed.base = formal'
    <3>1. Past(eventQ[j].context, context) /\ eventQ[j].context \in Contexts
      BY <1>1, EventContexts, PastGoesOn DEF EventsPast
    <3>2. context' = context
      <4>1. SwitchSymbol => eventQ[j].context.gen < context'.gen /\ context'.gen \in Nat
        BY <1>1, <3>1, PastStays, ContextMoves, GenIsNat
      <4>2. QED
        BY <1>1, <2>1, <4>1, ContextMoves
    <3>3. eventQ[j].seed.base = formal /\ Unreset
      BY <1>2, <2>1, <3>2 DEF Unreset
    <3>4. ASSUME NEW req, Considers(req), Applies(req) PROVE FALSE
      <4>1. req \in Known /\ req.context = context
        BY <1>1, <3>4, ConsideredIsWaiting, NothingRestored DEF Known, Applies, Rejected
      <4>2. QED
        BY <1>2, <3>3, <4>1
    <3>5. QED
      BY <1>1, <3>3, <3>4, FormalChanges
  <2>2. CASE eventQ' = eventQ \/ (eventQ # <<>> /\ eventQ' = Tail(eventQ))
    <3>1. PICK j \in 1..Len(eventQ) : eventQ'[i] = eventQ[j]
      BY <1>1, <1>4, <2>2, TailPlaces
    <3>2. QED
      BY <1>4, <2>1, <3>1
  <2>3. ASSUME NEW batch, Publishes(batch) PROVE eventQ'[i].seed.base = formal'
    <3>1. (i \in 1..Len(eventQ) /\ eventQ'[i] = eventQ[i]) \/ eventQ'[i] = batch
      BY <1>1, <2>3, AppendPlaces DEF Publishes
    <3>2. batch.seed # Nothing => batch.seed.base = formal'
      BY <2>3 DEF Publishes, Seed
    <3>3. QED
      BY <1>4, <2>1, <3>1, <3>2
  <2>4. QED
    BY <1>1, <2>2, <2>3, EventsStep
<1>5. UnresetIsUnasked'
  BY <1>3 DEF UnresetIsUnasked
<1>6. ResetIsCurrent'
  BY <1>4 DEF ResetIsCurrent
<1>7. QED
  BY <1>5, <1>6

-----------------------------------------------------------------------------
(* Receipt threads and answers speak for the policy in force *)

\* What is sound was sound in this life, and nothing has gone wrong meanwhile.
LEMMA SoundBefore ==
  ASSUME IInv, NotUp, [Next]_vars, ~Stop, Sound'
  PROVE  /\ Sound
         /\ \A job : ThreadSteps(job) => ~Fails(job)
         /\ \A req : Considers(req) /\ Applies(req) => receipting = {}
<1>1. /\ TypeOK /\ TypeOK' /\ observed \in [receiptLost : BOOLEAN, overlapped : BOOLEAN]
      /\ observed' = NothingOdd /\ Chronological' /\ OwnGeneration'
  BY NextTypeOK DEF IInv, TypeOK, MonitorTypeOK, Sound
<1>2. ~observed'.overlapped /\ ~observed'.receiptLost
  BY <1>1 DEF NothingOdd
<1>3. \A job : ThreadSteps(job) => ~Fails(job)
  BY <1>1, <1>2 DEF Fails
<1>4. \A req : Considers(req) /\ Applies(req) => receipting = {}
  BY <1>1, <1>2, ConsideredMoves
<1>5. observed'.receiptLost = observed.receiptLost
  <2>1. \A req : WorkerAsks(req) => observed' = observed
    BY DEF WorkerAsks
  <2>2. \A req : Considers(req) => observed'.receiptLost = observed.receiptLost
    BY <1>1, ConsideredMoves DEF Applies, Apply
  <2>3. ASSUME NEW job, ThreadSteps(job) PROVE observed' = observed
    <3>1. ~Fails(job)
      BY <1>3, <2>3
    <3>2. QED
      BY <2>3, <3>1 DEF ThreadSteps, Saves, TakesSeed, Sends
  <2>4. SwitchSymbol \/ Still => observed' = observed
    BY DEF SwitchSymbol, Still
  <2>5. QED
    BY <1>1, <2>1, <2>2, <2>3, <2>4, StepShapes
<1>6. observed = NothingOdd
  BY <1>1, <1>2, <1>5, OverlappedBefore DEF NothingOdd
<1>7. Chronological
  BY <1>1, ReceiptsStandStep, ChronologicalBefore DEF IInv
<1>8. OwnGeneration
  <2>1. context.gen \in Nat
    BY <1>1, GenIsNat DEF TypeOK, MonitorTypeOK
  <2>2. restarts' = restarts /\ (context'.gen = context.gen \/ context'.gen = context.gen + 1)
    BY <1>1, LifeMoves, ContextMoves
  <2>3. QED
    BY <1>1, <2>1, <2>2 DEF OwnGeneration
<1>9. QED
  BY <1>3, <1>4, <1>6, <1>7, <1>8 DEF Sound

\* What is left of the only receipt thread.
LEMMA ThreadGoesOn ==
  ASSUME TypeOK, OneThread, ~observed.overlapped, NEW job, ThreadSteps(job), NEW j \in receipting'
  PROVE  /\ j.req = job.req /\ ~Sends(job)
         /\ \/ Saves(job) /\ j.stage = "seed"
            \/ TakesSeed(job) /\ j.stage = "put" /\ j.seed = Seed
<1>1. job \in Jobs /\ receipting = {job}
  BY ThreadMoves DEF OneThread
<1>2. j.req = job.req /\ ~Sends(job) /\ ~Fails(job) /\ j.stage # "save"
  BY <1>1, ThreadMoves
<1>3. CASE Saves(job)
  <2> DEFINE next == [job EXCEPT !.stage = "seed"]
  <2>1. receipting' = {next}
    BY <1>1, <1>3 DEF Saves, Becomes
  <2>2. next.stage = "seed"
    BY <1>1 DEF Jobs
  <2>3. QED
    BY <1>2, <1>3, <2>1, <2>2
<1>4. CASE TakesSeed(job)
  <2> DEFINE next == [job EXCEPT !.stage = "put", !.seed = Seed]
  <2>1. receipting' = {next}
    BY <1>1, <1>4 DEF TakesSeed, Becomes
  <2>2. next.stage = "put" /\ next.seed = Seed
    BY <1>1 DEF Jobs
  <2>3. QED
    BY <1>2, <1>4, <2>1, <2>2
<1>5. QED
  BY <1>2, <1>3, <1>4 DEF ThreadSteps

LEMMA ThreadsSpeakKept ==
  IInv /\ NotUp /\ UnsavedAreNew /\ OneThread /\ ThreadsSpeak /\ [Next]_vars => ThreadsSpeak'
<1> SUFFICES ASSUME IInv, NotUp, UnsavedAreNew, OneThread, ThreadsSpeak, [Next]_vars, Sound',
                    NEW j \in receipting'
             PROVE  /\ j.req.to = formal'
                    /\ j.stage # "save" => receipts' # <<>> /\ receipts'[Len(receipts')].req = j.req
                    /\ j.stage = "put" => j.seed.base = formal'
  BY DEF ThreadsSpeak, LastReceipt
<1>1. TypeOK /\ ~Stop
  BY DEF IInv, Stop
<1>2. /\ Sound /\ ~observed.overlapped
      /\ \A job : ThreadSteps(job) => ~Fails(job)
      /\ \A req : Considers(req) /\ Applies(req) => receipting = {}
  BY <1>1, SoundBefore DEF Sound, NothingOdd
<1>3. \A job \in receipting :
         /\ job.req.to = formal
         /\ job.stage # "save" => receipts # <<>> /\ receipts[Len(receipts)].req = job.req
         /\ job.stage = "put" => job.seed.base = formal
  BY <1>2 DEF ThreadsSpeak, LastReceipt
<1> DEFINE Speaks == /\ j.req.to = formal'
                     /\ j.stage # "save" => receipts' # <<>> /\ receipts'[Len(receipts')].req = j.req
                     /\ j.stage = "put" => j.seed.base = formal'
<1>4. CASE j \in receipting /\ formal' = formal /\ receipts' = receipts
  BY <1>3, <1>4
<1>5. ASSUME NEW req, Considers(req) PROVE Speaks
  <2>1. CASE Applies(req)
    <3>1. receipting = {} /\ formal' = req.to
      BY <1>1, <1>2, <1>5, <2>1, ConsideredMoves
    <3>2. j.req = req /\ j.stage = "save"
      BY <1>1, <1>5, <3>1, ConsideredMoves
    <3>3. QED
      BY <3>1, <3>2
  <2>2. CASE ~Applies(req)
    BY <1>1, <1>4, <1>5, <2>2, ConsideredMoves
  <2>3. QED
    BY <2>1, <2>2
<1>6. ASSUME NEW job, ThreadSteps(job) PROVE Speaks
  <2>1. job \in receipting /\ job.req.to = formal /\ formal' = formal /\ j.req = job.req
    BY <1>1, <1>2, <1>3, <1>6, ThreadGoesOn DEF ThreadSteps
  <2>2. CASE Saves(job) /\ j.stage = "seed"
    <3>1. Len(receipts) \in Nat /\ Len(receipts') = Len(receipts) + 1
          /\ receipts'[Len(receipts) + 1].req = job.req
      BY <1>1, <1>6, <2>2, SavedIsNew
    <3>2. QED
      BY <2>1, <2>2, <3>1
  <2>3. CASE TakesSeed(job) /\ j.stage = "put" /\ j.seed = Seed
    <3>1. receipts' = receipts /\ job.stage = "seed" /\ j.seed.base = formal
      BY <2>3 DEF TakesSeed, Seed
    <3>2. QED
      BY <1>3, <2>1, <2>3, <3>1
  <2>4. QED
    BY <1>1, <1>2, <1>6, <2>2, <2>3, ThreadGoesOn
<1>7. \A req : WorkerAsks(req) => receipting' = receipting /\ formal' = formal /\ receipts' = receipts
  BY DEF WorkerAsks, monitor, disk
<1>8. SwitchSymbol \/ Still => receipting' = receipting /\ formal' = formal /\ receipts' = receipts
  BY DEF SwitchSymbol, Still, disk
<1>9. QED
  BY <1>1, <1>4, <1>5, <1>6, <1>7, <1>8, StepShapes

LEMMA AnswersSpeakKept ==
  /\ IInv /\ NotUp /\ OneThread /\ SeedsPast /\ ThreadsSpeak /\ AnswersSpeak /\ [Next]_vars
  => AnswersSpeak'
<1> SUFFICES ASSUME IInv, NotUp, OneThread, SeedsPast, ThreadsSpeak, AnswersSpeak, [Next]_vars,
                    Sound', receipting' = {}, NEW i \in 1..Len(resultQ'), resultQ'[i].applied,
                    \A j \in 1..Len(resultQ') : i < j => ~resultQ'[j].applied
             PROVE  LET last == receipts'[Len(receipts')].req
                    IN  /\ receipts' # <<>> /\ last.id = resultQ'[i].id /\ last.to = formal'
                        /\ resultQ'[i].seed.base = formal'
                        /\ Past(last.context, resultQ'[i].seed.context)
  BY DEF AnswersSpeak, LastReceipt, Past
<1>1. TypeOK /\ ~Stop /\ resultQ \in Seq(Results) /\ Len(resultQ) \in Nat
  BY DEF IInv, Stop, TypeOK, QueuesTypeOK
<1>2. /\ Sound /\ ~observed.overlapped
      /\ \A job : ThreadSteps(job) => ~Fails(job)
  BY <1>1, SoundBefore DEF Sound, NothingOdd
<1> DEFINE last == receipts[Len(receipts)].req
           Speaks(answer) == /\ receipts # <<>> /\ last.id = answer.id /\ last.to = formal
                             /\ answer.seed.base = formal
                             /\ Past(last.context, answer.seed.context)
           Goal == LET new == receipts'[Len(receipts')].req
                   IN  /\ receipts' # <<>> /\ new.id = resultQ'[i].id /\ new.to = formal'
                       /\ resultQ'[i].seed.base = formal'
                       /\ Past(new.context, resultQ'[i].seed.context)
<1>3. ASSUME receipts' = receipts, formal' = formal, receipting' = receipting,
             NEW m \in 1..Len(resultQ), resultQ'[i] = resultQ[m],
             \A j \in 1..Len(resultQ) : m < j => ~resultQ[j].applied
      PROVE  Goal
  <2>1. Speaks(resultQ[m])
    BY <1>2, <1>3 DEF AnswersSpeak, LastReceipt
  <2>2. QED
    BY <1>3, <2>1
<1>4. ASSUME receipts' = receipts, formal' = formal, receipting' = receipting,
             resultQ' = resultQ \/ (resultQ # <<>> /\ resultQ' = Tail(resultQ))
      PROVE  Goal
  <2>1. CASE resultQ' = resultQ
    BY <1>3, <1>4, <2>1
  <2>2. CASE resultQ # <<>> /\ resultQ' = Tail(resultQ)
    <3>1. /\ i + 1 \in 1..Len(resultQ) /\ resultQ'[i] = resultQ[i + 1] /\ Len(resultQ') = Len(resultQ) - 1
          /\ \A j \in 1..Len(resultQ') : resultQ'[j] = resultQ[j + 1]
      BY <1>1, <2>2, TailPlaces
    <3>2. \A j \in 1..Len(resultQ) : i + 1 < j =>
             j - 1 \in 1..Len(resultQ') /\ i < j - 1 /\ resultQ'[j - 1] = resultQ[j]
      BY <1>1, <3>1
    <3>3. \A j \in 1..Len(resultQ) : i + 1 < j => ~resultQ[j].applied
      BY <3>2
    <3>4. QED
      BY <1>3, <1>4, <3>1, <3>3
  <2>3. QED
    BY <1>4, <2>1, <2>2
<1>5. ASSUME NEW req, Considers(req) PROVE Goal
  <2>1. ~Applies(req)
    BY DEF Applies, Apply
  <2>2. receipts' = receipts /\ formal' = formal /\ receipting' = receipting
    BY <1>1, <1>5, <2>1, ConsideredMoves
  <2>3. CASE resultQ' = resultQ
    BY <1>4, <2>2, <2>3
  <2>4. ASSUME NEW x \in Results, ~x.applied, resultQ' = Append(resultQ, x) PROVE Goal
    <3>1. /\ i \in 1..Len(resultQ) /\ resultQ'[i] = resultQ[i]
          /\ \A j \in 1..Len(resultQ) : j \in 1..Len(resultQ') /\ resultQ'[j] = resultQ[j]
      BY <1>1, <2>4, AppendPlaces
    <3>2. QED
      BY <1>3, <2>2, <3>1
  <2>5. QED
    BY <1>5, <2>1, <2>3, <2>4 DEF Considers, Holds, Refuses
<1>6. ASSUME NEW job, ThreadSteps(job) PROVE Goal
  <2>1. Sends(job) /\ job \in receipting /\ job \in Jobs /\ job.stage = "put"
    <3>1. Saves(job) \/ TakesSeed(job) => receipting' # {}
      BY DEF Saves, TakesSeed, Becomes
    <3>2. QED
      BY <1>1, <1>2, <1>6, <3>1, ThreadMoves DEF ThreadSteps, Sends
  <2>2. /\ receipts # <<>> /\ last = job.req /\ job.req.to = formal /\ job.seed.base = formal
        /\ Past(job.req.context, job.seed.context)
    BY <1>2, <2>1 DEF ThreadsSpeak, LastReceipt, SeedsPast
  <2>3. receipts' = receipts /\ formal' = formal
    BY <1>6, <2>1 DEF Sends, ThreadSteps
  <2>4. life = "up"
    BY <2>1 DEF Sends, NotUp
  <2> DEFINE x == [id |-> job.req.id, applied |-> TRUE, seed |-> job.seed]
  <2>5. x \in Results /\ x.applied /\ x.id = job.req.id /\ x.seed = job.seed
    <3>1. job.seed \in Seeds /\ job.req \in Requests
      BY <1>1, <2>1 DEF TypeOK, MonitorTypeOK, Jobs
    <3>2. QED
      BY <3>1 DEF Results, Requests
  <2>6. resultQ' = Append(resultQ, x)
    BY <2>1, <2>4 DEF Sends
  <2> HIDE DEF x, last
  <2>7. resultQ'[i] = x
    <3>1. /\ Len(resultQ') = Len(resultQ) + 1 /\ resultQ'[Len(resultQ) + 1] = x
          /\ i \in 1..Len(resultQ) \/ i = Len(resultQ) + 1
      BY <1>1, <2>5, <2>6, AppendPlaces
    <3>2. i = Len(resultQ) + 1
      BY <1>1, <2>5, <3>1
    <3>3. QED
      BY <3>1, <3>2
  <2>8. QED
    BY <2>2, <2>3, <2>5, <2>7 DEF last
<1>7. \A req : WorkerAsks(req) =>
         receipting' = receipting /\ formal' = formal /\ receipts' = receipts /\ resultQ' = resultQ
  BY DEF WorkerAsks, monitor, disk
<1>8. SwitchSymbol =>
         receipting' = receipting /\ formal' = formal /\ receipts' = receipts /\ resultQ' = resultQ
  BY DEF SwitchSymbol, disk, queues
<1>9. CASE Still
  BY <1>4, <1>9 DEF Still
<1>10. QED
  BY <1>1, <1>4, <1>5, <1>6, <1>7, <1>8, <1>9, StepShapes

-----------------------------------------------------------------------------
(* The worker's experiment follows the policy in force *)

\* An applied answer that is taken is recorded, or has an optimizer built.
LEMMA TakesAnswer ==
  ASSUME TypeOK, Otherwise, ~Stop, resultQ # <<>>, resultQ' = Tail(resultQ), Head(resultQ).applied
  PROVE  Records \/ \E seed \in Seeds : BuildsFrom(seed)
<1>1. resultQ \in Seq(Results) /\ Len(resultQ) \in Nat /\ Len(resultQ') = Len(resultQ) - 1
  BY TailPlaces DEF TypeOK, QueuesTypeOK
<1>2. resultQ' # resultQ /\ \A x : resultQ' # Append(resultQ, x)
  <2>1. ASSUME NEW x, resultQ' = Append(resultQ, x) PROVE FALSE
    <3>1. Len(resultQ') = Len(resultQ) + 1
      <4> DEFINE S == Results \cup {x}
      <4>1. resultQ \in Seq(S) /\ x \in S
        <5>1. \A i \in 1..Len(resultQ) : resultQ[i] \in S
          BY <1>1
        <5>2. QED
          BY <1>1, <5>1
      <4> HIDE DEF S
      <4>2. QED
        BY <2>1, <4>1, AppendPlaces
    <3>2. QED
      BY <1>1, <3>1
  <2>2. resultQ' # resultQ
    <3> DEFINE n == Len(resultQ)
               m == Len(resultQ')
    <3>1. n \in Nat /\ m = n - 1
      BY <1>1
    <3>2. m # n
      <4> HIDE DEF m, n
      <4>1. QED
        BY <3>1
    <3>3. QED
      BY <3>2, Zenon
  <2>3. QED
    BY <2>1, <2>2
<1>3. TakeResult
  BY <1>2 DEF Otherwise, StartMonitor, StartWorker, Minute, Publish, HandleRequest, Receipt, SaveReceipt,
       TakeSeed, SendResult, Work, WorkerBegins, Drained, TakeBatch, Evaluate, SwitchSymbol,
       SaveReceiptFails, WorkerDies, vars, queues
<1> DEFINE seed == Head(resultQ).seed
<1>4. /\ Running /\ seed \in Seeds /\ eventQ' = eventQ
      /\ UNCHANGED <<monitor, receipting, publishing, supContext, eventQ, lifecycleQ, receipts,
                     asked, observed, restarts>>
  BY <1>3, ResultType DEF TakeResult
<1>5. CASE Resolved(Head(resultQ))
  <2>1. /\ RecordChampion(worker.asks)
        /\ worker' = [worker EXCEPT !.champion = worker.asks.to, !.asks = Nothing]
    BY <1>3, <1>5 DEF TakeResult
  <2>2. QED
    BY <1>4, <1>5, <2>1 DEF Records, Resolved
<1>6. CASE ~Resolved(Head(resultQ))
  <2>1. BuildOptimizer(seed)
    BY <1>3, <1>6 DEF TakeResult, Unasked
  <2>2. BuildsFrom(seed)
    <3> HIDE DEF seed
    <3>1. Builds(seed)
      BY <1>4, <2>1 DEF Builds
    <3>2. QED
      BY <1>4, <3>1 DEF BuildsFrom, FromAnswer, seed
  <2>3. QED
    BY <1>4, <2>2
<1>7. QED
  BY <1>5, <1>6

\* Before an answer is taken nothing was heard but it.
LEMMA TakenIsLast ==
  ASSUME TypeOK, AnswersSpeak, Sound, receipting = {}, resultQ # <<>>, Head(resultQ).applied,
         resultQ' = Tail(resultQ), \A i \in 1..Len(resultQ') : ~resultQ'[i].applied
  PROVE  /\ Len(receipts) \in 1..Len(receipts) /\ LastReceipt = receipts[Len(receipts)].req
         /\ LastReceipt.id = Head(resultQ).id /\ LastReceipt.to = formal
         /\ Head(resultQ).seed.base = formal
         /\ Past(LastReceipt.context, Head(resultQ).seed.context)
<1>1. /\ resultQ \in Seq(Results) /\ Len(resultQ) \in Nat \ {0} /\ Head(resultQ) = resultQ[1]
      /\ Len(resultQ') = Len(resultQ) - 1
      /\ \A i \in 1..Len(resultQ') : resultQ'[i] = resultQ[i + 1]
  BY TailPlaces DEF TypeOK, QueuesTypeOK
<1>2. \A j \in 1..Len(resultQ) : 1 < j => j - 1 \in 1..Len(resultQ') /\ resultQ'[j - 1] = resultQ[j]
  BY <1>1
<1>3. 1 \in 1..Len(resultQ) /\ \A j \in 1..Len(resultQ) : 1 < j => ~resultQ[j].applied
  <2>1. ASSUME NEW j \in 1..Len(resultQ), 1 < j PROVE ~resultQ[j].applied
    <3>1. j - 1 \in 1..Len(resultQ') /\ resultQ'[j - 1] = resultQ[j]
      BY <1>2, <2>1
    <3>2. QED
      BY <3>1
  <2>2. QED
    BY <1>1, <2>1
<1>4. /\ receipts # <<>> /\ LastReceipt.id = resultQ[1].id /\ LastReceipt.to = formal
      /\ resultQ[1].seed.base = formal /\ Past(LastReceipt.context, resultQ[1].seed.context)
  BY <1>1, <1>3 DEF AnswersSpeak
<1>5. Len(receipts) \in 1..Len(receipts)
  BY <1>4 DEF TypeOK, WorkerTypeOK
<1>6. QED
  BY <1>1, <1>4, <1>5 DEF LastReceipt

\* The receipts are for experiments on disk, of their symbols.
LEMMA ReceiptsFit ==
  ASSUME TypeOK, RequestsFit, NEW k \in 1..Len(receipts)
  PROVE  LET req == receipts[k].req
         IN  /\ req.exp \in ExperimentIds /\ req.exp \in Nat
             /\ SameSymbol(experiments[req.exp].context, req.context)
             /\ OfWorker(req) => experiments[req.exp].context = req.context
<1>1. receipts[k].req \in Known
  BY ReceiptPlaces
<1>2. QED
  BY <1>1 DEF RequestsFit, ExperimentIds

\* The experiment an optimizer takes up again is that of the receipts of its
\* symbol since its own.
LEMMA ReusedReceipts ==
  ASSUME TypeOK, RequestsFit, ReceiptsOrdered, Sound, NEW seed, Reuses(seed),
         NEW k \in 1..Len(receipts), receipts[k].req.exp = worker'.exp,
         NEW l \in 1..Len(receipts), SameSymbol(receipts[l].req.context, seed.context), k <= l
  PROVE  receipts[l].req.exp = worker'.exp
<1> DEFINE e == worker'.exp
           f == receipts[l].req.exp
<1>1. /\ experiments[e].context = seed.context
      /\ \A g \in ExperimentIds : SameSymbol(experiments[g].context, seed.context) => g <= e
  BY DEF Reuses
<1>2. /\ f \in ExperimentIds /\ f \in Nat /\ e \in Nat
      /\ SameSymbol(experiments[f].context, receipts[l].req.context)
      /\ SameSymbol(experiments[e].context, receipts[k].req.context)
  BY ReceiptsFit
<1>3. f <= e
  BY <1>1, <1>2 DEF SameSymbol
<1>4. SameSymbol(receipts[k].req.context, receipts[l].req.context)
  BY <1>1, <1>2 DEF SameSymbol
<1>5. e <= f
  <2>1. CASE k = l
    BY <1>2, <2>1
  <2>2. CASE k < l
    <3>1. receipts[k].req.exp <= receipts[l].req.exp
      BY <1>4, <2>2 DEF ReceiptsOrdered, Sound, NothingOdd
    <3>2. QED
      BY <3>1
  <2>3. QED
    BY <2>1, <2>2
<1>6. QED
  BY <1>2, <1>3, <1>5

\* An experiment that is made has no receipt.
LEMMA MadeFollows ==
  ASSUME TypeOK, RequestsFit, NEW seed, Makes(seed), seed.base = formal
  PROVE  Follows(worker.exp)'
<1>1. receipts' = receipts /\ formal' = formal
  BY DEF Makes, Builds, monitor
<1>2. experiments'[worker'.exp].base = formal' /\ worker'.exp = Len(experiments) + 1
  BY <1>1 DEF Makes
<1>3. \A k \in 1..Len(receipts) : receipts[k].req.exp # worker'.exp
  BY <1>2, ReceiptsFit DEF ExperimentIds, TypeOK, WorkerTypeOK
<1>4. QED
  BY <1>1, <1>2, <1>3 DEF Follows, NoReceiptOf

\* One that is taken up again has none, or the last of the symbol's.
LEMMA ReusedFollows ==
  ASSUME TypeOK, NEW seed, Reuses(seed), seed.base = formal,
         \A k \in 1..Len(receipts) : receipts[k].req.exp = worker'.exp =>
            \E l \in 1..Len(receipts) :
               /\ receipts[l].req.exp = worker'.exp /\ receipts[l].req.to = formal
               /\ \A m \in 1..Len(receipts) : receipts[m].req.exp = worker'.exp => m <= l
  PROVE  Follows(worker.exp)'
<1>1. receipts' = receipts /\ formal' = formal /\ experiments'[worker'.exp].base = formal'
  BY DEF Reuses, Builds, monitor
<1>2. CASE \A k \in 1..Len(receipts) : receipts[k].req.exp # worker'.exp
  BY <1>1, <1>2 DEF Follows, NoReceiptOf
<1>3. CASE \E k \in 1..Len(receipts) : receipts[k].req.exp = worker'.exp
  BY <1>1, <1>3 DEF Follows, LastOf
<1>4. QED
  BY <1>2, <1>3

\* After an answer, an optimizer is built that follows the policy in force: the
\* last receipt is of its symbol, or of one the process has left since.
LEMMA AnswerFollows ==
  ASSUME IInv, NotUp, RequestsFit, ReceiptsOrdered, FirstLife, AnswersSpeak, Sound, receipting = {},
         NEW seed, BuildsFrom(seed), FromAnswer(seed), seed.context = context, Running',
         \A i \in 1..Len(resultQ') : ~resultQ'[i].applied
  PROVE  Follows(worker.exp)'
<1>1. TypeOK /\ Builds(seed) /\ Len(receipts) \in Nat
  BY ReceiptPlaces DEF IInv, BuildsFrom
<1> DEFINE n == Len(receipts)
           e == worker'.exp
<1>2. /\ n \in 1..n /\ receipts[n].req.to = formal /\ seed.base = formal
      /\ Past(receipts[n].req.context, context)
  <2>1. /\ n \in 1..n /\ LastReceipt = receipts[n].req
        /\ LastReceipt.to = formal /\ seed.base = formal /\ Past(LastReceipt.context, seed.context)
    BY <1>1, TakenIsLast DEF FromAnswer
  <2>2. QED
    BY <2>1
<1>3. CASE Makes(seed)
  BY <1>1, <1>2, <1>3, MadeFollows
<1>4. CASE Reuses(seed)
  <2> SUFFICES ASSUME NEW k \in 1..n, receipts[k].req.exp = e PROVE receipts[n].req.exp = e
    <3>1. \A m \in 1..n : m <= n
      BY <1>1
    <3>2. QED
      BY <1>1, <1>2, <1>4, <3>1, ReusedFollows
  <2>1. k <= n /\ n \in 1..Len(receipts) /\ k \in 1..Len(receipts)
    BY <1>2
  <2>2. CASE SameSymbol(receipts[n].req.context, context)
    BY <1>1, <1>4, <2>1, <2>2, ReusedReceipts
  <2>3. CASE ~SameSymbol(receipts[n].req.context, context)
    <3>1. /\ receipts[n].req.context \in Contexts /\ receipts[k].req.context \in Contexts
          /\ context \in Contexts
          /\ receipts[n].req.context.gen \in Nat /\ context.gen \in Nat
          /\ receipts[k].req.context.gen \in Nat
      BY <1>1, <2>1, ReceiptPlaces, GenIsNat DEF TypeOK, MonitorTypeOK
    <3>2. receipts[n].req.context.gen < context.gen
      BY <1>2, <2>3, <3>1 DEF Past, SameSymbol
    <3>3. restarts = 0 /\ ~observed.overlapped
      BY <3>1, <3>2 DEF Sound, OwnGeneration, NothingOdd
    <3>4. receipts[k].req.context.gen <= receipts[n].req.context.gen
      <4>1. CASE k = n
        BY <3>1, <4>1
      <4>2. CASE k < n
        BY <2>1, <3>3, <4>2 DEF FirstLife
      <4>3. QED
        BY <2>1, <4>1, <4>2
    <3>5. receipts[k].req.context = context
      <4>1. OfWorker(receipts[k].req)
        BY <1>1, <2>1, <3>3, ReceiptPlaces DEF FirstLife
      <4>2. experiments[e].context = receipts[k].req.context
        BY <1>1, <2>1, <4>1, ReceiptsFit
      <4>3. QED
        BY <1>4, <4>2 DEF Reuses
    <3>6. QED
      BY <3>1, <3>2, <3>4, <3>5
  <2>4. QED
    BY <2>2, <2>3
<1>5. QED
  BY <1>1, <1>3, <1>4, BuildsHow

\* After a reset, an optimizer is built for a context nothing was asked in.
LEMMA BatchFollows ==
  ASSUME IInv, NotUp, RequestsFit, EventsPast, FirstLife, ContextIsFresh, Sound,
         NEW seed, BuildsFrom(seed), FromBatch(seed), seed.context = context, Running'
  PROVE  Follows(worker.exp)'
<1>1. TypeOK /\ Builds(seed) /\ context.gen \in Nat
  BY GenIsNat DEF IInv, BuildsFrom, TypeOK, MonitorTypeOK
<1>2. /\ 1 \in 1..Len(eventQ) /\ eventQ[1].seed = seed /\ eventQ[1].seed # Nothing
      /\ eventQ[1].context = context /\ context.gen > 0
  <2>1. Head(eventQ) = eventQ[1] /\ 1 \in 1..Len(eventQ)
    BY <1>1, TailPlaces DEF FromBatch, TypeOK, QueuesTypeOK
  <2>2. QED
    BY <2>1 DEF FromBatch, EventsPast
<1>3. restarts = 0
  BY <1>1, <1>2 DEF Sound, OwnGeneration
<1>4. seed.base = formal /\ \A req \in Known \cup Asking : req.context # context
  BY <1>2, <1>3 DEF ContextIsFresh, UnresetIsUnasked, ResetIsCurrent, Unreset
<1>5. CASE Makes(seed)
  BY <1>1, <1>4, <1>5, MadeFollows
<1>6. CASE Reuses(seed)
  <2>1. ASSUME NEW k \in 1..Len(receipts), receipts[k].req.exp = worker'.exp PROVE FALSE
    <3>1. receipts[k].req \in Known /\ OfWorker(receipts[k].req)
      BY <1>1, <1>3, <2>1, ReceiptPlaces DEF FirstLife
    <3>2. experiments[worker'.exp].context = receipts[k].req.context
      BY <1>1, <2>1, <3>1, ReceiptsFit
    <3>3. receipts[k].req.context = context
      BY <1>6, <3>2 DEF Reuses
    <3>4. QED
      BY <1>4, <3>1, <3>3
  <2>2. QED
    BY <1>1, <1>4, <1>6, <2>1, ReusedFollows
<1>7. QED
  BY <1>1, <1>5, <1>6, BuildsHow

\* At a start, an optimizer is built that follows what was restored.
LEMMA StartBuildFollows ==
  ASSUME IInv, NotUp, RequestsFit, ReceiptsOrdered, SeedsPast, StartFollows, Sound, Heard, ~WillChange,
         NEW seed, BuildsFrom(seed), FromStart(seed), seed.context = context, Running'
  PROVE  Follows(worker.exp)'
<1>1. TypeOK /\ Builds(seed) /\ Len(receipts) \in Nat
  BY ReceiptPlaces DEF IInv, BuildsFrom
<1>2. /\ worker.st = "starting" /\ seed = worker.seed /\ seed.base = formal
      /\ seed.context = Context(FirstSymbol, 0) /\ seed.context.sym = FirstSymbol
      /\ \A k \in 1..Len(receipts) :
            LatestOfFirst(k) /\ experiments[receipts[k].req.exp].base = formal =>
               receipts[k].req.to = formal
  BY DEF FromStart, SeedsPast, StartFollows, Context
<1>3. CASE Makes(seed)
  BY <1>1, <1>2, <1>3, MadeFollows
<1>4. CASE Reuses(seed)
  <2> DEFINE e == worker'.exp
             ofFirst == {l \in 1..Len(receipts) : receipts[l].req.context.sym = FirstSymbol}
  <2>1. ASSUME NEW l \in 1..Len(receipts), receipts[l].req.exp = e PROVE l \in ofFirst
    <3>1. SameSymbol(experiments[e].context, receipts[l].req.context)
      BY <1>1, <2>1, ReceiptsFit
    <3>2. QED
      BY <1>2, <1>4, <3>1 DEF Reuses, SameSymbol
  <2> SUFFICES ASSUME NEW k \in 1..Len(receipts), receipts[k].req.exp = e
               PROVE  \E l \in 1..Len(receipts) :
                         /\ receipts[l].req.exp = e /\ receipts[l].req.to = formal
                         /\ \A m \in 1..Len(receipts) : receipts[m].req.exp = e => m <= l
    BY <1>1, <1>2, <1>4, ReusedFollows
  <2>2. ofFirst \subseteq 0..Len(receipts) /\ ofFirst # {}
    BY <1>1, <2>1
  <2>3. PICK l \in ofFirst : \A m \in ofFirst : m <= l
    <3> HIDE DEF ofFirst
    <3>1. QED
      BY <1>1, <2>2, GreatestExists
  <2>4. l \in 1..Len(receipts) /\ k <= l /\ LatestOfFirst(l)
        /\ SameSymbol(receipts[l].req.context, seed.context)
    <3>1. k \in ofFirst
      BY <2>1
    <3>2. QED
      BY <1>2, <2>3, <3>1 DEF LatestOfFirst, SameSymbol
  <2>5. receipts[l].req.exp = e
    BY <1>1, <1>4, <2>4, ReusedReceipts
  <2>6. experiments[e].base = formal
    BY <1>2, <1>4 DEF Reuses
  <2>7. receipts[l].req.to = formal
    BY <1>2, <2>4, <2>5, <2>6
  <2>8. \A m \in 1..Len(receipts) : receipts[m].req.exp = e => m <= l
    BY <2>1, <2>3
  <2>9. QED
    BY <2>4, <2>5, <2>7, <2>8
<1>5. QED
  BY <1>1, <1>3, <1>4, BuildsHow

\* A request that is considered and not applied leaves what will change, or
\* becomes it.
LEMMA ConsideredFollows ==
  ASSUME TypeOK, NEW req, Considers(req), Heard'
  PROVE  /\ UNCHANGED <<context, formal, receipts, receipting, worker, experiments>> /\ Heard
         /\ life' = life /\ WillChange => WillChange'
         /\ life' # life => WillChange'
<1>1. receipting' = {} /\ ~Applies(req)
  BY DEF Heard, Applies, Apply
<1>2. UNCHANGED <<context, formal, receipts, receipting, worker, experiments>> /\ req \in Requests
  BY <1>1, ConsideredMoves DEF Considers
<1>3. Rejected(req)' = Rejected(req)
  BY <1>2 DEF Rejected
<1>4. ASSUME Holds(req) PROVE WillChange'
  <2>1. pend' = req /\ ~Rejected(req) /\ req # Nothing
    BY <1>2, <1>4, NothingIsNoRequest DEF Holds
  <2>2. QED
    BY <1>2, <2>1 DEF WillChange, Rejected
<1>5. Heard
  <2>1. resultQ \in Seq(Results)
    BY DEF TypeOK, QueuesTypeOK
  <2>2. CASE resultQ' = resultQ
    BY <1>1, <1>2, <2>2 DEF Heard
  <2>3. ASSUME NEW x \in Results, resultQ' = Append(resultQ, x) PROVE Heard
    <3>1. \A i \in 1..Len(resultQ) : i \in 1..Len(resultQ') /\ resultQ'[i] = resultQ[i]
      BY <2>1, <2>3, AppendPlaces
    <3>2. QED
      BY <1>1, <1>2, <3>1 DEF Heard
  <2>4. QED
    BY <1>1, <2>2, <2>3 DEF Considers, Holds, Refuses
<1>6. ASSUME life' = life, WillChange PROVE WillChange'
  <2>1. CASE Refuses(req) /\ FromPend(req)
    BY <1>6, <2>1 DEF Refuses, FromPend, WillChange
  <2>2. CASE pend' = pend
    BY <1>2, <1>6, <2>2 DEF WillChange, Rejected
  <2>3. QED
    BY <1>1, <1>4, <1>6, <2>1, <2>2 DEF Considers, FromReceipt
<1>7. ASSUME life' # life PROVE WillChange'
  BY <1>1, <1>4, <1>7 DEF Considers
<1>8. QED
  BY <1>2, <1>5, <1>6, <1>7

\* A receipt thread that comes to its end is heard where there is a worker.
LEMMA ThreadHeard ==
  ASSUME TypeOK, NEW job, ThreadSteps(job), ~Fails(job), Heard'
  PROVE  Sends(job) /\ life # "up" /\ job.stage = "put"
<1>1. receipting' = {} /\ job \in receipting /\ job \in Jobs /\ resultQ \in Seq(Results)
      /\ Len(resultQ) \in Nat
  BY ThreadMoves DEF Heard, TypeOK, QueuesTypeOK
<1>2. Sends(job)
  <2>1. Saves(job) \/ TakesSeed(job) => receipting' # {}
    BY DEF Saves, TakesSeed, Becomes
  <2>2. QED
    BY <1>1, <2>1 DEF ThreadSteps
<1>3. ASSUME life = "up" PROVE FALSE
  <2> DEFINE x == [id |-> job.req.id, applied |-> TRUE, seed |-> job.seed]
  <2>1. x \in Results /\ x.applied
    BY <1>1 DEF Results, Jobs, Requests
  <2>2. resultQ' = Append(resultQ, x)
    BY <1>2, <1>3 DEF Sends
  <2> HIDE DEF x
  <2>3. Len(resultQ) + 1 \in 1..Len(resultQ') /\ resultQ'[Len(resultQ) + 1] = x
    BY <1>1, <2>1, <2>2, AppendPlaces
  <2>4. QED
    BY <2>1, <2>3 DEF Heard
<1>4. QED
  BY <1>2, <1>3 DEF Sends

LEMMA WorkerFollowsKept ==
  /\ IInv /\ NotUp /\ RequestsFit /\ EventsPast /\ SeedsPast /\ ReceiptsOrdered /\ FirstLife
  /\ ContextIsFresh /\ AnswersSpeak /\ WorkerFollows /\ StartFollows /\ [Next]_vars
  => WorkerFollows'
<1> SUFFICES ASSUME IInv, NotUp, RequestsFit, EventsPast, SeedsPast, ReceiptsOrdered, FirstLife,
                    ContextIsFresh, AnswersSpeak, WorkerFollows, StartFollows, [Next]_vars,
                    Sound', Heard', Running', worker'.seed.context = context'
             PROVE  WillChange' \/ Follows(worker.exp)'
  BY DEF WorkerFollows
<1>1. /\ TypeOK /\ ~Stop /\ context \in Contexts
      /\ Running => life = "up"
  BY DEF IInv, TypeOK, MonitorTypeOK, DownIsEmpty, Stop, Running, NoWorker
<1>2. /\ Sound
      /\ \A job : ThreadSteps(job) => ~Fails(job)
  BY <1>1, SoundBefore
<1>3. receipting' = {} /\ \A i \in 1..Len(resultQ') : ~resultQ'[i].applied
  BY DEF Heard
<1>4. ASSUME Heard, Running, worker.seed.context = context, worker'.exp = worker.exp,
             UNCHANGED <<formal, receipts, experiments>>, WillChange => WillChange'
      PROVE  WillChange' \/ Follows(worker.exp)'
  <2>1. CASE WillChange
    BY <1>4, <2>1
  <2>2. CASE Follows(worker.exp)
    BY <1>4, <2>2 DEF Follows, LastOf, NoReceiptOf
  <2>3. QED
    BY <1>2, <1>4, <2>1, <2>2 DEF WorkerFollows
<1>5. ASSUME UNCHANGED <<context, formal, pend>>, WillChange PROVE WillChange'
  BY <1>5 DEF WillChange, Rejected
<1>6. ASSUME NEW req, WorkerAsks(req) PROVE WillChange' \/ Follows(worker.exp)'
  <2>1. /\ Running /\ worker'.exp = worker.exp /\ worker'.seed = worker.seed
        /\ UNCHANGED <<context, formal, pend, receipts, experiments, receipting, resultQ>>
    BY <1>6 DEF WorkerAsks, monitor, disk
  <2>2. QED
    BY <1>4, <1>5, <2>1 DEF Heard
<1>7. ASSUME NEW seed \in Seeds, BuildsFrom(seed) PROVE WillChange' \/ Follows(worker.exp)'
  <2>1. /\ UNCHANGED <<context, formal, pend, receipting>> /\ receipting = {} /\ worker'.seed = seed
        /\ seed.context = context
    BY <1>1, <1>3, <1>7, BuildsHow DEF BuildsFrom, Builds, Reuses, Makes, monitor
  <2>2. CASE FromStart(seed)
    <3>1. Heard
      BY <1>3, <2>1, <2>2 DEF FromStart, Heard
    <3>2. QED
      BY <1>2, <1>5, <1>7, <2>1, <2>2, <3>1, StartBuildFollows
  <2>3. CASE FromAnswer(seed)
    BY <1>2, <1>3, <1>7, <2>1, <2>3, AnswerFollows
  <2>4. CASE FromBatch(seed)
    BY <1>2, <1>7, <2>1, <2>4, BatchFollows
  <2>5. QED
    BY <1>7, <2>2, <2>3, <2>4 DEF BuildsFrom
<1>8. ASSUME Records PROVE Follows(worker.exp)'
  <2> DEFINE n == Len(receipts)
  <2>1. /\ UNCHANGED <<formal, receipts, receipting>> /\ worker'.exp = worker.exp
        /\ Running /\ worker.asks # Nothing /\ Head(resultQ).id = worker.asks.id
    BY <1>1, <1>8, RecordsHow DEF Records, monitor
  <2>2. /\ n \in 1..n /\ receipts[n].req.id = worker.asks.id /\ receipts[n].req.to = formal
    <3>1. /\ n \in 1..n /\ LastReceipt = receipts[n].req
          /\ LastReceipt.id = Head(resultQ).id /\ LastReceipt.to = formal
      BY <1>1, <1>2, <1>3, <1>8, <2>1, TakenIsLast DEF Records
    <3>2. QED
      BY <2>1, <3>1
  <2>3. receipts[n].req.exp = worker.exp
    BY <1>1, <2>1, <2>2, ReceiptPlaces DEF IInv, AskedIsKnown
  <2>4. \A l \in 1..n : l <= n
    BY <1>1, ReceiptPlaces
  <2>5. QED
    BY <2>1, <2>2, <2>3, <2>4 DEF Follows, LastOf
<1>9. ASSUME Otherwise, Keeps, ~Records, \A seed \in Seeds : ~BuildsFrom(seed),
             \A req : ~WorkerAsks(req)
      PROVE  WillChange' \/ Follows(worker.exp)'
  <2>1. /\ Running /\ life = "up" /\ worker'.exp = worker.exp /\ worker'.seed = worker.seed
        /\ experiments' = experiments
    BY <1>1, <1>9 DEF Keeps
  <2>2. ASSUME NEW req, Considers(req) PROVE WillChange' \/ Follows(worker.exp)'
    <3>1. /\ UNCHANGED <<context, formal, receipts, receipting>> /\ Heard
          /\ life' = life /\ WillChange => WillChange'
      BY <1>1, <2>2, ConsideredFollows
    <3>2. life' = life
      BY <2>1, <2>2 DEF Considers, FromReceipt
    <3>3. QED
      BY <1>4, <2>1, <3>1, <3>2
  <2>3. ASSUME NEW job, ThreadSteps(job) PROVE FALSE
    BY <1>1, <1>2, <2>1, <2>3, ThreadHeard
  <2>4. ASSUME SwitchSymbol PROVE FALSE
    <3>1. worker.seed.context \in Contexts /\ Past(worker.seed.context, context)
      BY <1>1, <2>1, SeedContexts DEF SeedsPast, Running
    <3>2. worker.seed.context.gen < context'.gen /\ context' \in Contexts
      BY <1>1, <2>4, <3>1, PastStays, ContextMoves
    <3>3. QED
      BY <2>1, <3>2, GenIsNat
  <2>5. CASE Still
    <3>1. UNCHANGED <<context, formal, pend, receipts, receipting>>
          /\ (resultQ' = resultQ \/ (resultQ # <<>> /\ resultQ' = Tail(resultQ)))
      BY <2>5 DEF Still
    <3>2. CASE resultQ' = resultQ
      BY <1>4, <1>5, <2>1, <3>1, <3>2 DEF Heard
    <3>3. CASE resultQ # <<>> /\ resultQ' = Tail(resultQ)
      <4>1. ~Head(resultQ).applied
        BY <1>1, <1>9, <3>3, TakesAnswer
      <4>2. Heard
        <5>1. /\ Head(resultQ) = resultQ[1] /\ Len(resultQ) \in Nat /\ Len(resultQ') = Len(resultQ) - 1
              /\ \A i \in 1..Len(resultQ') : resultQ'[i] = resultQ[i + 1]
          BY <3>3, TailPlaces, <1>1 DEF TypeOK, QueuesTypeOK
        <5>2. ASSUME NEW i \in 1..Len(resultQ) PROVE ~resultQ[i].applied
          <6>1. CASE i = 1
            BY <4>1, <5>1, <6>1
          <6>2. CASE i # 1
            <7>1. i - 1 \in 1..Len(resultQ') /\ resultQ'[i - 1] = resultQ[i]
              BY <5>1, <6>2
            <7>2. QED
              BY <1>3, <7>1
          <6>3. QED
            BY <6>1, <6>2
        <5>3. QED
          BY <1>3, <3>1, <5>2 DEF Heard
      <4>3. QED
        BY <1>4, <1>5, <2>1, <3>1, <4>2
    <3>4. QED
      BY <3>1, <3>2, <3>3
  <2>6. QED
    BY <1>1, <1>9, <2>2, <2>3, <2>4, <2>5, StepShapes
<1>10. QED
  BY <1>1, <1>6, <1>7, <1>8, <1>9, WorkerStepsFrom

\* Where there is nothing to restore, the last receipt of the first symbol is
\* for the policy of the command line, or for an experiment of another base.
LEMMA NothingToRestore ==
  ASSUME TypeOK, Chronological, NEW r \in LatestReceipts(FirstSymbol), ~Restorable(r),
         NEW k, LatestOfFirst(k), experiments[receipts[k].req.exp].base = BasePolicy
  PROVE  receipts[k].req.to = BasePolicy
<1>1. k \in 1..Len(receipts) /\ receipts[k].req.context.sym = FirstSymbol
      /\ receipts \in Seq(SavedReceipts) /\ receipts[k] \in SavedReceipts
  BY DEF LatestOfFirst, TypeOK, WorkerTypeOK
<1>2. r # Nothing
  <2>1. r \in ToSet(receipts)
    <3>1. receipts[k] \in {q \in ToSet(receipts) : q.req.context.sym = FirstSymbol}
      BY <1>1 DEF ToSet
    <3>2. QED
      BY <3>1 DEF LatestReceipts
  <2>2. r \in SavedReceipts
    BY <1>1, <2>1 DEF ToSet
  <2>3. Nothing \notin SavedReceipts
    BY DEF Nothing, SavedReceipts
  <2>4. QED
    BY <2>2, <2>3
<1>3. PICK m \in 1..Len(receipts) :
         /\ receipts[m] = r /\ r.req.context.sym = FirstSymbol
         /\ \A l \in 1..Len(receipts) : receipts[l].req.context.sym = FirstSymbol => receipts[l].at <= r.at
  BY <1>2, LatestPlace
<1>4. m = k
  <2>1. m <= k /\ receipts[k].at <= receipts[m].at
    BY <1>1, <1>3 DEF LatestOfFirst
  <2>2. receipts[k].at \in Int /\ receipts[m].at \in Int
    <3>1. receipts[m] \in SavedReceipts
      BY <1>1, <1>3
    <3>2. QED
      BY <1>1, <3>1 DEF SavedReceipts, Times
  <2>3. ~(m < k)
    BY <1>1, <2>1, <2>2 DEF Chronological
  <2>4. QED
    BY <1>1, <2>1, <2>3
<1>5. QED
  BY <1>2, <1>3, <1>4 DEF Restorable

LEMMA StartFollowsKept ==
  /\ IInv /\ NotUp /\ RequestsPast /\ SeedsPast /\ OneThread /\ ThreadsSpeak /\ StartFollows /\ [Next]_vars
  => StartFollows'
<1> SUFFICES ASSUME IInv, NotUp, RequestsPast, SeedsPast, OneThread, ThreadsSpeak, StartFollows,
                    [Next]_vars, Sound', Heard',
                    life' = "restored" \/ (worker'.st = "starting" /\ worker'.seed.context = context')
             PROVE  /\ worker'.st = "starting" => worker'.seed.base = formal'
                    /\ \/ WillChange'
                       \/ \A k \in 1..Len(receipts') :
                             LatestOfFirst(k)' /\ experiments'[receipts'[k].req.exp].base = formal' =>
                                receipts'[k].req.to = formal'
  BY DEF StartFollows
<1>1. /\ TypeOK /\ ~Stop /\ context \in Contexts /\ DownIsEmpty
  BY DEF IInv, TypeOK, MonitorTypeOK, Stop, NoWorker
<1>2. /\ Sound
      /\ \A job : ThreadSteps(job) => ~Fails(job)
  BY <1>1, SoundBefore
<1> DEFINE Speaks == \A k \in 1..Len(receipts) :
                        LatestOfFirst(k) /\ experiments[receipts[k].req.exp].base = formal =>
                           receipts[k].req.to = formal
           Goal == /\ worker'.st = "starting" => worker'.seed.base = formal'
                   /\ \/ WillChange'
                      \/ \A k \in 1..Len(receipts') :
                            LatestOfFirst(k)' /\ experiments'[receipts'[k].req.exp].base = formal' =>
                               receipts'[k].req.to = formal'
<1>3. ASSUME UNCHANGED <<formal, receipts, experiments>>,
             worker'.st = "starting" => worker'.seed.base = formal,
             WillChange' \/ Speaks
      PROVE  Goal
  BY <1>3 DEF LatestOfFirst
<1>4. ASSUME UNCHANGED <<context, formal, pend>>, WillChange PROVE WillChange'
  BY <1>4 DEF WillChange, Rejected
<1>5. CASE StartMonitor
  <2>1. /\ life = "down" /\ worker' = worker /\ worker.st = "none" /\ formal = BasePolicy
        /\ UNCHANGED <<receipts, experiments>>
    BY <1>1, <1>5 DEF StartMonitor, DownIsEmpty, NotUp, disk
  <2>2. life' # life
    BY <1>5 DEF StartMonitor
  <2>3. PICK r \in LatestReceipts(FirstSymbol) :
           IF Restorable(r)
           THEN Submit(RestoreRequest(r), WallAfter(now))
           ELSE UNCHANGED <<formal, pend, receipting, observed>>
    BY <1>5 DEF StartMonitor
  <2>4. CASE Restorable(r)
    <3> DEFINE req == RestoreRequest(r)
    <3>1. req \in Requests
      BY <1>1, <2>4, StoredReceiptType, RestoreIsRequest
    <3>2. Submit(req, WallAfter(now)) /\ UNCHANGED context
      BY <1>5, <2>3, <2>4 DEF StartMonitor
    <3>3. req.context = context /\ req.expected = formal
      BY <2>1 DEF RestoreRequest, NotUp
    <3> HIDE DEF req
    <3>4. ~Apply(req, WallAfter(now))
      BY DEF Heard, Apply
    <3>5. pend' = req /\ formal' = formal /\ req # Nothing
      BY <3>1, <3>2, <3>4, NothingIsNoRequest DEF Submit
    <3>6. WillChange'
      BY <3>2, <3>3, <3>5 DEF WillChange, Rejected
    <3>7. QED
      BY <2>1, <3>6
  <2>5. CASE ~Restorable(r)
    <3>1. formal' = formal
      BY <2>3, <2>5
    <3>2. Speaks
      BY <1>1, <1>2, <2>1, <2>5, NothingToRestore DEF Sound
    <3>3. QED
      BY <1>3, <2>1, <3>1, <3>2
  <2>6. QED
    BY <2>4, <2>5
<1>6. CASE StartWorker
  <2>1. /\ UNCHANGED <<context, formal, pend, receipting, resultQ, receipts, experiments>>
        /\ worker'.st = "starting" => worker'.seed.base = formal
        /\ life = "restored"
    BY <1>6 DEF StartWorker, Seed, queues, disk
  <2>2. WillChange \/ Speaks
    <3>1. Heard
      BY <2>1 DEF Heard
    <3>2. QED
      BY <1>2, <2>1, <3>1 DEF StartFollows
  <2>3. QED
    BY <1>3, <1>4, <2>1, <2>2
<1>7. ASSUME life' = life, ~StartWorker PROVE Goal
  <2>1. ~Running
    <3>1. CASE life = "restored"
      BY <1>1, <3>1 DEF DownIsEmpty, Running
    <3>2. CASE worker'.st = "starting"
      <4>1. ASSUME NEW req, WorkerAsks(req) PROVE FALSE
        BY <3>2, <4>1 DEF WorkerAsks, Optimizers
      <4>2. worker' = worker
        BY <1>1, <1>7, <3>2, <4>1, WorkerStepsFrom DEF Starts
      <4>3. QED
        BY <3>2, <4>2 DEF Running
    <3>3. QED
      BY <1>7, <3>1, <3>2
  <2>2. \A req : ~WorkerAsks(req)
    BY <2>1 DEF WorkerAsks
  <2>3. worker'.st = "starting" => worker' = worker
    BY <1>1, <1>7, <2>2, WorkerStepsFrom DEF Starts
  <2>4. experiments' = experiments
    <3>1. ASSUME NEW seed \in Seeds, BuildsFrom(seed) PROVE experiments' = experiments
      <4>1. worker.st = "starting"
        BY <2>1, <3>1 DEF BuildsFrom, FromStart, FromAnswer, FromBatch
      <4>2. life = "up"
        BY <1>1, <4>1 DEF DownIsEmpty
      <4>3. worker' = worker
        BY <1>7, <2>3, <4>2
      <4>4. ~Running'
        BY <2>1, <4>3 DEF Running
      <4>5. QED
        BY <1>1, <3>1, <4>4, BuildsHow DEF BuildsFrom, Reuses, Makes
    <3>2. ~Records
      BY <2>1 DEF Records
    <3>3. QED
      BY <1>1, <2>2, <3>1, <3>2, WorkerStepsFrom DEF Keeps
  <2>5. ASSUME UNCHANGED <<context, formal, receipts>>, Heard, WillChange => WillChange' PROVE Goal
    <3>1. life = "restored" \/ (worker.st = "starting" /\ worker.seed.context = context)
      BY <1>7, <2>3, <2>5
    <3>2. (worker.st = "starting" => worker.seed.base = formal) /\ (WillChange \/ Speaks)
      BY <1>2, <2>5, <3>1 DEF StartFollows
    <3>3. QED
      BY <1>3, <2>3, <2>4, <2>5, <3>2
  <2>6. ASSUME NEW req, Considers(req) PROVE Goal
    BY <1>1, <1>7, <2>5, <2>6, ConsideredFollows
  <2>7. ASSUME NEW job, ThreadSteps(job) PROVE Goal
    <3>1. /\ Sends(job) /\ life = "restored" /\ job.stage = "put" /\ job \in receipting
          /\ UNCHANGED <<context, formal, receipts>>
      <4>1. Sends(job) /\ life # "up" /\ job.stage = "put"
        BY <1>1, <1>2, <2>7, ThreadHeard
      <4>2. life # "down"
        BY <2>7 DEF ThreadSteps, NotUp
      <4>3. life \in {"down", "restored", "up"}
        BY <1>1 DEF TypeOK, MonitorTypeOK
      <4>4. QED
        BY <2>7, <4>1, <4>2, <4>3 DEF ThreadSteps, Sends
    <3> DEFINE n == Len(receipts)
    <3>2. /\ receipts # <<>> /\ receipts[n].req = job.req /\ job.req.to = formal
          /\ Past(job.req.context, context) /\ context = Context(FirstSymbol, 0)
      BY <1>2, <3>1 DEF ThreadsSpeak, LastReceipt, RequestsPast, NotUp
    <3>3. n \in 1..n
      BY <1>1, <3>2 DEF TypeOK, WorkerTypeOK
    <3>4. receipts[n].req.context.sym = FirstSymbol
      <4>1. job.req.context \in Contexts
        BY <1>1, <3>2, <3>3, ReceiptPlaces
      <4>2. job.req.context.gen \in Nat /\ context.gen = 0
        BY <3>2, <4>1, GenIsNat DEF Context
      <4>3. job.req.context = context
        BY <3>2, <4>2 DEF Past
      <4>4. QED
        BY <3>2, <4>3 DEF Context
    <3>5. \A k \in 1..n : LatestOfFirst(k) => k = n
      BY <3>3, <3>4 DEF LatestOfFirst
    <3>6. Speaks
      BY <3>2, <3>5
    <3>7. worker'.st # "starting"
      BY <1>1, <2>3, <3>1 DEF DownIsEmpty
    <3>8. QED
      BY <1>3, <2>4, <3>1, <3>6, <3>7
  <2>8. ASSUME SwitchSymbol PROVE FALSE
    <3>1. life = "up" /\ worker' = worker /\ worker.st = "starting" /\ worker.seed.context = context'
      BY <1>7, <2>3, <2>8 DEF SwitchSymbol
    <3>2. worker.seed.context \in Contexts /\ Past(worker.seed.context, context)
      BY <1>1, <3>1, SeedContexts DEF SeedsPast
    <3>3. worker.seed.context.gen < context'.gen
      BY <1>1, <2>8, <3>2, PastStays
    <3>4. QED
      BY <3>1, <3>2, <3>3, GenIsNat
  <2>9. CASE Still
    <3>1. UNCHANGED <<context, formal, pend, receipts, receipting, resultQ>>
      BY <2>1, <2>9 DEF Still
    <3>2. QED
      BY <1>4, <2>5, <3>1 DEF Heard
  <2>10. QED
    BY <1>1, <2>2, <2>6, <2>7, <2>8, <2>9, StepShapes
<1>8. QED
  BY <1>1, <1>5, <1>6, <1>7, LifeMoves

-----------------------------------------------------------------------------
(* The champion is the policy in force *)

LEMMA InitAInv == Init => AInv
<1> SUFFICES ASSUME Init PROVE AInv
  OBVIOUS
<1>1. /\ Len(experiments) = 0 /\ Len(receipts) = 0 /\ receipting = {} /\ ~Running
      /\ Len(eventQ) = 0 /\ Len(resultQ) = 0 /\ pend = Nothing /\ publishing = Nothing
      /\ worker.st = "none" /\ life = "down" /\ supContext = context
      /\ context = Context(FirstSymbol, 0) /\ formal = BasePolicy
      /\ eventQ = <<>> /\ lifecycleQ = <<>> /\ resultQ = <<>> /\ receipts = <<>>
  BY DEF Init, Running, NoWorker
<1>2. Known = {} /\ Waiting = {} /\ Asking = {} /\ ExperimentIds = {}
  BY <1>1 DEF Known, Waiting, Applied, Asking, ExperimentIds, ToSet
<1>3. RequestsFit /\ WorkerFits /\ ChampionIsLast /\ HistoriesAgree /\ AskedIsLast
  BY <1>1, <1>2 DEF RequestsFit, WorkerFits, ChampionIsLast, HistoriesAgree, AskedIsLast
<1>4. UnsavedAreNew /\ StartsNumbered /\ RequestsOrdered /\ OneThread /\ RestoreIsFirst /\ ReceiptsOrdered
  BY <1>1, <1>2 DEF UnsavedAreNew, StartsNumbered, RequestsOrdered, OneThread, RestoreIsFirst,
                    ReceiptsOrdered
<1>5. EventsPast /\ RequestsPast /\ SeedsPast
  <2>1. Past(context, context)
    BY <1>1, InitialContext, PastSelf
  <2>2. QED
    BY <1>1, <1>2, <2>1 DEF EventsPast, RequestsPast, SeedsPast
<1>6. NotUp /\ FirstLife /\ ContextIsFresh
  BY <1>1, <1>2 DEF NotUp, FirstLife, ContextIsFresh, UnresetIsUnasked, ResetIsCurrent
<1>7. ThreadsSpeak /\ AnswersSpeak /\ WorkerFollows /\ StartFollows
  BY <1>1 DEF ThreadsSpeak, AnswersSpeak, WorkerFollows, StartFollows
<1>8. QED
  BY <1>3, <1>4, <1>5, <1>6, <1>7 DEF AInv, ContextsPast

LEMMA NextAInv == IInv /\ AInv /\ [Next]_vars => AInv'
<1> SUFFICES ASSUME IInv, AInv, [Next]_vars PROVE AInv'
  OBVIOUS
<1>1. /\ RequestsFit /\ WorkerFits /\ ChampionIsLast /\ HistoriesAgree /\ AskedIsLast
      /\ UnsavedAreNew /\ StartsNumbered /\ RequestsOrdered /\ OneThread /\ RestoreIsFirst
      /\ ReceiptsOrdered /\ EventsPast /\ RequestsPast /\ SeedsPast /\ NotUp /\ FirstLife
      /\ ContextIsFresh /\ ThreadsSpeak /\ AnswersSpeak /\ WorkerFollows /\ StartFollows
  BY DEF AInv, ContextsPast
<1>2. NotUp' /\ RequestsFit' /\ WorkerFits' /\ ChampionIsLast'
  BY <1>1, NotUpKept, RequestsFitKept, WorkerFitsKept, ChampionIsLastKept
<1>3. HistoriesAgree' /\ AskedIsLast' /\ UnsavedAreNew' /\ StartsNumbered'
  BY <1>1, HistoriesAgreeKept, AskedIsLastKept, UnsavedAreNewKept, StartsNumberedKept
<1>4. RequestsOrdered' /\ OneThread' /\ RestoreIsFirst' /\ ReceiptsOrdered'
  BY <1>1, RequestsOrderedKept, OneThreadKept, RestoreIsFirstKept, ReceiptsOrderedKept
<1>5. EventsPast' /\ RequestsPast' /\ SeedsPast'
  BY <1>1, EventsPastKept, RequestsPastKept, SeedsPastKept
<1>6. FirstLife' /\ ContextIsFresh'
  BY <1>1, FirstLifeKept, ContextIsFreshKept
<1>7. ThreadsSpeak' /\ AnswersSpeak'
  BY <1>1, ThreadsSpeakKept, AnswersSpeakKept
<1>8. WorkerFollows' /\ StartFollows'
  BY <1>1, WorkerFollowsKept, StartFollowsKept
<1>9. QED
  BY <1>2, <1>3, <1>4, <1>5, <1>6, <1>7, <1>8 DEF AInv, ContextsPast

LEMMA AInvSuffices == IInv /\ AInv => ChampionAgrees
<1> SUFFICES ASSUME IInv, AInv, Quiet, observed = NothingOdd, Reconciled, Chronological, OwnGeneration
             PROVE  worker.champion = formal
  BY DEF ChampionAgrees
<1> DEFINE e == worker.exp
           n == Len(History)
<1>1. /\ TypeOK /\ Recorded /\ WorkerFits /\ ChampionIsLast /\ HistoriesAgree /\ WorkerFollows
  BY DEF IInv, AInv
<1>2. /\ Running /\ pend = Nothing /\ receipting = {} /\ resultQ = <<>>
      /\ worker.seed.context = context
  BY DEF Quiet
<1>3. e \in ExperimentIds /\ History \in Seq(Changes) /\ n \in Nat /\ History = experiments[e].history
  BY <1>1, <1>2, ExperimentOf DEF History
<1>4. Follows(e)
  <2>1. Sound /\ Heard /\ ~WillChange
    BY <1>2 DEF Sound, Heard, WillChange
  <2>2. QED
    BY <1>1, <1>2, <2>1 DEF WorkerFollows
<1>5. worker.champion = IF History = <<>> THEN experiments[e].base ELSE History[n].to
  BY <1>1, <1>2, <1>3 DEF WorkerFits, ChampionIsLast
<1>6. ASSUME NEW i \in 1..n
      PROVE  \E k \in 1..Len(receipts) :
                receipts[k].req.id = History[i].id /\ receipts[k].req.exp = e
  BY <1>1, <1>3 DEF Recorded
<1>7. CASE experiments[e].base = formal /\ NoReceiptOf(e)
  <2>1. n = 0
    BY <1>3, <1>6, <1>7 DEF NoReceiptOf
  <2>2. QED
    BY <1>3, <1>5, <1>7, <2>1
<1>8. CASE \E k \in 1..Len(receipts) : LastOf(e, k) /\ receipts[k].req.to = formal
  <2>1. PICK k \in 1..Len(receipts) : LastOf(e, k) /\ receipts[k].req.to = formal
    BY <1>8
  <2>2. PICK i \in 1..n : History[i].id = receipts[k].req.id
    <3>1. receipts[k] \in ToSet(receipts) /\ receipts[k].req.exp = worker.exp
      BY <1>1, <2>1 DEF LastOf, ToSet, TypeOK, WorkerTypeOK
    <3>2. QED
      BY <3>1 DEF Reconciled
  <2>3. Agree(History, receipts)
    BY <1>1, <1>3 DEF HistoriesAgree
  <2>4. i = n
    <3>1. SUFFICES ASSUME i < n PROVE FALSE
      BY <1>3, <2>2
    <3>2. n \in 1..n
      BY <1>3, <2>2
    <3>3. PICK l \in 1..Len(receipts) : receipts[l].req.id = History[n].id /\ receipts[l].req.exp = e
      BY <1>6, <3>2
    <3>4. k < l
      BY <2>2, <2>3, <3>1, <3>2, <3>3 DEF Agree
    <3>5. l <= k
      BY <2>1, <3>3 DEF LastOf
    <3>6. QED
      BY <3>4, <3>5
  <2>5. History[n].to = formal
    BY <2>1, <2>2, <2>3, <2>4 DEF Agree
  <2>6. History # <<>>
    BY <1>3, <2>2
  <2>7. QED
    BY <1>5, <2>5, <2>6
<1>9. QED
  BY <1>4, <1>7, <1>8 DEF Follows

\* When nothing is on its way between the processes, the worker's champion is
\* the policy in force: across restarts, symbol switches, refused and late
\* answers and experiments taken up again, for any policies and bounds, unless
\* one of the events ChampionAgrees names has set the two databases apart.
THEOREM ChampionsAgree == Spec => []ChampionAgrees
<1>1. Init => IInv /\ AInv
  BY InitIInv, InitAInv
<1>2. IInv /\ AInv /\ [Next]_vars => IInv' /\ AInv'
  BY NextIInv, NextAInv
<1>3. IInv /\ AInv => ChampionAgrees
  BY AInvSuffices
<1>4. QED
  BY <1>1, <1>2, <1>3, PTL DEF Spec
=============================================================================
