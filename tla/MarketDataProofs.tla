--------------------------- MODULE MarketDataProofs ---------------------------
(***************************************************************************)
(* Proofs about MarketData, for any symbols and any number of minutes,     *)
(* switches, faults and batches in the queue.                              *)
(***************************************************************************)
EXTENDS MarketData, CommonLemmas, TLAPS, SequenceTheorems

-----------------------------------------------------------------------------
(* What TypeOK is strengthened with *)

\* Updates are enabled only while no request switches the symbol.
EnabledWhenIdle == enabled => hpc = "idle"

\* What a context holds or waits for are minutes that have closed.
OnlyClosedMinutes ==
    /\ Held \subseteq 1..now /\ batch \subseteq 1..now /\ done \subseteq 1..now
    /\ \A i \in 1..Len(queue) : queue[i].minutes \subseteq 1..now
    /\ \A g \in Gens : retry[g] \subseteq 1..now

\* No thread works for a context to come, nor is anything known of one.
NothingAhead ==
    /\ cctx <= gen /\ sctx <= gen /\ rctx <= gen
    /\ \A i \in 1..Len(queue) : queue[i].ctx <= gen
    /\ \A g \in Gens : g > gen => cursor[g] = Unknown /\ retry[g] = {}

\* Until the request that switches the symbol enables updates again, nothing
\* is under way for the new context, it has no cursor, and its klines are
\* those it was seeded with.
NewContextIsFresh ==
    /\ hpc \in {"warmup", "refresh"} => /\ cpc = "idle" \/ cctx < gen
                                        /\ cursor[gen] = Unknown
    /\ hpc = "warmup" => Held = {}
    /\ hpc = "refresh" => /\ \A d \in done : d <= LatestKline
                          /\ done # {} => LatestKline \in done

Working == cpc # "idle" /\ ContextActive(cctx)

\* What is known of the active context is the last minute done, but for the
\* batch whose cursor is still to be written.
KnownIsDone ==
    ContextActive(gen) =>
       /\ \A d \in done : d <= Known(gen) \/ (cpc = "commit" /\ cctx = gen /\ d \in batch)
       /\ done # {} /\ ~(cpc = "commit" /\ cctx = gen) => Known(gen) \in done

\* The minutes under way are new ones.  Before they are handed over they
\* follow the cursor without a hole, but for minutes REST no longer returns.
Contiguous ==
    \A m \in cursor[gen] + 1..MinOf(batch) : m \in batch \/ m <= now - RestLimit

BatchIsFresh ==
    Working => /\ cursor[gen] # Unknown
               /\ \A m \in batch : m > cursor[gen]
               /\ cpc = "commit" => batch \subseteq done
               /\ cpc = "ready" /\ cursor[gen] # NoKline => Contiguous

\* A context in which nothing is done was seeded with nothing, and nothing is
\* known of it, unless its reset raised half way.
SeededIsDone == hpc = "refresh" /\ ~halfReset /\ done = {} => Held = {}
NothingKnown == ContextActive(gen) /\ ~halfReset /\ done = {} => Known(gen) = NoKline

IInv ==
    /\ EnabledWhenIdle /\ OnlyClosedMinutes /\ NothingAhead /\ NewContextIsFresh
    /\ KnownIsDone /\ BatchIsFresh
-----------------------------------------------------------------------------
(* The greatest and the least of a set of minutes *)

\* MaxOf and MinOf choose the greatest and the least minute.
LEMMA Extremes ==
  ASSUME NEW S, S \subseteq Minutes, S # {}
  PROVE  /\ MaxOf(S) \in S /\ \A m \in S : m <= MaxOf(S)
         /\ MinOf(S) \in S /\ \A m \in S : MinOf(S) <= m
<1>1. S \subseteq Nat /\ S \subseteq 0..MaxTime /\ MaxTime \in Nat
  BY MarketAssumption DEF Minutes
<1>2. \E x \in S : \A y \in S : y <= x
  BY <1>1, GreatestExists
<1>3. \E x \in S : \A y \in S : x <= y
  BY <1>1, LeastExists
<1>4. QED
  BY <1>2, <1>3 DEF MaxOf, MinOf

\* The latest kline is the greatest minute held, or none.
LEMMA LatestKlineFacts ==
  /\ LatestKline \in 0..MaxTime
  /\ \A m \in Held : m <= LatestKline
  /\ Held # {} => LatestKline \in Held
<1>1. Held \subseteq Minutes
  BY DEF Held
<1>2. CASE Held = {}
  BY <1>2, MarketAssumption DEF LatestKline, NoKline
<1>3. CASE Held # {}
  <2>1. LatestKline = MaxOf(Held)
    BY <1>3 DEF LatestKline
  <2>2. MaxOf(Held) \in Held /\ \A m \in Held : m <= MaxOf(Held)
    BY <1>1, <1>3, Extremes
  <2>3. LatestKline \in Minutes
    BY <1>1, <2>1, <2>2
  <2>4. LatestKline \in 0..MaxTime
    BY <2>3, MarketAssumption DEF Minutes
  <2>5. QED
    BY <2>1, <2>2, <2>4
<1>4. QED
  BY <1>2, <1>3

\* The same of the next state.
LEMMA LatestKlinePrimed ==
  /\ \A m \in Held' : m <= LatestKline'
  /\ Held' # {} => LatestKline' \in Held'
<1>1. Held' \subseteq Minutes
  BY DEF Held
<1>2. CASE Held' = {}
  BY <1>2
<1>3. CASE Held' # {}
  <2>1. LatestKline' = MaxOf(Held')
    BY <1>3 DEF LatestKline, MaxOf
  <2>2. MaxOf(Held') \in Held' /\ \A m \in Held' : m <= MaxOf(Held')
    BY <1>1, <1>3, Extremes
  <2>3. QED
    BY <2>1, <2>2
<1>4. QED
  BY <1>2, <1>3

-----------------------------------------------------------------------------
(* Type correctness *)

LEMMA InitTypeOK == Init => TypeOK
<1> SUFFICES ASSUME Init PROVE TypeOK
  OBVIOUS
<1>1. PICK h \in SeededTo :
         /\ klines = [m \in Minutes |-> IF m <= h THEN symbolOf[0] ELSE None]
         /\ done = 1..h
  BY DEF Init
<1>2. symbolOf \in [Gens -> Symbols] /\ 0 \in Gens /\ now \in Minutes
  BY MarketAssumption DEF Init, Gens, Minutes
<1>3. klines \in [Minutes -> Symbols \cup {None}] /\ done \in SUBSET Minutes
  BY <1>1, <1>2, MarketAssumption DEF SeededTo, Minutes
<1>4. queue \in Seq([ctx : Gens, minutes : SUBSET Minutes])
  BY EmptySeq DEF Init
<1>5. QED
  BY <1>2, <1>3, <1>4, MarketAssumption DEF Init, TypeOK, Unknown

\* What the steps put together has its type.
LEMMA Enqueued ==
  ASSUME TypeOK, NEW c \in Gens, NEW minutes \in SUBSET Minutes, Enqueue(c, minutes)
  PROVE  /\ queue' \in Seq([ctx : Gens, minutes : SUBSET Minutes])
         /\ \/ queue' = queue
            \/ /\ enabled /\ Len(queue') = Len(queue) + 1
               /\ \A i \in 1..Len(queue) : queue'[i] = queue[i]
               /\ queue'[Len(queue) + 1] = [ctx |-> c, minutes |-> minutes]
<1> DEFINE e == [ctx |-> c, minutes |-> minutes]
<1>1. queue \in Seq([ctx : Gens, minutes : SUBSET Minutes]) /\ e \in [ctx : Gens, minutes : SUBSET Minutes]
  BY DEF TypeOK
<1>2. queue' = queue \/ (queue' = Append(queue, e) /\ enabled)
  <2>1. CASE minutes # {} /\ ~stopped /\ enabled
    BY <2>1 DEF Enqueue
  <2>2. CASE ~(minutes # {} /\ ~stopped /\ enabled)
    BY <2>2 DEF Enqueue
  <2>3. QED
    BY <2>1, <2>2
<1> HIDE DEF e
<1>3. /\ Append(queue, e) \in Seq([ctx : Gens, minutes : SUBSET Minutes])
      /\ Len(Append(queue, e)) = Len(queue) + 1
      /\ \A i \in 1..Len(queue) : Append(queue, e)[i] = queue[i]
      /\ Append(queue, e)[Len(queue) + 1] = e
  BY <1>1, AppendProperties
<1>4. QED
  BY <1>1, <1>2, <1>3 DEF e

\* The head of the queue is a batch, and the tail are the others.
LEMMA Dequeued ==
  ASSUME TypeOK, queue # <<>>
  PROVE  /\ Head(queue) \in [ctx : Gens, minutes : SUBSET Minutes] /\ Head(queue) = queue[1]
         /\ 1 \in 1..Len(queue)
         /\ Tail(queue) \in Seq([ctx : Gens, minutes : SUBSET Minutes])
         /\ Len(Tail(queue)) = Len(queue) - 1
         /\ \A i \in 1..Len(queue) - 1 : Tail(queue)[i] = queue[i + 1] /\ i + 1 \in 1..Len(queue)
<1>1. queue \in Seq([ctx : Gens, minutes : SUBSET Minutes])
  BY DEF TypeOK
<1>2. /\ Head(queue) \in [ctx : Gens, minutes : SUBSET Minutes]
      /\ Tail(queue) \in Seq([ctx : Gens, minutes : SUBSET Minutes])
      /\ Len(Tail(queue)) = Len(queue) - 1
      /\ \A i \in 1..Len(Tail(queue)) : Tail(queue)[i] = queue[i + 1]
  BY <1>1, HeadTailProperties
<1>3. Len(queue) \in Nat /\ Len(queue) # 0
  BY <1>1, LenProperties, EmptySeq
<1>4. Head(queue) = queue[1]
  BY <1>1, SMT
<1>5. QED
  BY <1>2, <1>3, <1>4

LEMMA WindowType ==
  ASSUME TypeOK
  PROVE  Window \subseteq Minutes /\ Window \subseteq 1..now
  BY MarketAssumption DEF TypeOK, Window, Minutes

LEMMA KnownType ==
  ASSUME TypeOK, NEW c \in Gens
  PROVE  Known(c) \in 0..MaxTime
  BY LatestKlineFacts, MarketAssumption DEF TypeOK, Known, Unknown

LEMMA FreshType ==
  ASSUME TypeOK, NEW c \in Gens, NEW minutes \in SUBSET Minutes
  PROVE  Fresh(c, minutes) \in SUBSET Minutes
  BY DEF TypeOK, Fresh

LEMMA MergedType ==
  ASSUME TypeOK
  PROVE  Merged \in [Minutes -> Symbols \cup {None}]
  BY DEF TypeOK, Merged

LEMMA ProducersTypeOK == TypeOK /\ (Tick \/ Stream \/ Rest \/ StreamFaults \/ RestFails) => TypeOK'
<1> SUFFICES ASSUME TypeOK, Tick \/ Stream \/ Rest \/ StreamFaults \/ RestFails
             PROVE  TypeOK'
  OBVIOUS
<1> USE DEF TypeOK, state, flags, coordinator, consumer, socket, poller
<1>1. CASE Tick
  BY <1>1, MarketAssumption DEF Tick, Minutes
<1>2. CASE StreamCapture
  BY <1>2 DEF StreamCapture
<1>3. CASE StreamOpen
  BY <1>3, MarketAssumption DEF StreamOpen, Minutes
<1>4. CASE StreamEvent
  <2>1. heard' \in 1..MaxTime /\ {heard'} \in SUBSET Minutes
    BY <1>4, MarketAssumption DEF StreamEvent, Minutes
  <2>2. queue' \in Seq([ctx : Gens, minutes : SUBSET Minutes])
    <3> HIDE DEF TypeOK
    <3>1. sctx \in Gens
      BY DEF TypeOK
    <3>2. QED
      BY <1>4, <2>1, <3>1, Enqueued DEF StreamEvent
  <2>3. QED
    BY <1>4, <2>1, <2>2 DEF StreamEvent
<1>5. CASE StreamEnds
  BY <1>5, MarketAssumption DEF StreamEnds, Disconnected, Gens
<1>6. CASE RestBegin
  BY <1>6 DEF RestBegin
<1>7. CASE RestDone
  <2>1. queue' \in Seq([ctx : Gens, minutes : SUBSET Minutes])
    <3> HIDE DEF TypeOK
    <3>1. rctx \in Gens
      BY DEF TypeOK
    <3>2. QED
      BY <1>7, <3>1, Enqueued, WindowType DEF RestDone
  <2>2. QED
    BY <1>7, <2>1, MarketAssumption DEF RestDone, Gens
<1>8. CASE StreamFaults
  BY <1>8, MarketAssumption DEF StreamFaults, Disconnected, Fault, Gens
<1>9. CASE RestFails
  BY <1>9, MarketAssumption DEF RestFails, Fault, Gens
<1>10. QED
  BY <1>1, <1>2, <1>3, <1>4, <1>5, <1>6, <1>7, <1>8, <1>9 DEF Stream, Rest
LEMMA ConsumerTypeOK ==
  TypeOK /\ (Consume \/ RecoverFails \/ UpdateFails \/ UpdateRaises) => TypeOK'
<1> SUFFICES ASSUME TypeOK, Consume \/ RecoverFails \/ UpdateFails \/ UpdateRaises
             PROVE  TypeOK'
  OBVIOUS
<1>0. 0 \in Gens /\ Window \subseteq Minutes /\ Merged \in [Minutes -> Symbols \cup {None}]
  BY WindowType, MergedType, MarketAssumption DEF Gens
<1> USE DEF TypeOK, state, flags, coordinator, consumer, socket, poller
<1>1. CASE DropStaleBatch
  <2>1. queue' \in Seq([ctx : Gens, minutes : SUBSET Minutes])
    <3> HIDE DEF TypeOK
    <3>1. QED
      BY <1>1, Dequeued DEF DropStaleBatch
  <2>2. QED
    BY <1>1, <2>1 DEF DropStaleBatch
<1>2. CASE TakeBatch
  <2> DEFINE c == Head(queue).ctx
             fresh == Fresh(c, Head(queue).minutes)
  <2>1. queue' \in Seq([ctx : Gens, minutes : SUBSET Minutes]) /\ c \in Gens
        /\ fresh \in SUBSET Minutes /\ Known(c) \in 0..MaxTime
    <3> HIDE DEF TypeOK
    <3>1. queue # <<>> /\ queue' = Tail(queue)
      BY <1>2 DEF TakeBatch
    <3>2. Head(queue) \in [ctx : Gens, minutes : SUBSET Minutes]
      BY <3>1, Dequeued
    <3>3. c \in Gens /\ Head(queue).minutes \in SUBSET Minutes
      BY <3>2
    <3>4. QED
      BY <3>1, <3>3, Dequeued, FreshType, KnownType
  <2>2. /\ cursor' = [cursor EXCEPT ![c] = Known(c)] /\ batch' = fresh
        /\ cctx' = IF fresh = {} THEN 0 ELSE c
        /\ cpc' = IF fresh = {} THEN "idle" ELSE IF Gap(c, fresh) THEN "recover" ELSE "ready"
    BY <1>2 DEF TakeBatch
  <2> HIDE DEF c, fresh
  <2>3. cursor' \in [Gens -> Unknown..MaxTime]
    BY <2>1, <2>2, MarketAssumption DEF Unknown
  <2>4. fresh # {} => \A m \in fresh : m > cursor'[c]
    BY <2>1, <2>2 DEF Fresh, fresh
  <2>5. QED
    BY <1>0, <1>2, <2>1, <2>2, <2>3, <2>4 DEF TakeBatch
<1>3. CASE Recover
  <2>1. batch' \in SUBSET Minutes /\ batch' # {}
    <3>1. CASE ContextActive(cctx)
      <4>1. PICK m \in batch : TRUE
        BY <1>3 DEF Recover
      <4>2. QED
        BY <1>0, <1>3, <3>1, <4>1 DEF Recover
    <3>2. CASE ~ContextActive(cctx)
      BY <1>3, <3>2 DEF Recover
    <3>3. QED
      BY <3>1, <3>2
  <2>2. QED
    BY <1>3, <2>1 DEF Recover
<1>4. CASE UpdateDropped
  BY <1>0, <1>4 DEF UpdateDropped, Idle
<1>5. CASE UpdateSucceeds
  BY <1>0, <1>5 DEF UpdateSucceeds
<1>6. CASE SkipOutcome
  BY <1>0, <1>6 DEF SkipOutcome, Idle
<1>7. CASE CommitCursor
  <2>1. MaxOf(batch) \in Minutes
    BY <1>7, Extremes DEF CommitCursor
  <2>2. cursor' \in [Gens -> Unknown..MaxTime] /\ retry' \in [Gens -> SUBSET Minutes]
    BY <1>7, <2>1, MarketAssumption DEF CommitCursor, Minutes, Unknown
  <2>3. retryRequired' \in BOOLEAN
    BY <1>7, Zenon DEF CommitCursor
  <2>4. QED
    BY <1>0, <1>7, <2>2, <2>3 DEF CommitCursor, Idle
<1>8. CASE MarkRetry
  BY <1>0, <1>8 DEF MarkRetry, Idle
<1>9. CASE RecoverFails
  BY <1>0, <1>9, MarketAssumption DEF RecoverFails, Idle, ConsumerRaises, Fault
<1>10. CASE UpdateFails
  BY <1>0, <1>10, MarketAssumption DEF UpdateFails, Fault
<1>11. CASE UpdateRaises
  BY <1>0, <1>11, MarketAssumption DEF UpdateRaises, Idle, ConsumerRaises, Fault
<1>12. QED
  BY <1>1, <1>2, <1>3, <1>4, <1>5, <1>6, <1>7, <1>8, <1>9, <1>10, <1>11 DEF Consume

LEMMA SwitchTypeOK == TypeOK /\ (SwitchPause \/ Switch \/ Stop) => TypeOK'
<1> SUFFICES ASSUME TypeOK, SwitchPause \/ Switch \/ Stop
             PROVE  TypeOK'
  OBVIOUS
<1>0. Unknown \in Unknown..MaxTime /\ (\A m \in Minutes : m > Unknown) /\ None \in Symbols \cup {None}
      /\ (gen < MaxSwitches => gen + 1 \in Gens)
  BY MarketAssumption DEF Unknown, Gens, Minutes, TypeOK
<1> USE DEF TypeOK, state, flags, coordinator, consumer, socket, poller
<1>1. CASE SwitchPause
  BY <1>1 DEF SwitchPause
<1>2. CASE SwitchPaused
  BY <1>0, <1>2 DEF SwitchPaused, ClearRetries, ClearCursor
<1>3. CASE SwitchReset
  <2>1. PICK s \in Symbols : symbolOf' = [symbolOf EXCEPT ![gen + 1] = s] /\ simSymbol' = s
    BY <1>3 DEF SwitchReset
  <2>2. klines' \in [Minutes -> Symbols \cup {None}]
    BY <1>0, <1>3 DEF SwitchReset, KlinesAfterReset
  <2>3. gen' \in Gens /\ symbolOf' \in [Gens -> Symbols] /\ simSymbol' \in Symbols
    BY <1>0, <1>3, <2>1 DEF SwitchReset
  <2>4. QED
    BY <1>3, <2>2, <2>3 DEF SwitchReset
<1>4. CASE SwitchResetFails
  <2>1. PICK s \in Symbols : symbolOf' = [symbolOf EXCEPT ![gen + 1] = s]
    BY <1>4 DEF SwitchResetFails
  <2>2. gen' \in Gens /\ symbolOf' \in [Gens -> Symbols]
    BY <1>0, <1>4, <2>1 DEF SwitchResetFails
  <2>3. QED
    BY <1>4, <2>2, MarketAssumption DEF SwitchResetFails, Fault
<1>5. CASE SwitchWarmup
  <2>1. PICK h \in SeededTo :
           /\ klines' = [m \in Minutes |-> IF m <= h THEN symbolOf[gen] ELSE klines[m]]
           /\ done' = 1..h
    BY <1>5 DEF SwitchWarmup
  <2>2. klines' \in [Minutes -> Symbols \cup {None}] /\ done' \in SUBSET Minutes
    BY <2>1, MarketAssumption DEF SeededTo, Minutes
  <2>3. QED
    BY <1>5, <2>2 DEF SwitchWarmup
<1>6. CASE SwitchRefresh
  BY <1>6 DEF SwitchRefresh, ClearRetries
<1>7. CASE StopRequest
  BY <1>7 DEF StopRequest
<1>8. CASE StopLocked
  BY <1>0, <1>8 DEF StopLocked, ClearRetries, ClearCursor
<1>9. QED
  BY <1>1, <1>2, <1>3, <1>4, <1>5, <1>6, <1>7, <1>8 DEF Switch, Stop

LEMMA StutterTypeOK == TypeOK /\ UNCHANGED vars => TypeOK'
  BY DEF TypeOK, vars, state, flags, coordinator, consumer, socket, poller

\* Every variable keeps its type: the consumer has minutes whenever it works
\* on a batch, and cursors, retries and contexts are within their bounds.
THEOREM MarketTypeCorrect == Spec => []TypeOK
<1>1. TypeOK /\ [Next]_vars => TypeOK'
  BY ProducersTypeOK, ConsumerTypeOK, SwitchTypeOK, StutterTypeOK DEF Next, Failures
<1>2. QED
  BY <1>1, InitTypeOK, PTL DEF Spec
-----------------------------------------------------------------------------
(* Symbols do not mix *)

\* Klines are only replaced by those of a batch of the active context, or by
\* the reset and the warm-up of a new one.
LEMMA KlinesChange ==
  ASSUME [Next]_vars
  PROVE  \/ klines' = klines
         \/ /\ UpdateSucceeds \/ UpdateFails \/ UpdateRaises
            /\ cpc = "ready" /\ cpc' # "ready" /\ ContextActive(cctx) /\ klines' = Merged
         \/ SwitchReset \/ SwitchWarmup
<1> USE DEF state
<1>1. UpdateSucceeds \/ UpdateFails => /\ cpc = "ready" /\ cpc' # "ready" /\ ContextActive(cctx)
                                      /\ klines' = Merged
  BY DEF UpdateSucceeds, UpdateFails
<1>2. UpdateRaises => /\ cpc = "ready" /\ cpc' # "ready" /\ ContextActive(cctx)
                      /\ klines' = Merged \/ klines' = klines
  BY DEF UpdateRaises, Idle
<1>3. Tick \/ Stream \/ Rest \/ StreamFaults \/ RestFails => klines' = klines
  BY DEF Tick, Stream, StreamCapture, StreamOpen, StreamEvent, StreamEnds, Rest, RestBegin,
         RestDone, StreamFaults, RestFails
<1>4. DropStaleBatch \/ TakeBatch \/ Recover \/ UpdateDropped \/ SkipOutcome \/ CommitCursor
      \/ MarkRetry \/ RecoverFails => klines' = klines
  BY DEF DropStaleBatch, TakeBatch, Recover, UpdateDropped, SkipOutcome, CommitCursor, MarkRetry,
         RecoverFails
<1>5. SwitchPause \/ SwitchPaused \/ SwitchResetFails \/ SwitchRefresh \/ Stop => klines' = klines
  BY DEF SwitchPause, SwitchPaused, SwitchResetFails, SwitchRefresh, Stop, StopRequest, StopLocked
<1>6. UNCHANGED vars => klines' = klines
  BY DEF vars
<1>7. QED
  BY <1>1, <1>2, <1>3, <1>4, <1>5, <1>6 DEF Next, Consume, Failures, Switch

\* The context, its symbol and whether a reset was left half done change with
\* a reset only.
LEMMA ContextChange ==
  ASSUME [Next]_vars
  PROVE  \/ gen' = gen /\ symbolOf' = symbolOf /\ simSymbol' = simSymbol /\ halfReset' = halfReset
         \/ SwitchReset \/ SwitchResetFails
<1> USE DEF state
<1>1. Tick \/ Stream \/ Rest \/ StreamFaults \/ RestFails
      => gen' = gen /\ symbolOf' = symbolOf /\ simSymbol' = simSymbol /\ halfReset' = halfReset
  BY DEF Tick, Stream, StreamCapture, StreamOpen, StreamEvent, StreamEnds, Rest, RestBegin,
         RestDone, StreamFaults, RestFails
<1>2. Consume \/ RecoverFails \/ UpdateFails \/ UpdateRaises
      => gen' = gen /\ symbolOf' = symbolOf /\ simSymbol' = simSymbol /\ halfReset' = halfReset
  BY DEF Consume, DropStaleBatch, TakeBatch, Recover, UpdateDropped, UpdateSucceeds, SkipOutcome,
         CommitCursor, MarkRetry, RecoverFails, UpdateFails, UpdateRaises
<1>3. SwitchPause \/ SwitchPaused \/ SwitchWarmup \/ SwitchRefresh \/ Stop
      => gen' = gen /\ symbolOf' = symbolOf /\ simSymbol' = simSymbol /\ halfReset' = halfReset
  BY DEF SwitchPause, SwitchPaused, SwitchWarmup, SwitchRefresh, Stop, StopRequest, StopLocked
<1>4. UNCHANGED vars
      => gen' = gen /\ symbolOf' = symbolOf /\ simSymbol' = simSymbol /\ halfReset' = halfReset
  BY DEF vars
<1>5. QED
  BY <1>1, <1>2, <1>3, <1>4 DEF Next, Failures, Switch

LEMMA StepKeepsOneSymbol == TypeOK /\ OneSymbol /\ [Next]_vars => OneSymbol'
<1> SUFFICES ASSUME TypeOK, OneSymbol, [Next]_vars, ~halfReset'
             PROVE  /\ \A m \in Held' : klines'[m] = symbolOf'[gen']
                    /\ simSymbol' = symbolOf'[gen']
  BY DEF OneSymbol
<1>1. CASE SwitchReset
  <2>1. PICK s \in Symbols : symbolOf' = [symbolOf EXCEPT ![gen + 1] = s] /\ simSymbol' = s
    BY <1>1 DEF SwitchReset
  <2>2. gen' = gen + 1 /\ gen + 1 \in Gens
    BY <1>1, MarketAssumption DEF SwitchReset, TypeOK, Gens
  <2>3. Held' = {}
    BY <1>1 DEF SwitchReset, Held, KlinesAfterReset
  <2>4. QED
    BY <2>1, <2>2, <2>3 DEF TypeOK
<1>2. CASE SwitchResetFails
  BY <1>2 DEF SwitchResetFails
<1>3. CASE gen' = gen /\ symbolOf' = symbolOf /\ simSymbol' = simSymbol /\ halfReset' = halfReset
  <2>1. (\A m \in Held : klines[m] = symbolOf[gen]) /\ simSymbol = symbolOf[gen]
    BY <1>3 DEF OneSymbol
  <2>2. CASE klines' = klines
    BY <1>3, <2>1, <2>2 DEF Held
  <2>3. CASE ContextActive(cctx) /\ klines' = Merged
    <3>1. cctx = gen
      BY <2>3 DEF ContextActive
    <3>2. \A m \in Minutes : klines'[m] = symbolOf[gen] \/ klines'[m] = klines[m]
      BY <2>3, <3>1 DEF Merged
    <3>3. QED
      BY <1>3, <2>1, <3>2 DEF Held
  <2>4. CASE SwitchWarmup
    <3>1. \A m \in Minutes : klines'[m] = symbolOf[gen] \/ klines'[m] = klines[m]
      BY <2>4 DEF SwitchWarmup
    <3>2. QED
      BY <1>3, <2>1, <3>1 DEF Held
  <2>5. CASE SwitchReset
    BY <1>1, <2>5
  <2>6. QED
    BY <2>2, <2>3, <2>4, <2>5, KlinesChange
<1>4. QED
  BY <1>1, <1>2, <1>3, ContextChange

\* Whatever the stream, the downloads and the consumer have under way when the
\* symbol is switched, the klines held and the orders simulated are those of
\* the symbol in force, unless its reset raised half way.
THEOREM SymbolsDoNotMix == Spec => []OneSymbol
<1>1. Init => OneSymbol
  BY DEF Init, OneSymbol, Held
<1>2. QED
  BY <1>1, StepKeepsOneSymbol, MarketTypeCorrect, PTL DEF Spec
-----------------------------------------------------------------------------
(* The minutes of a context, in order *)

Produce == Tick \/ Stream \/ Rest \/ StreamFaults \/ RestFails

\* The producers touch neither the state nor what the consumer keeps.
LEMMA ProduceFrame ==
  ASSUME TypeOK, Produce
  PROVE  /\ UNCHANGED <<state, flags, coordinator, consumer, hpc, done, halfReset>>
         /\ now <= now' /\ now' \in Nat
<1> USE DEF TypeOK, Minutes
<1>1. CASE Tick
  BY <1>1, MarketAssumption DEF Tick
<1>2. CASE StreamCapture \/ StreamOpen \/ StreamEvent \/ StreamEnds
  BY <1>2, MarketAssumption DEF StreamCapture, StreamOpen, StreamEvent, StreamEnds
<1>3. CASE RestBegin \/ RestDone
  BY <1>3, MarketAssumption DEF RestBegin, RestDone
<1>4. CASE StreamFaults \/ RestFails
  BY <1>4, MarketAssumption DEF StreamFaults, RestFails
<1>5. QED
  BY <1>1, <1>2, <1>3, <1>4 DEF Produce, Stream, Rest

\* What a producer puts in the queue is of a context that exists, and has
\* closed.
LEMMA ProduceQueue ==
  ASSUME TypeOK, OnlyClosedMinutes, NothingAhead, Produce
  PROVE  \A i \in 1..Len(queue') : queue'[i].minutes \subseteq 1..now /\ queue'[i].ctx <= gen
<1>1. \A i \in 1..Len(queue) : queue[i].minutes \subseteq 1..now /\ queue[i].ctx <= gen
  BY DEF OnlyClosedMinutes, NothingAhead
<1>2. ASSUME NEW c \in Gens, NEW minutes \in SUBSET Minutes, Enqueue(c, minutes),
             c <= gen, minutes \subseteq 1..now
      PROVE  \A i \in 1..Len(queue') : queue'[i].minutes \subseteq 1..now /\ queue'[i].ctx <= gen
  <2>1. CASE queue' = queue
    BY <1>1, <2>1
  <2>2. CASE queue' # queue
    <3> DEFINE n == Len(queue)
               e == [ctx |-> c, minutes |-> minutes]
    <3>1. /\ Len(queue') = n + 1 /\ n \in Nat
          /\ \A i \in 1..n : queue'[i] = queue[i]
          /\ queue'[n + 1] = e
      BY <1>2, <2>2, Enqueued, LenProperties DEF TypeOK
    <3>2. e.minutes = minutes /\ e.ctx = c
      OBVIOUS
    <3> HIDE DEF n, e
    <3>3. \A i \in 1..n + 1 : i \in 1..n \/ i = n + 1
      BY <3>1
    <3>4. QED
      BY <1>1, <1>2, <3>1, <3>2, <3>3 DEF n
  <2>3. QED
    BY <2>1, <2>2
<1>3. CASE StreamEvent
  <2>1. sctx \in Gens /\ {heard'} \in SUBSET Minutes /\ {heard'} \subseteq 1..now /\ sctx <= gen
    BY <1>3, MarketAssumption DEF StreamEvent, TypeOK, Minutes, NothingAhead
  <2>2. Enqueue(sctx, {heard'})
    BY <1>3 DEF StreamEvent
  <2>3. QED
    BY <1>2, <2>1, <2>2
<1>4. CASE RestDone
  <2>1. rctx \in Gens /\ Window \in SUBSET Minutes /\ Window \subseteq 1..now /\ rctx <= gen
    BY WindowType DEF TypeOK, NothingAhead
  <2>2. QED
    BY <1>2, <1>4, <2>1 DEF RestDone
<1>5. CASE Tick \/ StreamCapture \/ StreamOpen \/ StreamEnds \/ RestBegin \/ StreamFaults \/ RestFails
  <2>1. queue' = queue
    BY <1>5 DEF Tick, StreamCapture, StreamOpen, StreamEnds, RestBegin, StreamFaults, RestFails
  <2>2. QED
    BY <1>1, <2>1
<1>6. QED
  BY <1>3, <1>4, <1>5 DEF Produce, Stream, Rest

\* Known minutes come before the fresh ones, which are those of the batch and
\* those kept for a retry.
LEMMA TakenBatch ==
  ASSUME TypeOK, TakeBatch, NEW c, c = Head(queue).ctx
  PROVE  /\ c \in Gens /\ ContextActive(c) /\ Known(c) \in 0..MaxTime
         /\ Head(queue) \in [ctx : Gens, minutes : SUBSET Minutes]
         /\ cursor' = [cursor EXCEPT ![c] = Known(c)] /\ retry' = retry
         /\ batch' = Fresh(c, Head(queue).minutes) /\ batch' \in SUBSET Minutes
         /\ \A m \in batch' : m > Known(c)
         /\ cctx' = IF batch' = {} THEN 0 ELSE c
         /\ cpc' = IF batch' = {} THEN "idle" ELSE IF Gap(c, batch') THEN "recover" ELSE "ready"
         /\ queue' = Tail(queue) /\ queue # <<>> /\ cpc = "idle"
<1>1. queue # <<>> /\ Head(queue) \in [ctx : Gens, minutes : SUBSET Minutes]
  BY Dequeued DEF TakeBatch
<1>2. c \in Gens /\ Head(queue).minutes \in SUBSET Minutes
  BY <1>1
<1>3. Known(c) \in 0..MaxTime /\ Fresh(c, Head(queue).minutes) \in SUBSET Minutes
  BY <1>2, FreshType, KnownType
<1>4. \A m \in Fresh(c, Head(queue).minutes) : m > Known(c)
  BY DEF Fresh
<1>5. QED
  BY <1>1, <1>2, <1>3, <1>4 DEF TakeBatch

LEMMA StepKeepsOnlyClosed ==
  ASSUME TypeOK, OnlyClosedMinutes, NothingAhead, [Next]_vars
  PROVE  OnlyClosedMinutes'
<1> USE DEF TypeOK, OnlyClosedMinutes, state, flags, coordinator, consumer
<1>1. CASE Produce
  <2>1. /\ UNCHANGED <<state, flags, coordinator, consumer, hpc, done, halfReset>>
        /\ now <= now' /\ now' \in Nat /\ now \in Nat
    BY <1>1, ProduceFrame, MarketAssumption DEF Minutes
  <2>2. \A i \in 1..Len(queue') : queue'[i].minutes \subseteq 1..now
    BY <1>1, ProduceQueue
  <2>3. 1..now \subseteq 1..now'
    BY <2>1
  <2>4. Held' \subseteq 1..now' /\ batch' \subseteq 1..now' /\ done' \subseteq 1..now'
    BY <2>1, <2>3 DEF Held
  <2>5. \A g \in Gens : retry'[g] \subseteq 1..now'
    BY <2>1, <2>3
  <2>6. \A i \in 1..Len(queue') : queue'[i].minutes \subseteq 1..now'
    BY <2>2, <2>3
  <2>7. QED
    BY <2>4, <2>5, <2>6
<1>2. CASE DropStaleBatch \/ TakeBatch
  <2>1. queue # <<>> /\ queue' = Tail(queue) /\ now' = now /\ klines' = klines /\ done' = done
        /\ retry' = retry
    BY <1>2 DEF DropStaleBatch, TakeBatch
  <2>2. \A i \in 1..Len(queue') : queue'[i].minutes \subseteq 1..now
    BY <2>1, Dequeued
  <2>3. batch' \subseteq 1..now
    <3>1. CASE DropStaleBatch
      BY <3>1 DEF DropStaleBatch
    <3>2. CASE TakeBatch
      <4> DEFINE c == Head(queue).ctx
      <4>1. batch' = Fresh(c, Head(queue).minutes) /\ c \in Gens
        BY <3>2, TakenBatch
      <4>2. Head(queue).minutes \subseteq 1..now
        BY <2>1, Dequeued
      <4>3. retry[c] \subseteq 1..now
        BY <4>1
      <4>4. QED
        BY <4>1, <4>2, <4>3 DEF Fresh
    <3>3. QED
      BY <1>2, <3>1, <3>2
  <2>4. QED
    BY <2>1, <2>2, <2>3 DEF Held
<1>3. CASE Recover
  BY <1>3, WindowType DEF Recover, Held
<1>4. CASE UpdateSucceeds \/ UpdateFails \/ UpdateRaises
  <2>1. /\ now' = now /\ retry' = retry /\ queue' = queue /\ batch' \subseteq batch
        /\ done' \subseteq done \cup batch /\ klines' \in {klines, Merged}
    BY <1>4 DEF UpdateSucceeds, UpdateFails, UpdateRaises, Idle
  <2>2. Held' \subseteq Held \cup batch
    BY <2>1 DEF Held, Merged
  <2>3. QED
    BY <2>1, <2>2
<1>5. CASE UpdateDropped \/ SkipOutcome \/ CommitCursor \/ MarkRetry \/ RecoverFails
  <2>1. /\ now' = now /\ queue' = queue /\ batch' = {} /\ done' = done /\ klines' = klines
        /\ \A g \in Gens : retry'[g] \subseteq retry[g] \cup batch
    BY <1>5 DEF UpdateDropped, SkipOutcome, CommitCursor, MarkRetry, RecoverFails, Idle
  <2>2. QED
    BY <2>1 DEF Held
<1>6. CASE SwitchPause \/ SwitchPaused \/ SwitchReset \/ SwitchResetFails \/ SwitchRefresh \/ Stop
  <2>1. now' = now /\ queue' = queue /\ batch' = batch
    BY <1>6 DEF SwitchPause, SwitchPaused, SwitchReset, SwitchResetFails, SwitchRefresh, Stop,
                StopRequest, StopLocked
  <2>2. done' \subseteq done /\ Held' \subseteq Held
    <3>1. (klines' = klines \/ klines' = KlinesAfterReset) /\ (done' = done \/ done' = {})
      BY <1>6 DEF SwitchPause, SwitchPaused, SwitchReset, SwitchResetFails, SwitchRefresh, Stop,
                  StopRequest, StopLocked
    <3>2. QED
      BY <3>1 DEF Held, KlinesAfterReset
  <2>3. \A g \in Gens : retry'[g] \subseteq retry[g]
    BY <1>6 DEF SwitchPause, SwitchPaused, SwitchReset, SwitchResetFails, SwitchRefresh, Stop,
                StopRequest, StopLocked, ClearRetries
  <2>4. QED
    BY <2>1, <2>2, <2>3
<1>7. CASE SwitchWarmup
  <2>1. PICK h \in SeededTo :
           /\ klines' = [m \in Minutes |-> IF m <= h THEN symbolOf[gen] ELSE klines[m]]
           /\ done' = 1..h
    BY <1>7 DEF SwitchWarmup
  <2>2. Held' \subseteq 1..now /\ done' \subseteq 1..now
    BY <2>1, MarketAssumption DEF Held, SeededTo, Minutes
  <2>3. QED
    BY <1>7, <2>2 DEF SwitchWarmup
<1>8. CASE UNCHANGED vars
  BY <1>8 DEF vars, Held
<1>9. QED
  BY <1>1, <1>2, <1>3, <1>4, <1>5, <1>6, <1>7, <1>8
     DEF Next, Produce, Consume, Failures, Switch
LEMMA StepKeepsNothingAhead ==
  ASSUME TypeOK, OnlyClosedMinutes, NothingAhead, [Next]_vars
  PROVE  NothingAhead'
<1> USE DEF TypeOK, NothingAhead, state, flags, coordinator, consumer, socket, poller
<1>0. gen \in Nat /\ 0 <= gen /\ 0 \in Gens
  BY MarketAssumption DEF Gens
<1>1. CASE Produce
  <2>1. UNCHANGED <<state, flags, coordinator, consumer, hpc, done, halfReset>>
    BY <1>1, ProduceFrame
  <2>2. \A i \in 1..Len(queue') : queue'[i].ctx <= gen
    BY <1>1, ProduceQueue
  <2>3. sctx' <= gen /\ rctx' <= gen
    BY <1>0, <1>1 DEF Produce, Tick, Stream, StreamCapture, StreamOpen, StreamEvent, StreamEnds,
                      Disconnected, Rest, RestBegin, RestDone, StreamFaults, RestFails
  <2>4. QED
    BY <2>1, <2>2, <2>3
<1>2. CASE DropStaleBatch \/ TakeBatch
  <2>1. queue # <<>> /\ queue' = Tail(queue) /\ gen' = gen /\ sctx' = sctx /\ rctx' = rctx
    BY <1>2 DEF DropStaleBatch, TakeBatch
  <2>2. \A i \in 1..Len(queue') : queue'[i].ctx <= gen
    BY <2>1, Dequeued
  <2>3. cctx' <= gen /\ \A g \in Gens : g > gen => cursor'[g] = Unknown /\ retry'[g] = {}
    <3>1. CASE DropStaleBatch
      BY <3>1 DEF DropStaleBatch
    <3>2. CASE TakeBatch
      <4> DEFINE c == Head(queue).ctx
      <4>1. /\ c \in Gens /\ cursor' = [cursor EXCEPT ![c] = Known(c)] /\ retry' = retry
            /\ cctx' = IF batch' = {} THEN 0 ELSE c
        BY <3>2, TakenBatch
      <4>2. c <= gen
        BY <2>1, Dequeued
      <4> HIDE DEF c
      <4>3. \A g \in Gens : g > gen => g # c
        BY <1>0, <4>2 DEF Gens
      <4>4. QED
        BY <1>0, <4>1, <4>2, <4>3
    <3>3. QED
      BY <1>2, <3>1, <3>2
  <2>4. QED
    BY <2>1, <2>2, <2>3
<1>3. CASE Recover \/ UpdateDropped \/ UpdateSucceeds \/ SkipOutcome \/ RecoverFails \/ UpdateFails
           \/ UpdateRaises
  BY <1>0, <1>3 DEF Recover, UpdateDropped, UpdateSucceeds, SkipOutcome, RecoverFails, UpdateFails,
                    UpdateRaises, Idle
<1>4. CASE CommitCursor \/ MarkRetry
  <2>1. \A g \in Gens : g > gen => g # cctx
    BY <1>0 DEF Gens
  <2>2. QED
    BY <1>0, <1>4, <2>1 DEF CommitCursor, MarkRetry, Idle
<1>5. CASE SwitchPause \/ SwitchWarmup \/ SwitchPaused \/ SwitchRefresh \/ Stop
  BY <1>0, <1>5 DEF SwitchPause, SwitchWarmup, SwitchPaused, SwitchRefresh, Stop, StopRequest,
                    StopLocked, ClearCursor, ClearRetries
<1>6. CASE SwitchReset \/ SwitchResetFails
  <2>1. gen' = gen + 1
    BY <1>6 DEF SwitchReset, SwitchResetFails
  <2>2. /\ cctx' = cctx /\ sctx' = sctx /\ rctx' = rctx /\ queue' = queue
        /\ cursor' = cursor /\ retry' = retry
    BY <1>6 DEF SwitchReset, SwitchResetFails
  <2>3. \A k \in Int : (k <= gen => k <= gen + 1) /\ (k > gen + 1 => k > gen)
    BY <1>0
  <2>4. \A i \in 1..Len(queue) : queue[i].ctx \in Int
    <3>1. \A i \in 1..Len(queue) : queue[i] \in [ctx : Gens, minutes : SUBSET Minutes]
      BY ElementOfSeq
    <3>2. QED
      BY <3>1, MarketAssumption DEF Gens
  <2>5. Gens \subseteq Int
    BY MarketAssumption DEF Gens
  <2>6. QED
    BY <2>1, <2>2, <2>3, <2>4, <2>5
<1>7. CASE UNCHANGED vars
  BY <1>7 DEF vars
<1>8. QED
  BY <1>1, <1>2, <1>3, <1>4, <1>5, <1>6, <1>7 DEF Next, Produce, Consume, Failures, Switch

LEMMA StepKeepsEnabledWhenIdle ==
  ASSUME TypeOK, EnabledWhenIdle, [Next]_vars
  PROVE  EnabledWhenIdle'
<1> USE DEF TypeOK, EnabledWhenIdle, state, flags
<1>1. CASE Produce
  BY <1>1, ProduceFrame
<1>2. CASE Consume \/ RecoverFails \/ UpdateFails \/ UpdateRaises
  BY <1>2 DEF Consume, DropStaleBatch, TakeBatch, Recover, UpdateDropped, UpdateSucceeds,
              SkipOutcome, CommitCursor, MarkRetry, RecoverFails, UpdateFails, UpdateRaises
<1>3. CASE SwitchPause \/ Switch \/ Stop
  BY <1>3 DEF SwitchPause, Switch, SwitchPaused, SwitchReset, SwitchResetFails, SwitchWarmup,
              SwitchRefresh, Stop, StopRequest, StopLocked
<1>4. CASE UNCHANGED vars
  BY <1>4 DEF vars
<1>5. QED
  BY <1>1, <1>2, <1>3, <1>4 DEF Next, Produce, Failures

\* An active context means that no request switches the symbol.
LEMMA ActiveIsIdle ==
  ASSUME EnabledWhenIdle, NEW c, ContextActive(c)
  PROVE  hpc = "idle" /\ c = gen /\ enabled /\ ~stopRequested /\ ~stopped
  BY DEF EnabledWhenIdle, ContextActive

LEMMA StepKeepsNewContextFresh ==
  ASSUME TypeOK, EnabledWhenIdle, OnlyClosedMinutes, NothingAhead, NewContextIsFresh, [Next]_vars
  PROVE  NewContextIsFresh'
<1> USE DEF TypeOK, NewContextIsFresh, state, flags, coordinator, consumer
<1>0. gen \in Gens /\ gen \in Nat /\ cctx \in Nat
  BY MarketAssumption DEF Gens
<1>1. CASE Produce
  BY <1>1, ProduceFrame DEF Held, LatestKline
<1>2. CASE DropStaleBatch
  BY <1>2 DEF DropStaleBatch, Held, LatestKline
<1>3. CASE TakeBatch
  <2>1. hpc = "idle" /\ hpc' = hpc
    BY <1>3, TakenBatch, ActiveIsIdle DEF TakeBatch
  <2>2. QED
    BY <2>1
<1>4. CASE Recover \/ UpdateDropped \/ SkipOutcome \/ RecoverFails
  BY <1>4 DEF Recover, UpdateDropped, SkipOutcome, RecoverFails, Idle, Held, LatestKline
<1>5. CASE UpdateSucceeds \/ UpdateFails \/ UpdateRaises
  <2>1. hpc = "idle" /\ hpc' = hpc
    BY <1>5, ActiveIsIdle DEF UpdateSucceeds, UpdateFails, UpdateRaises
  <2>2. QED
    BY <2>1
<1>6. CASE CommitCursor
  <2>1. cpc' = "idle" /\ (cctx # gen => cursor'[gen] = cursor[gen]) /\ gen' = gen /\ hpc' = hpc
        /\ klines' = klines /\ done' = done /\ cpc = "commit"
    BY <1>0, <1>6 DEF CommitCursor, Idle
  <2>2. hpc \in {"warmup", "refresh"} => cctx # gen
    BY <1>0, <2>1
  <2>3. QED
    BY <2>1, <2>2 DEF Held, LatestKline
<1>7. CASE MarkRetry
  BY <1>7 DEF MarkRetry, Idle, Held, LatestKline
<1>8. CASE SwitchPause \/ SwitchPaused \/ SwitchRefresh
  BY <1>8 DEF SwitchPause, SwitchPaused, SwitchRefresh
<1>9. CASE SwitchReset
  <2>1. Held' = {} /\ hpc' = "warmup"
    BY <1>9 DEF SwitchReset, Held, KlinesAfterReset
  <2>2. gen' = gen + 1 /\ gen + 1 \in Gens /\ cctx' = cctx /\ cctx < gen + 1 /\ cursor' = cursor
    BY <1>0, <1>9, MarketAssumption DEF SwitchReset, NothingAhead, Gens
  <2>3. cursor[gen + 1] = Unknown
    BY <1>0, <2>2 DEF NothingAhead
  <2>4. QED
    BY <2>1, <2>2, <2>3
<1>10. CASE SwitchResetFails
  <2>1. done' = {} /\ hpc' = "refresh"
    BY <1>10 DEF SwitchResetFails
  <2>2. gen' = gen + 1 /\ gen + 1 \in Gens /\ cctx' = cctx /\ cctx < gen + 1 /\ cursor' = cursor
    BY <1>0, <1>10, MarketAssumption DEF SwitchResetFails, NothingAhead, Gens
  <2>3. cursor[gen + 1] = Unknown
    BY <1>0, <2>2 DEF NothingAhead
  <2>4. QED
    BY <2>1, <2>2, <2>3
<1>11. CASE SwitchWarmup
  <2>1. PICK h \in SeededTo :
           /\ klines' = [m \in Minutes |-> IF m <= h THEN symbolOf[gen] ELSE klines[m]]
           /\ done' = 1..h
    BY <1>11 DEF SwitchWarmup
  <2>2. symbolOf[gen] # None /\ \A m \in Minutes : klines[m] = None
    BY <1>11, NoneIsNoSymbol DEF SwitchWarmup, Held
  <2>3. Held' = 1..h
    BY <2>1, <2>2, MarketAssumption DEF Held, SeededTo, Minutes
  <2>4. /\ \A m \in Held' : m <= LatestKline'
        /\ Held' # {} => LatestKline' \in Held'
    BY LatestKlinePrimed
  <2>5. QED
    BY <1>11, <2>1, <2>3, <2>4 DEF SwitchWarmup
<1>12. CASE Stop
  BY <1>0, <1>12 DEF Stop, StopRequest, StopLocked, ClearCursor, ClearRetries, Held, LatestKline
<1>13. CASE UNCHANGED vars
  BY <1>13 DEF vars, Held, LatestKline
<1>14. QED
  BY <1>1, <1>2, <1>3, <1>4, <1>5, <1>6, <1>7, <1>8, <1>9, <1>10, <1>11, <1>12, <1>13
     DEF Next, Produce, Consume, Failures, Switch
\* What is known of the active context at a time no batch of its is under way.
LEMMA KnownWhenIdle ==
  ASSUME TypeOK, KnownIsDone, ContextActive(gen), ~(cpc = "commit" /\ cctx = gen)
  PROVE  /\ \A d \in done : d <= Known(gen)
         /\ done # {} => Known(gen) \in done
  BY DEF KnownIsDone

LEMMA StepKeepsKnownIsDone ==
  ASSUME TypeOK, EnabledWhenIdle, OnlyClosedMinutes, NothingAhead, NewContextIsFresh, KnownIsDone,
         BatchIsFresh, [Next]_vars
  PROVE  KnownIsDone'
<1> USE DEF TypeOK, state, flags, coordinator, consumer
<1>0. gen \in Gens /\ gen \in Nat /\ cctx \in Nat
  BY MarketAssumption DEF Gens
<1>1. CASE Produce
  <2>1. UNCHANGED <<state, flags, coordinator, consumer, hpc, done, halfReset>>
    BY <1>1, ProduceFrame
  <2>2. QED
    BY <2>1 DEF KnownIsDone, Known, LatestKline, Held, ContextActive
<1>2. CASE DropStaleBatch \/ UpdateDropped \/ RecoverFails \/ Recover
  BY <1>2 DEF DropStaleBatch, UpdateDropped, RecoverFails, Recover, Idle, KnownIsDone, Known,
              LatestKline, Held, ContextActive
<1>3. CASE TakeBatch
  <2> DEFINE c == Head(queue).ctx
  <2>1. /\ c = gen /\ ContextActive(gen) /\ cursor' = [cursor EXCEPT ![c] = Known(c)]
        /\ Known(gen) \in 0..MaxTime /\ cpc = "idle" /\ cpc' # "commit"
        /\ done' = done /\ gen' = gen
    BY <1>3, TakenBatch DEF ContextActive, TakeBatch
  <2>2. Known(gen)' = Known(gen)
    <3>1. cursor'[gen] = Known(gen)
      BY <1>0, <2>1
    <3>2. cursor'[gen] # Unknown
      BY <2>1, <3>1, MarketAssumption DEF Unknown
    <3>3. QED
      BY <2>1, <3>1, <3>2 DEF Known
  <2>3. QED
    BY <2>1, <2>2, KnownWhenIdle DEF KnownIsDone
<1>4. CASE UpdateSucceeds
  <2>1. /\ cctx = gen /\ ContextActive(gen) /\ Working /\ cpc' = "commit" /\ done' = done \cup batch
        /\ gen' = gen /\ cctx' = cctx /\ batch' = batch /\ cursor' = cursor
    BY <1>4 DEF UpdateSucceeds, ContextActive, Working
  <2>2. cursor[gen] # Unknown /\ Known(gen)' = Known(gen)
    BY <2>1 DEF BatchIsFresh, Known
  <2>3. \A d \in done : d <= Known(gen)
    BY <1>4, <2>1, KnownWhenIdle DEF UpdateSucceeds
  <2>4. QED
    BY <2>1, <2>2, <2>3 DEF KnownIsDone
<1>5. CASE UpdateFails \/ UpdateRaises
  <2>1. /\ cctx = gen /\ ContextActive(gen) /\ Working /\ cpc = "ready" /\ cpc' # "commit"
        /\ done' = done /\ gen' = gen /\ cursor' = cursor
    BY <1>5 DEF UpdateFails, UpdateRaises, ContextActive, Working, Idle
  <2>2. cursor[gen] # Unknown /\ Known(gen)' = Known(gen)
    BY <2>1 DEF BatchIsFresh, Known
  <2>3. QED
    BY <2>1, <2>2, KnownWhenIdle DEF KnownIsDone
<1>6. CASE SkipOutcome
  <2>1. /\ ~ContextActive(cctx) /\ cpc' = "idle" /\ done' = done /\ gen' = gen /\ cursor' = cursor
        /\ klines' = klines /\ ContextActive(gen)' = ContextActive(gen)
    BY <1>6 DEF SkipOutcome, Idle, ContextActive
  <2>2. ContextActive(gen) => cctx # gen
    BY <2>1
  <2>3. QED
    BY <2>1, <2>2 DEF KnownIsDone, Known, LatestKline, Held
<1>7. CASE CommitCursor
  <2>1. /\ cpc = "commit" /\ cpc' = "idle" /\ done' = done /\ gen' = gen /\ klines' = klines
        /\ cursor' = [cursor EXCEPT ![cctx] = MaxOf(batch)]
        /\ ContextActive(gen)' = ContextActive(gen)
    BY <1>7 DEF CommitCursor, Idle, ContextActive
  <2>2. CASE cctx # gen
    <3>1. cursor'[gen] = cursor[gen]
      BY <2>1, <2>2
    <3>2. QED
      BY <2>1, <2>2, <3>1 DEF KnownIsDone, Known, LatestKline, Held
  <2>3. CASE cctx = gen /\ ContextActive(gen)
    <3>1. batch # {} /\ MaxOf(batch) \in batch /\ \A m \in batch : m <= MaxOf(batch)
      BY <2>1, Extremes
    <3>2. Known(gen)' = MaxOf(batch)
      <4>1. cursor'[gen] = MaxOf(batch)
        BY <1>0, <2>1, <2>3
      <4>2. MaxOf(batch) # Unknown
        BY <3>1, MarketAssumption DEF Unknown, Minutes
      <4>3. QED
        BY <2>1, <4>1, <4>2 DEF Known
    <3>3. cursor[gen] # Unknown /\ (\A m \in batch : m > cursor[gen])
      BY <2>1, <2>3 DEF BatchIsFresh, Working
    <3>4. Known(gen) = cursor[gen]
      BY <3>3 DEF Known
    <3>5. \A d \in done : d <= MaxOf(batch)
      <4>1. ASSUME NEW d \in done, d <= cursor[gen] PROVE d <= MaxOf(batch)
        <5>1. d \in Minutes /\ MaxOf(batch) \in Minutes /\ MaxOf(batch) > cursor[gen]
          BY <3>1, <3>3
        <5>2. d \in Int /\ MaxOf(batch) \in Int /\ cursor[gen] \in Int
          BY <1>0, <5>1, MarketAssumption DEF Minutes, Unknown
        <5>3. QED
          BY <4>1, <5>1, <5>2
      <4>2. \A d \in done : d <= cursor[gen] \/ d \in batch
        BY <2>3, <3>4 DEF KnownIsDone
      <4>3. QED
        BY <3>1, <4>1, <4>2
    <3>6. batch \subseteq done
      BY <2>1, <2>3 DEF BatchIsFresh, Working
    <3>7. QED
      BY <2>1, <3>1, <3>2, <3>5, <3>6 DEF KnownIsDone
  <2>4. CASE ~ContextActive(gen)
    BY <2>1, <2>4 DEF KnownIsDone
  <2>5. QED
    BY <2>2, <2>3, <2>4
<1>8. CASE MarkRetry
  <2>1. UNCHANGED <<state, flags, cursor, done>> /\ cpc = "mark" /\ cpc' = "idle"
    BY <1>8 DEF MarkRetry, Idle
  <2>2. QED
    BY <2>1 DEF KnownIsDone, Known, LatestKline, Held, ContextActive
<1>9. CASE SwitchPause \/ SwitchPaused \/ SwitchReset \/ SwitchResetFails \/ SwitchWarmup
           \/ StopLocked
  <2>1. ~ContextActive(gen)'
    <3>1. enabled' = FALSE \/ stopped' = TRUE
      BY <1>9 DEF SwitchPause, SwitchPaused, SwitchReset, SwitchResetFails, SwitchWarmup,
                  EnabledWhenIdle, StopLocked
    <3>2. QED
      BY <3>1 DEF ContextActive
  <2>2. QED
    BY <2>1 DEF KnownIsDone
<1>10. CASE SwitchRefresh
  <2>1. /\ hpc = "refresh" /\ cpc' = cpc /\ cctx' = cctx /\ gen' = gen /\ done' = done
        /\ cursor' = cursor /\ klines' = klines
    BY <1>10 DEF SwitchRefresh
  <2>2. cursor[gen] = Unknown /\ ~(cpc = "commit" /\ cctx = gen)
    BY <1>0, <2>1 DEF NewContextIsFresh
  <2>3. Known(gen)' = LatestKline
    BY <2>1, <2>2 DEF Known, LatestKline, Held
  <2>4. QED
    BY <2>1, <2>2, <2>3 DEF KnownIsDone, NewContextIsFresh
<1>11. CASE StopRequest
  <2>1. ~ContextActive(gen)'
    BY <1>11 DEF StopRequest, ContextActive
  <2>2. QED
    BY <2>1 DEF KnownIsDone
<1>12. CASE UNCHANGED vars
  BY <1>12 DEF vars, KnownIsDone, Known, LatestKline, Held, ContextActive
<1>13. QED
  BY <1>1, <1>2, <1>3, <1>4, <1>5, <1>6, <1>7, <1>8, <1>9, <1>10, <1>11, <1>12
     DEF Next, Produce, Consume, Failures, Switch, Stop
\* What is too old for a download stays so.
LEMMA StillBehind ==
  \A m \in Int, limit, before, after \in Nat :
     m <= before - limit /\ before <= after => m <= after - limit
  OBVIOUS

LEMMA SameMinute ==
  \A m, n \in Int : m <= n /\ n <= m => m = n
  OBVIOUS

\* The minutes handed over follow what is known: a batch that leaves a gap has
\* been completed with what REST still returns.
LEMMA NoGap ==
  ASSUME TypeOK, NEW c \in Gens, NEW fresh \in SUBSET Minutes, fresh # {},
         \A m \in fresh : m > Known(c), ~Gap(c, fresh), Known(c) # NoKline
  PROVE  \A m \in Known(c) + 1..MinOf(fresh) : m \in fresh
<1>1. MinOf(fresh) \in fresh /\ MinOf(fresh) \in Minutes
  BY Extremes
<1>2. Known(c) \in Int /\ MinOf(fresh) \in Int
  BY <1>1, KnownType, MarketAssumption DEF Minutes
<1>3. MinOf(fresh) = Known(c) + 1
  BY <1>1, <1>2 DEF Gap
<1>4. QED
  BY <1>1, <1>2, <1>3

LEMMA StepKeepsBatchFresh ==
  ASSUME TypeOK, EnabledWhenIdle, OnlyClosedMinutes, NothingAhead, NewContextIsFresh,
         BatchIsFresh, [Next]_vars
  PROVE  BatchIsFresh'
<1> USE DEF TypeOK, state, flags, coordinator, consumer
<1>0. gen \in Gens /\ gen \in Nat /\ cctx \in Nat
  BY MarketAssumption DEF Gens
<1>1. CASE Produce
  <2>1. /\ UNCHANGED <<state, flags, coordinator, consumer, hpc, done, halfReset>>
        /\ now <= now' /\ now' \in Nat /\ now \in Nat
    BY <1>1, ProduceFrame, MarketAssumption DEF Minutes
  <2>2. Contiguous => Contiguous'
    <3>0. /\ MinOf(batch)' = MinOf(batch) /\ cursor'[gen'] = cursor[gen]
          /\ batch' = batch
      BY <2>1 DEF MinOf
    <3> SUFFICES ASSUME Contiguous, NEW m \in cursor[gen] + 1..MinOf(batch)
                 PROVE  m \in batch \/ m <= now' - RestLimit
      BY <3>0 DEF Contiguous
    <3>1. m \in Int
      OBVIOUS
    <3>2. m \in batch \/ m <= now - RestLimit
      BY DEF Contiguous
    <3>3. RestLimit \in Nat
      BY MarketAssumption
    <3>4. now <= now' /\ now' \in Nat /\ now \in Nat
      BY <2>1
    <3>5. m <= now - RestLimit => m <= now' - RestLimit
      BY <3>1, <3>3, <3>4, StillBehind
    <3>6. QED
      BY <3>2, <3>5
  <2>3. QED
    BY <2>1, <2>2 DEF BatchIsFresh, Working, ContextActive
<1>2. CASE DropStaleBatch
  BY <1>2 DEF DropStaleBatch, BatchIsFresh, Working, ContextActive
<1>3. CASE UpdateDropped \/ RecoverFails \/ UpdateRaises \/ SkipOutcome \/ CommitCursor \/ MarkRetry
  BY <1>3 DEF UpdateDropped, RecoverFails, UpdateRaises, SkipOutcome, CommitCursor, MarkRetry,
              Idle, BatchIsFresh, Working
<1>4. CASE TakeBatch
  <2> DEFINE c == Head(queue).ctx
  <2>1. /\ c = gen /\ ContextActive(gen) /\ cursor' = [cursor EXCEPT ![gen] = Known(gen)]
        /\ Known(gen) \in 0..MaxTime /\ batch' \in SUBSET Minutes
        /\ \A m \in batch' : m > Known(gen)
        /\ cpc' = IF batch' = {} THEN "idle" ELSE IF Gap(gen, batch') THEN "recover" ELSE "ready"
        /\ gen' = gen
    BY <1>4, TakenBatch DEF ContextActive, TakeBatch
  <2>2. cursor'[gen] = Known(gen) /\ Known(gen) # Unknown
    BY <1>0, <2>1, MarketAssumption DEF Unknown
  <2>3. ASSUME cpc' = "ready", Known(gen) # NoKline
        PROVE  Contiguous'
    <3>1. batch' # {} /\ ~Gap(gen, batch')
      BY <2>1, <2>3
    <3>2. \A m \in Known(gen) + 1..MinOf(batch') : m \in batch'
      BY <1>0, <2>1, <2>3, <3>1, NoGap
    <3>3. QED
      BY <2>1, <2>2, <3>2 DEF Contiguous
  <2>4. cpc' # "commit"
    BY <2>1
  <2>5. QED
    BY <2>1, <2>2, <2>3, <2>4 DEF BatchIsFresh
<1>5. CASE Recover
  <2>1. /\ cpc = "recover" /\ cpc' = "ready" /\ UNCHANGED <<state, flags, coordinator, cctx, done, now>>
        /\ ContextActive(cctx) => batch' = {m \in batch \cup Window : m > cursor[cctx]}
    BY <1>5 DEF Recover
  <2>0. batch' # {} /\ batch' \subseteq Minutes
    <3> HIDE DEF TypeOK
    <3>1. TypeOK'
      BY <1>5, ConsumerTypeOK DEF Consume
    <3>2. QED
      BY <2>1, <3>1 DEF TypeOK
  <2>2. ASSUME Working'
        PROVE  /\ cursor'[gen'] # Unknown
               /\ \A m \in batch' : m > cursor'[gen']
               /\ cpc' = "ready" /\ cursor'[gen'] # NoKline => Contiguous'
    <3>1. Working /\ cctx = gen
      BY <2>1, <2>2 DEF Working, ContextActive
    <3>2. batch' = {m \in batch \cup Window : m > cursor[gen]} /\ cursor[gen] # Unknown
      BY <2>1, <3>1 DEF Working, BatchIsFresh
    <3>3. Contiguous'
      <4>1. batch' # {} /\ batch' \subseteq Minutes
        BY <2>0
      <4>2. MinOf(batch') \in batch'
        BY <4>1, Extremes
      <4>3. MinOf(batch') \in 1..now /\ cursor[gen] \in Int /\ now \in Nat /\ RestLimit \in Nat
        <5>1. batch' \subseteq 1..now
          BY <3>2, WindowType DEF OnlyClosedMinutes
        <5>2. MinOf(batch') \in 1..now
          BY <4>2, <5>1
        <5>3. cursor[gen] \in Int
          BY <1>0, MarketAssumption DEF Unknown
        <5>4. now \in Nat /\ RestLimit \in Nat
          BY MarketAssumption DEF Minutes
        <5>5. QED
          BY <5>2, <5>3, <5>4
      <4>4. ASSUME NEW m \in cursor[gen] + 1..MinOf(batch')
            PROVE  m \in batch' \/ m <= now - RestLimit
        <5>1. m \in Int /\ m > cursor[gen] /\ m <= now
          BY <4>3
        <5>2. CASE m > now - RestLimit /\ m >= 1
          BY <3>2, <5>1, <5>2 DEF Window
        <5>3. CASE m < 1
          <6>1. cursor[gen] >= 0
            BY <1>0, <3>2, MarketAssumption DEF Unknown
          <6>2. QED
            BY <4>3, <5>1, <5>3, <6>1
        <5>4. QED
          BY <4>3, <5>1, <5>2, <5>3
      <4>5. QED
        BY <2>1, <4>4 DEF Contiguous
    <3>4. QED
      BY <2>1, <3>2, <3>3
  <2>3. QED
    BY <2>1, <2>2 DEF BatchIsFresh
<1>6. CASE UpdateSucceeds \/ UpdateFails
  <2>1. /\ ContextActive(cctx) /\ cctx = gen /\ cpc = "ready" /\ Working
        /\ cpc' \in {"commit", "mark"} /\ batch' = batch /\ cursor' = cursor /\ gen' = gen
        /\ cpc' = "commit" => done' = done \cup batch
    BY <1>6 DEF UpdateSucceeds, UpdateFails, ContextActive, Working
  <2>2. QED
    BY <2>1 DEF BatchIsFresh
<1>7. CASE SwitchPause \/ SwitchPaused \/ SwitchReset \/ SwitchResetFails \/ SwitchWarmup \/ Stop
  <2>1. ~Working'
    <3>1. enabled' = FALSE \/ stopped' = TRUE \/ stopRequested' = TRUE
      BY <1>7 DEF SwitchPause, SwitchPaused, SwitchReset, SwitchResetFails, SwitchWarmup,
                  EnabledWhenIdle, Stop, StopRequest, StopLocked
    <3>2. QED
      BY <3>1 DEF Working, ContextActive
  <2>2. QED
    BY <2>1 DEF BatchIsFresh
<1>8. CASE SwitchRefresh
  <2>1. hpc = "refresh" /\ cpc' = cpc /\ cctx' = cctx /\ gen' = gen
    BY <1>8 DEF SwitchRefresh
  <2>2. cpc = "idle" \/ cctx # gen
    BY <1>0, <2>1 DEF NewContextIsFresh
  <2>3. ~Working'
    BY <2>1, <2>2 DEF Working, ContextActive
  <2>4. QED
    BY <2>3 DEF BatchIsFresh
<1>9. CASE UNCHANGED vars
  BY <1>9 DEF vars, BatchIsFresh, Working, ContextActive, Contiguous, MinOf
<1>10. QED
  BY <1>1, <1>2, <1>3, <1>4, <1>5, <1>6, <1>7, <1>8, <1>9
     DEF Next, Produce, Consume, Failures, Switch
LEMMA InitInvariant == Init => IInv
<1> SUFFICES ASSUME Init PROVE IInv
  OBVIOUS
<1>1. PICK h \in SeededTo :
         /\ klines = [m \in Minutes |-> IF m <= h THEN symbolOf[0] ELSE None]
         /\ done = 1..h
  BY DEF Init
<1>2. TypeOK /\ 0 \in Gens /\ symbolOf[0] # None
  <2>1. TypeOK /\ 0 \in Gens
    BY InitTypeOK, MarketAssumption DEF Gens
  <2>2. QED
    BY <2>1, NoneIsNoSymbol DEF TypeOK
<1>3. Held = 1..h
  BY <1>1, <1>2, MarketAssumption DEF Held, SeededTo, Minutes, TypeOK
<1>4. EnabledWhenIdle /\ NewContextIsFresh /\ BatchIsFresh
  BY DEF Init, EnabledWhenIdle, NewContextIsFresh, BatchIsFresh, Working
<1>5. OnlyClosedMinutes
  <2>1. Held \subseteq 1..now /\ done \subseteq 1..now
    BY <1>1, <1>2, <1>3, MarketAssumption DEF SeededTo, Minutes, TypeOK
  <2>2. Len(queue) = 0
    BY EmptySeq DEF Init
  <2>3. QED
    BY <2>1, <2>2 DEF Init, OnlyClosedMinutes
<1>6. NothingAhead
  <2>1. Len(queue) = 0
    BY EmptySeq DEF Init
  <2>2. QED
    BY <2>1 DEF Init, NothingAhead
<1>7. KnownIsDone
  <2>1. Known(gen) = LatestKline
    BY <1>2 DEF Init, Known
  <2>2. QED
    BY <1>1, <1>3, <2>1, LatestKlineFacts DEF KnownIsDone
<1>8. QED
  BY <1>4, <1>5, <1>6, <1>7 DEF IInv

\* The inductive invariant of the minutes' order.
LEMMA Invariant == Spec => []IInv
<1>1. TypeOK /\ IInv /\ [Next]_vars => IInv'
  BY StepKeepsEnabledWhenIdle, StepKeepsOnlyClosed, StepKeepsNothingAhead,
     StepKeepsNewContextFresh, StepKeepsKnownIsDone, StepKeepsBatchFresh DEF IInv
<1>2. QED
  BY <1>1, InitInvariant, MarketTypeCorrect, PTL DEF Spec

\* What an update that succeeds has done.
LEMMA Success ==
  ASSUME TypeOK, IInv, [Next]_vars, cpc = "ready", cpc' = "commit"
  PROVE  /\ ContextActive(gen) /\ cctx = gen /\ Working /\ batch # {} /\ batch \subseteq Minutes
         /\ cursor[gen] # Unknown /\ Known(gen) = cursor[gen] /\ cursor[gen] \in 0..MaxTime
         /\ \A d \in done : d <= cursor[gen]
         /\ done # {} => cursor[gen] \in done
         /\ \A m \in batch : m > cursor[gen]
<1>1. UpdateSucceeds
  <2> USE DEF state, flags, coordinator, consumer
  <2>1. ~Produce
    BY ProduceFrame
  <2>2. ~(DropStaleBatch \/ TakeBatch \/ Recover \/ UpdateDropped \/ SkipOutcome \/ CommitCursor
          \/ MarkRetry \/ RecoverFails \/ UpdateFails \/ UpdateRaises)
    BY DEF DropStaleBatch, TakeBatch, Recover, UpdateDropped, SkipOutcome, CommitCursor, MarkRetry,
           RecoverFails, UpdateFails, UpdateRaises, Idle
  <2>3. ~(SwitchPause \/ Switch \/ Stop)
    BY DEF SwitchPause, Switch, SwitchPaused, SwitchReset, SwitchResetFails, SwitchWarmup,
           SwitchRefresh, Stop, StopRequest, StopLocked
  <2>4. cpc' # cpc
    OBVIOUS
  <2>5. QED
    BY <2>1, <2>2, <2>3, <2>4 DEF Next, Produce, Consume, Failures, vars
<1>2. ContextActive(gen) /\ cctx = gen /\ Working /\ batch # {} /\ batch \subseteq Minutes
  BY <1>1 DEF UpdateSucceeds, ContextActive, Working, TypeOK
<1>3. cursor[gen] # Unknown /\ (\A m \in batch : m > cursor[gen]) /\ Known(gen) = cursor[gen]
  BY <1>2 DEF IInv, BatchIsFresh, Known
<1>4. (\A d \in done : d <= Known(gen)) /\ (done # {} => Known(gen) \in done)
  BY <1>2, KnownWhenIdle DEF IInv
<1>5. cursor[gen] \in 0..MaxTime
  BY <1>3, KnownType DEF TypeOK
<1>6. QED
  BY <1>2, <1>3, <1>4, <1>5

\* A minute is processed once in a context and after every earlier one,
\* however often and in whatever order stream, REST, recovery and retries
\* deliver it.
THEOREM MinutesComeOnceInOrder == Spec => OnceAndInOrder
<1>1. ASSUME TypeOK, IInv, [Next]_vars
      PROVE  [cpc = "ready" /\ cpc' = "commit" => \A m \in batch, d \in done : d < m]_vars
  <2> SUFFICES ASSUME cpc = "ready", cpc' = "commit", NEW m \in batch, NEW d \in done
               PROVE  d < m
    OBVIOUS
  <2>1. d <= cursor[gen] /\ m > cursor[gen] /\ cursor[gen] \in Int
    BY <1>1, Success
  <2>2. d \in Int /\ m \in Int
    BY <1>1 DEF TypeOK, Minutes
  <2>3. QED
    BY <2>1, <2>2
<1>2. QED
  BY <1>1, Invariant, MarketTypeCorrect, PTL DEF Spec, OnceAndInOrder

\* Once a context has minutes, those it processes next follow them without a
\* hole, unless no download could have returned the minutes that are missing.
THEOREM GapsAreFilled == Spec => NoGapAhead
<1>1. ASSUME TypeOK, IInv, [Next]_vars
      PROVE  [cpc = "ready" /\ cpc' = "commit" /\ done # {} =>
                \A m \in MaxOf(done) + 1..MinOf(batch) : m \in batch \/ m <= now - RestLimit]_vars
  <2> SUFFICES ASSUME cpc = "ready", cpc' = "commit", done # {},
                      NEW m \in MaxOf(done) + 1..MinOf(batch)
               PROVE  m \in batch \/ m <= now - RestLimit
    OBVIOUS
  <2>1. /\ Working /\ cursor[gen] \in done /\ \A d \in done : d <= cursor[gen]
    BY <1>1, Success
  <2>2. done \subseteq Minutes
    BY <1>1 DEF TypeOK
  <2>3. MaxOf(done) \in done /\ (\A d \in done : d <= MaxOf(done))
    BY <2>2, Extremes
  <2>4. MaxOf(done) = cursor[gen]
    <3>1. MaxOf(done) \in Minutes /\ cursor[gen] \in Minutes /\ Minutes \subseteq Int
      <4>1. MaxOf(done) \in Minutes /\ cursor[gen] \in Minutes
        BY <2>1, <2>2, <2>3, Zenon
      <4>2. QED
        BY <4>1 DEF Minutes
    <3>2. MaxOf(done) <= cursor[gen] /\ cursor[gen] <= MaxOf(done)
      BY <2>1, <2>3
    <3>3. QED
      BY <3>1, <3>2, SameMinute, Zenon
  <2>5. cursor[gen] # NoKline
    BY <2>1, <2>2, MarketAssumption DEF Minutes, NoKline
  <2>6. Contiguous
    BY <1>1, <2>1, <2>5 DEF IInv, BatchIsFresh
  <2>7. QED
    BY <2>4, <2>6 DEF Contiguous
<1>2. QED
  BY <1>1, Invariant, MarketTypeCorrect, PTL DEF Spec, NoGapAhead
-----------------------------------------------------------------------------
(* A context in which nothing is done *)

LEMMA StepKeepsSeeded ==
  ASSUME TypeOK, IInv, SeededIsDone, [Next]_vars
  PROVE  SeededIsDone'
<1> USE DEF state, flags, coordinator, consumer
<1>1. CASE /\ UNCHANGED <<state, done, halfReset, hpc>>
  BY <1>1 DEF SeededIsDone, Held
<1>2. CASE Produce
  BY <1>1, <1>2, ProduceFrame
<1>3. CASE UpdateSucceeds \/ UpdateFails \/ UpdateRaises
  <2>1. hpc' = "idle"
    BY <1>3, ActiveIsIdle DEF IInv, UpdateSucceeds, UpdateFails, UpdateRaises
  <2>2. QED
    BY <2>1 DEF SeededIsDone
<1>4. CASE DropStaleBatch \/ TakeBatch \/ Recover \/ UpdateDropped \/ SkipOutcome \/ CommitCursor
           \/ MarkRetry \/ RecoverFails
  BY <1>1, <1>4 DEF DropStaleBatch, TakeBatch, Recover, UpdateDropped, SkipOutcome, CommitCursor,
                    MarkRetry, RecoverFails
<1>5. CASE SwitchPause \/ SwitchPaused \/ SwitchReset \/ SwitchRefresh
  BY <1>5 DEF SwitchPause, SwitchPaused, SwitchReset, SwitchRefresh, SeededIsDone
<1>6. CASE SwitchResetFails
  BY <1>6 DEF SwitchResetFails, SeededIsDone
<1>7. CASE SwitchWarmup
  <2>1. PICK h \in SeededTo :
           /\ klines' = [m \in Minutes |-> IF m <= h THEN symbolOf[gen] ELSE klines[m]]
           /\ done' = 1..h
    BY <1>7 DEF SwitchWarmup
  <2>2. \A m \in Minutes : klines[m] = None
    BY <1>7 DEF SwitchWarmup, Held, IInv, NewContextIsFresh
  <2>3. ASSUME done' = {} PROVE Held' = {}
    <3>1. h \in Int /\ ~(1 <= h)
      <4>1. h \in Int
        BY MarketAssumption DEF SeededTo
      <4>2. 1..h = {}
        BY <2>1, <2>3
      <4>3. ASSUME 1 <= h PROVE FALSE
        <5>1. 1 \in 1..h
          BY <4>1, <4>3
        <5>2. QED
          BY <4>2, <5>1
      <4>4. QED
        BY <4>1, <4>3
    <3>2. \A m \in Minutes : ~(m <= h)
      BY <3>1, MarketAssumption DEF Minutes
    <3>3. QED
      BY <2>1, <2>2, <3>2 DEF Held
  <2>4. QED
    BY <2>3 DEF SeededIsDone
<1>8. CASE Stop
  BY <1>1, <1>8 DEF Stop, StopRequest, StopLocked
<1>9. CASE UNCHANGED vars
  BY <1>1, <1>9 DEF vars
<1>10. QED
  BY <1>2, <1>3, <1>4, <1>5, <1>6, <1>7, <1>8, <1>9 DEF Next, Produce, Consume, Failures, Switch

\* Nothing is known as long as nothing is done: a cursor of this context is
\* written for a batch that is done, and klines count only without a cursor.
LEMMA StepKeepsNothingKnown ==
  ASSUME TypeOK, IInv, SeededIsDone, NothingKnown, [Next]_vars
  PROVE  NothingKnown'
<1> USE DEF state, flags, coordinator, consumer
<1>0. gen \in Gens /\ cctx \in Gens /\ cursor \in [Gens -> Unknown..MaxTime]
  BY DEF TypeOK
<1>1. CASE UNCHANGED <<state, done, halfReset, flags, cursor>>
  BY <1>1 DEF NothingKnown, ContextActive, Known, LatestKline, Held
<1>2. CASE Produce
  BY <1>1, <1>2, ProduceFrame
<1>3. CASE DropStaleBatch \/ Recover \/ UpdateDropped \/ SkipOutcome \/ MarkRetry \/ RecoverFails
  BY <1>1, <1>3 DEF DropStaleBatch, Recover, UpdateDropped, SkipOutcome, MarkRetry, RecoverFails
<1>4. CASE TakeBatch
  <2> DEFINE c == Head(queue).ctx
  <2>1. /\ c = gen /\ ContextActive(gen) /\ cursor' = [cursor EXCEPT ![c] = Known(c)]
        /\ Known(gen) \in 0..MaxTime /\ done' = done /\ gen' = gen /\ halfReset' = halfReset
    BY <1>4, TakenBatch DEF ContextActive, TakeBatch
  <2>2. Known(gen)' = Known(gen)
    <3>1. cursor'[gen] = Known(gen)
      BY <1>0, <2>1
    <3>2. cursor'[gen] # Unknown
      BY <2>1, <3>1, MarketAssumption DEF Unknown
    <3>3. QED
      BY <2>1, <3>1, <3>2 DEF Known
  <2>3. QED
    BY <2>1, <2>2 DEF NothingKnown
<1>5. CASE UpdateSucceeds
  <2>1. batch # {} /\ done' = done \cup batch
    BY <1>5 DEF UpdateSucceeds, TypeOK
  <2>2. QED
    BY <2>1 DEF NothingKnown
<1>6. CASE UpdateFails \/ UpdateRaises
  <2>1. /\ Working /\ cctx = gen /\ done' = done /\ gen' = gen /\ cursor' = cursor
        /\ halfReset' = halfReset /\ UNCHANGED flags
    BY <1>6 DEF UpdateFails, UpdateRaises, ContextActive, Working, Idle
  <2>2. cursor[gen] # Unknown /\ Known(gen)' = Known(gen)
    BY <2>1 DEF IInv, BatchIsFresh, Known
  <2>3. QED
    BY <2>1, <2>2 DEF NothingKnown, ContextActive
<1>7. CASE CommitCursor
  <2>1. /\ cpc = "commit" /\ done' = done /\ cursor' = [cursor EXCEPT ![cctx] = MaxOf(batch)]
        /\ UNCHANGED <<state, flags, halfReset>>
    BY <1>7 DEF CommitCursor
  <2>2. CASE cctx # gen
    <3>1. cursor'[gen] = cursor[gen]
      BY <1>0, <2>1, <2>2
    <3>2. QED
      BY <2>1, <3>1 DEF NothingKnown, ContextActive, Known, LatestKline, Held
  <2>3. CASE cctx = gen
    <3>1. ContextActive(gen) => batch # {} /\ batch \subseteq done
      BY <2>1, <2>3 DEF IInv, BatchIsFresh, Working, TypeOK
    <3>2. QED
      BY <2>1, <3>1 DEF NothingKnown, ContextActive
  <2>4. QED
    BY <2>2, <2>3
<1>8. CASE SwitchPause \/ SwitchPaused \/ SwitchReset \/ SwitchResetFails \/ SwitchWarmup \/ Stop
  <2>1. enabled' = FALSE \/ stopRequested' = TRUE \/ stopped' = TRUE
    BY <1>8 DEF SwitchPause, SwitchPaused, SwitchReset, SwitchResetFails, SwitchWarmup, IInv,
                EnabledWhenIdle, Stop, StopRequest, StopLocked
  <2>2. QED
    BY <2>1 DEF NothingKnown, ContextActive
<1>9. CASE SwitchRefresh
  <2>1. /\ hpc = "refresh" /\ UNCHANGED <<state, done, halfReset, cursor>> /\ cursor[gen] = Unknown
    BY <1>9 DEF SwitchRefresh, IInv, NewContextIsFresh
  <2>2. Known(gen)' = LatestKline
    BY <2>1 DEF Known, LatestKline, Held
  <2>3. ~halfReset /\ done = {} => LatestKline = NoKline
    BY <2>1 DEF SeededIsDone, LatestKline
  <2>4. QED
    BY <2>1, <2>2, <2>3 DEF NothingKnown
<1>10. CASE UNCHANGED vars
  BY <1>1, <1>10 DEF vars
<1>11. QED
  BY <1>2, <1>3, <1>4, <1>5, <1>6, <1>7, <1>8, <1>9, <1>10
     DEF Next, Produce, Consume, Failures, Switch

\* What is known of the symbol in force is the last minute processed, although
\* the cursor is written outside the lock and a failed update leaves klines.
THEOREM KnownMinutesWereProcessed == Spec => []KnownIsProcessed
<1>1. Init => SeededIsDone /\ NothingKnown
  <2> SUFFICES ASSUME Init, done = {} PROVE hpc # "refresh" /\ Known(gen) = NoKline
    BY DEF SeededIsDone, NothingKnown
  <2>1. PICK h \in SeededTo :
           /\ klines = [m \in Minutes |-> IF m <= h THEN symbolOf[0] ELSE None]
           /\ done = 1..h
    BY DEF Init
  <2>2. h \in Int /\ ~(1 <= h)
    <3>1. h \in Int
      BY MarketAssumption DEF SeededTo
    <3>2. ASSUME 1 <= h PROVE FALSE
      <4>1. 1 \in 1..h
        BY <3>1, <3>2
      <4>2. QED
        BY <2>1, <4>1
    <3>3. QED
      BY <3>1, <3>2
  <2>3. Held = {}
    BY <2>1, <2>2, MarketAssumption DEF Held, Minutes
  <2>4. gen \in Gens /\ cursor[gen] = Unknown
    BY InitTypeOK DEF Init, TypeOK
  <2>5. QED
    BY <2>3, <2>4 DEF Init, Known, LatestKline
<1>2. TypeOK /\ IInv /\ SeededIsDone /\ NothingKnown /\ [Next]_vars
      => (SeededIsDone /\ NothingKnown)'
  BY StepKeepsSeeded, StepKeepsNothingKnown
<1>3. ASSUME TypeOK, IInv, NothingKnown PROVE KnownIsProcessed
  <2> SUFFICES ASSUME ContextActive(gen), ~halfReset, ~(cpc = "commit" /\ cctx = gen), done # {}
               PROVE  Known(gen) = MaxOf(done)
    BY <1>3 DEF NothingKnown, KnownIsProcessed
  <2>1. Known(gen) \in done /\ \A d \in done : d <= Known(gen)
    BY <1>3, KnownWhenIdle DEF IInv
  <2>2. done \subseteq Minutes
    BY <1>3 DEF TypeOK
  <2>3. MaxOf(done) \in done /\ \A d \in done : d <= MaxOf(done)
    BY <2>2, Extremes
  <2>4. Known(gen) \in Int /\ MaxOf(done) \in Int
    <3>1. Known(gen) \in Minutes /\ MaxOf(done) \in Minutes
      BY <2>1, <2>2, <2>3, Zenon
    <3>2. QED
      BY <3>1 DEF Minutes
  <2>5. QED
    BY <2>1, <2>3, <2>4, SameMinute, Zenon
<1>4. QED
  BY <1>1, <1>2, <1>3, Invariant, MarketTypeCorrect, PTL DEF Spec
=============================================================================
