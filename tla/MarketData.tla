----------------------------- MODULE MarketData -----------------------------
(***************************************************************************)
(* How closed minutes reach the strategy: the WebSocket thread, the REST   *)
(* thread, the queue and the consumer of MarketDataCoordinator, and the    *)
(* HTTP handler that switches the symbol: pause, reset, warm-up, refresh.  *)
(*                                                                         *)
(* A context is (symbol, generation).  The generation only grows, so it    *)
(* stands for the context; symbolOf gives its symbol.                      *)
(*                                                                         *)
(* update_from_klines runs under the processing lock and pause_updates     *)
(* and stop take that lock, so an update is one step here.  What lies      *)
(* outside the lock (the download, the writing of the cursor) is a step of *)
(* its own.                                                                *)
(***************************************************************************)
EXTENDS Integers, Sequences, FiniteSets

CONSTANTS
    Symbols,
    FirstSymbol,    \* the symbol the service starts with
    StartTime,      \* the minutes closed when the service starts
    MaxTime,        \* bound: minutes are 1..MaxTime
    RestLimit,      \* rest_limit: how many closed minutes a download returns
    MaxSwitches,    \* bound: requests that switch the symbol
    MaxQueue,       \* bound: batches in the queue
    MaxFaults       \* bound: failures, disconnections, silences

ASSUME MarketAssumption ==
    /\ FirstSymbol \in Symbols
    /\ MaxTime \in Nat /\ StartTime \in 1..MaxTime /\ RestLimit \in Nat \ {0}
    /\ MaxSwitches \in Nat /\ MaxQueue \in Nat /\ MaxFaults \in Nat

Minutes == 1..MaxTime
Gens == 0..MaxSwitches
None == "none"      \* no kline held for this minute

ASSUME NoneIsNoSymbol == None \notin Symbols

NoKline == 0        \* cursor of a context that began without any kline
Unknown == -1       \* the context has no entry in _cursor

VARIABLES
    now,            \* minutes closed so far
    (* MonitorState *)
    gen,            \* _symbol_generation
    symbolOf,       \* the symbol of each generation
    klines,         \* state.klines: whose close it holds for each minute
    simSymbol,      \* the symbol whose orders the simulator holds
    (* MarketDataCoordinator *)
    enabled,        \* _updates_enabled
    stopRequested, stopped,     \* _stop_requested, _stop_event
    queue,
    cursor,         \* _cursor
    retry,          \* _pending_retry
    retryRequired,
    (* its threads *)
    cpc, cctx, batch,           \* consumer: point reached, context, fresh minutes
    stream, sctx, heard,        \* WebSocket: state, context, last minute heard
    rest, rctx,                 \* REST loop
    hpc,                        \* the HTTP request that switches the symbol
    (* observed *)
    done,           \* minutes seeded or processed with success in this context
    halfReset,      \* the last reset_symbol raised half way
    faults

state == <<gen, symbolOf, klines, simSymbol>>
coordinator == <<cursor, retry, retryRequired>>
consumer == <<cpc, cctx, batch>>
socket == <<stream, sctx, heard>>
poller == <<rest, rctx>>
flags == <<enabled, stopRequested, stopped>>
vars == <<now, state, flags, queue, coordinator, consumer, socket, poller, hpc, done, halfReset,
          faults>>

\* RestWhenDown, KnownBySymbol, FreshFromCursor, GapUnseen and KlinesKept are
\* deliberate mistakes that show what the properties notice; no action uses
\* them.

MaxOf(S) == CHOOSE m \in S : \A n \in S : n <= m
MinOf(S) == CHOOSE m \in S : \A n \in S : m <= n

Held == {m \in Minutes : klines[m] # None}
LatestKline == IF Held = {} THEN NoKline ELSE MaxOf(Held)

\* What a REST download returns: the last RestLimit closed minutes.
Window == {m \in 1..now : m > now - RestLimit}

ContextActive(c) == ~stopRequested /\ ~stopped /\ enabled /\ c = gen

Fault == faults < MaxFaults /\ faults' = faults + 1

\* Bound: the last minute is not the one a live connection missed, nor the
\* one whose batch raises, for only the next minute would make up for it.
MoreToCome == now < MaxTime

-----------------------------------------------------------------------------
\* warmup_history: the archives hold complete days, or are missing (h = 0).
SeededTo == 0..now - 1

Init ==
    /\ now = StartTime
    /\ gen = 0
    /\ symbolOf = [g \in Gens |-> FirstSymbol]
    /\ \E h \in SeededTo :
          /\ klines = [m \in Minutes |-> IF m <= h THEN symbolOf[0] ELSE None]
          /\ done = 1..h
    /\ simSymbol = symbolOf[0]
    /\ enabled = TRUE /\ stopRequested = FALSE /\ stopped = FALSE
    /\ queue = <<>>
    /\ cursor = [g \in Gens |-> Unknown]
    /\ retry = [g \in Gens |-> {}]
    /\ retryRequired = FALSE
    /\ cpc = "idle" /\ cctx = 0 /\ batch = {}
    /\ stream = "down" /\ sctx = 0 /\ heard = 0
    /\ rest = "idle" /\ rctx = 0
    /\ hpc = "idle"
    /\ halfReset = FALSE
    /\ faults = 0

Tick ==
    /\ now < MaxTime
    /\ now' = now + 1
    /\ UNCHANGED <<state, flags, queue, coordinator, consumer, socket, poller, hpc, halfReset,
                   done, faults>>

-----------------------------------------------------------------------------
(* Producers of batches *)

Enqueue(c, minutes) ==
    IF minutes # {} /\ ~stopped /\ enabled
    THEN Len(queue) < MaxQueue /\ queue' = Append(queue, [ctx |-> c, minutes |-> minutes])
    ELSE UNCHANGED queue

\* _stream_loop: the context is captured before the connection is opened.
StreamCapture ==
    /\ stream = "down" /\ enabled /\ ~stopped
    /\ stream' = "connecting" /\ sctx' = gen
    /\ UNCHANGED <<now, state, flags, queue, coordinator, consumer, heard, poller, hpc,
                   done, faults, halfReset>>

StreamOpen ==
    /\ stream = "connecting" /\ ContextActive(sctx) /\ MoreToCome
    /\ stream' = "live" /\ heard' = now
    /\ UNCHANGED <<now, state, flags, queue, coordinator, consumer, sctx, poller, hpc,
                   done, faults, halfReset>>

\* handle_stream_event with a closed kline.  A connection delivers in order;
\* the minutes that close between two connections are lost.
StreamEvent ==
    /\ stream = "live" /\ ContextActive(sctx) /\ heard < now
    /\ heard' = heard + 1
    /\ Enqueue(sctx, {heard'})
    /\ UNCHANGED <<now, state, flags, coordinator, consumer, stream, sctx, poller, hpc,
                   done, faults, halfReset>>

Disconnected == stream' = "down" /\ sctx' = 0 /\ heard' = 0

\* should_continue is false: the next callback, or close(), ends the connection.
StreamEnds ==
    /\ stream # "down" /\ ~ContextActive(sctx)
    /\ Disconnected
    /\ UNCHANGED <<now, state, flags, queue, coordinator, consumer, poller, hpc, done,
                   faults, halfReset>>

\* Nothing arrives for five seconds, or the connection breaks.
StreamFaults ==
    /\ Fault
    /\ \/ stream = "live" /\ stream' = "silent" /\ UNCHANGED <<sctx, heard>>
       \/ stream # "down" /\ Disconnected
    /\ UNCHANGED <<now, state, flags, queue, coordinator, consumer, poller, hpc, done, halfReset>>

RestWhenDown == stream # "live"
RestNeeded == retryRequired \/ stream # "live"

RestBegin ==
    /\ rest = "idle" /\ enabled /\ ~stopped /\ RestNeeded
    /\ rest' = "busy" /\ rctx' = gen
    /\ UNCHANGED <<now, state, flags, queue, coordinator, consumer, socket, hpc, done, faults, halfReset>>

RestDone ==
    /\ rest = "busy"
    /\ rest' = "idle" /\ rctx' = 0
    /\ Enqueue(rctx, Window)
    /\ UNCHANGED <<now, state, flags, coordinator, consumer, socket, hpc, done, faults, halfReset>>

RestFails ==
    /\ rest = "busy" /\ Fault
    /\ rest' = "idle" /\ rctx' = 0
    /\ UNCHANGED <<now, state, flags, queue, coordinator, consumer, socket, hpc, done, halfReset>>

-----------------------------------------------------------------------------
(* The consumer *)

Idle == cpc' = "idle" /\ cctx' = 0 /\ batch' = {}

DropStaleBatch ==
    /\ cpc = "idle" /\ queue # <<>>
    /\ ~ContextActive(Head(queue).ctx)
    /\ queue' = Tail(queue)
    /\ UNCHANGED <<now, state, flags, coordinator, consumer, socket, poller, hpc, done, faults, halfReset>>

\* The minutes that wait for a retry come first; those up to the cursor are
\* known already.  A gap before the first fresh minute asks for a download.
KnownBySymbol(c) ==
    LET kept == {cursor[g] : g \in {h \in Gens : h <= c /\ symbolOf[h] = symbolOf[c]}} \ {Unknown}
    IN  IF kept = {} THEN LatestKline ELSE MaxOf(kept)
Known(c) == IF cursor[c] = Unknown THEN LatestKline ELSE cursor[c]
FreshFromCursor(c, minutes) == {m \in minutes \cup retry[c] : m >= Known(c)}
Fresh(c, minutes) == {m \in minutes \cup retry[c] : m > Known(c)}
GapUnseen(c, fresh) == FALSE
Gap(c, fresh) == Known(c) # NoKline /\ MinOf(fresh) > Known(c) + 1

TakeBatch ==
    /\ cpc = "idle" /\ queue # <<>>
    /\ queue' = Tail(queue)
    /\ LET c == Head(queue).ctx
           fresh == Fresh(c, Head(queue).minutes)
       IN  /\ ContextActive(c)
           /\ cursor' = [cursor EXCEPT ![c] = Known(c)]
           /\ batch' = fresh
           /\ cctx' = IF fresh = {} THEN 0 ELSE c
           /\ cpc' = IF fresh = {} THEN "idle"
                     ELSE IF Gap(c, fresh) THEN "recover" ELSE "ready"
    /\ UNCHANGED <<now, state, flags, retry, retryRequired, socket, poller, hpc, done, faults, halfReset>>

Recover ==
    /\ cpc = "recover"
    /\ batch' = IF ContextActive(cctx)
                THEN {m \in batch \cup Window : m > cursor[cctx]} ELSE batch
    /\ cpc' = "ready"
    /\ UNCHANGED <<now, state, flags, queue, coordinator, cctx, socket, poller, hpc,
                   done, faults, halfReset>>

\* An exception ends the work on a batch, which is not kept for a retry: the
\* gap it leaves is noticed with the next minute.
ConsumerRaises == Fault /\ MoreToCome

RecoverFails ==
    /\ cpc = "recover" /\ ConsumerRaises
    /\ Idle
    /\ UNCHANGED <<now, state, flags, queue, coordinator, socket, poller, hpc, done, halfReset>>

Merged == [m \in Minutes |-> IF m \in batch THEN symbolOf[cctx] ELSE klines[m]]

UpdateDropped ==
    /\ cpc = "ready" /\ ~ContextActive(cctx)
    /\ Idle
    /\ UNCHANGED <<now, state, flags, queue, coordinator, socket, poller, hpc,
                   done, faults, halfReset>>

UpdateSucceeds ==
    /\ cpc = "ready" /\ ContextActive(cctx)
    /\ klines' = Merged
    /\ done' = done \cup batch
    /\ cpc' = "commit"
    /\ UNCHANGED <<now, gen, symbolOf, simSymbol, flags, queue, coordinator, cctx, batch,
                   socket, poller, hpc, faults, halfReset>>

\* A transaction of the update failed, after the klines were taken over.
UpdateFails ==
    /\ cpc = "ready" /\ ContextActive(cctx) /\ Fault
    /\ klines' = Merged
    /\ cpc' = "mark"
    /\ UNCHANGED <<now, gen, symbolOf, simSymbol, flags, queue, coordinator, cctx, batch,
                   socket, poller, hpc, done, halfReset>>

UpdateRaises ==
    /\ cpc = "ready" /\ ContextActive(cctx) /\ ConsumerRaises
    /\ klines' \in {klines, Merged}
    /\ Idle
    /\ UNCHANGED <<now, gen, symbolOf, simSymbol, flags, queue, coordinator, socket,
                   poller, hpc, done, halfReset>>

\* The context was active when the update returned and may have changed since.
SkipOutcome ==
    /\ cpc \in {"commit", "mark"} /\ ~ContextActive(cctx)
    /\ Idle
    /\ UNCHANGED <<now, state, flags, queue, coordinator, socket, poller, hpc,
                   done, faults, halfReset>>

RequiredAfter(pending) == \E g \in Gens : pending[g] # {}

CommitCursor ==
    /\ cpc = "commit"
    /\ cursor' = [cursor EXCEPT ![cctx] = MaxOf(batch)]
    /\ retry' = [retry EXCEPT ![cctx] = {}]
    /\ retryRequired' = (retryRequired /\ RequiredAfter(retry'))
    /\ Idle
    /\ UNCHANGED <<now, state, flags, queue, socket, poller, hpc, done, faults, halfReset>>

MarkRetry ==
    /\ cpc = "mark"
    /\ retry' = [retry EXCEPT ![cctx] = @ \cup batch]
    /\ retryRequired' = TRUE
    /\ Idle
    /\ UNCHANGED <<now, state, flags, queue, cursor, socket, poller, hpc, done, faults, halfReset>>

-----------------------------------------------------------------------------
(* GET /api/config?symbol=...; symbol_switch_lock makes it one at a time *)

ClearRetries == retry' = [g \in Gens |-> {}] /\ retryRequired' = FALSE
ClearCursor == cursor' = [g \in Gens |-> Unknown]

\* pause_updates: the flag first, the rest once no update is under way.
SwitchPause ==
    /\ hpc = "idle" /\ gen < MaxSwitches
    /\ enabled' = FALSE
    /\ hpc' = "pausing"
    /\ UNCHANGED <<now, state, stopRequested, stopped, queue, coordinator, consumer,
                   socket, poller, done, faults, halfReset>>

SwitchPaused ==
    /\ hpc = "pausing"
    /\ ClearRetries /\ ClearCursor
    /\ hpc' = "paused"
    /\ UNCHANGED <<now, state, flags, queue, consumer, socket, poller, done, faults, halfReset>>

KlinesKept == klines
KlinesAfterReset == [m \in Minutes |-> None]

SwitchReset ==
    /\ hpc = "paused"
    /\ gen' = gen + 1
    /\ \E s \in Symbols :
          symbolOf' = [symbolOf EXCEPT ![gen + 1] = s] /\ simSymbol' = s
    /\ klines' = KlinesAfterReset
    /\ done' = {} /\ halfReset' = FALSE
    /\ hpc' = "warmup"
    /\ UNCHANGED <<now, flags, queue, coordinator, consumer, socket, poller, faults>>

\* load_orders raises after symbol and generation have changed.
SwitchResetFails ==
    /\ hpc = "paused" /\ Fault
    /\ gen' = gen + 1
    /\ \E s \in Symbols : symbolOf' = [symbolOf EXCEPT ![gen + 1] = s]
    /\ done' = {} /\ halfReset' = TRUE
    /\ hpc' = "refresh"
    /\ UNCHANGED <<now, klines, simSymbol, flags, queue, coordinator, consumer, socket, poller>>

\* apply_warmup; h = 0 also stands for a warm-up that raised.
SwitchWarmup ==
    /\ hpc = "warmup"
    /\ \E h \in SeededTo :
          /\ klines' = [m \in Minutes |-> IF m <= h THEN symbolOf[gen] ELSE klines[m]]
          /\ done' = 1..h
    /\ hpc' = "refresh"
    /\ UNCHANGED <<now, gen, symbolOf, simSymbol, flags, queue, coordinator, consumer,
                   socket, poller, faults, halfReset>>

SwitchRefresh ==
    /\ hpc = "refresh"
    /\ enabled' = TRUE
    /\ ClearRetries
    /\ hpc' = "idle"
    /\ UNCHANGED <<now, state, stopRequested, stopped, queue, cursor, consumer, socket,
                   poller, done, faults, halfReset>>

-----------------------------------------------------------------------------
(* stop(), which the main thread calls last *)

StopRequest ==
    /\ ~stopRequested
    /\ stopRequested' = TRUE
    /\ UNCHANGED <<now, state, enabled, stopped, queue, coordinator, consumer, socket,
                   poller, hpc, done, faults, halfReset>>

StopLocked ==
    /\ stopRequested /\ ~stopped
    /\ stopped' = TRUE /\ enabled' = FALSE
    /\ ClearRetries /\ ClearCursor
    /\ UNCHANGED <<now, state, stopRequested, queue, consumer, socket, poller, hpc, done, faults, halfReset>>

-----------------------------------------------------------------------------
Stream == StreamCapture \/ StreamOpen \/ StreamEvent \/ StreamEnds
Rest == RestBegin \/ RestDone
Consume ==
    \/ DropStaleBatch \/ TakeBatch \/ Recover
    \/ UpdateDropped \/ UpdateSucceeds
    \/ SkipOutcome \/ CommitCursor \/ MarkRetry
Failures == StreamFaults \/ RestFails \/ RecoverFails \/ UpdateFails \/ UpdateRaises
Switch ==
    \/ SwitchPaused \/ SwitchReset \/ SwitchResetFails \/ SwitchWarmup \/ SwitchRefresh
Stop == StopRequest \/ StopLocked

Next == Tick \/ Stream \/ Rest \/ Consume \/ Failures \/ SwitchPause \/ Switch \/ Stop

Spec == Init /\ [][Next]_vars

\* Minutes close, each thread goes on and a request that has begun is served.
\* Requests, failures and the stop are not fair.
FairSpec ==
    /\ Spec
    /\ WF_vars(Tick) /\ WF_vars(Stream) /\ WF_vars(RestBegin) /\ WF_vars(RestDone)
    /\ WF_vars(Consume) /\ WF_vars(Switch)

-----------------------------------------------------------------------------
TypeOK ==
    /\ now \in Minutes /\ gen \in Gens /\ symbolOf \in [Gens -> Symbols]
    /\ klines \in [Minutes -> Symbols \cup {None}] /\ simSymbol \in Symbols
    /\ enabled \in BOOLEAN /\ stopRequested \in BOOLEAN /\ stopped \in BOOLEAN
    /\ queue \in Seq([ctx : Gens, minutes : SUBSET Minutes])
    /\ cursor \in [Gens -> Unknown..MaxTime]
    /\ retry \in [Gens -> SUBSET Minutes] /\ retryRequired \in BOOLEAN
    /\ cpc \in {"idle", "recover", "ready", "commit", "mark"}
    /\ cctx \in Gens /\ batch \in SUBSET Minutes /\ (cpc # "idle" => batch # {})
    /\ cpc = "recover" => \A m \in batch : m > cursor[cctx]
    /\ stream \in {"down", "connecting", "live", "silent"}
    /\ sctx \in Gens /\ heard \in 0..MaxTime
    /\ rest \in {"idle", "busy"} /\ rctx \in Gens
    /\ hpc \in {"idle", "pausing", "paused", "warmup", "refresh"}
    /\ hpc \in {"pausing", "paused"} => gen < MaxSwitches
    /\ done \in SUBSET Minutes /\ halfReset \in BOOLEAN /\ faults \in 0..MaxFaults

\* Nothing of one symbol reaches another: whatever is under way when the
\* symbol is switched, the state holds klines and orders of its own symbol.
\* A reset that raises half way breaks it: reset_symbol has then changed the
\* symbol and kept klines and orders, and updates are enabled again.
OneSymbol ==
    ~halfReset => /\ \A m \in Held : klines[m] = symbolOf[gen]
                  /\ simSymbol = symbolOf[gen]

\* A minute is processed once in a context, and after every earlier one,
\* though stream, REST, recovery and retries all deliver it.
OnceAndInOrder ==
    [][cpc = "ready" /\ cpc' = "commit" =>
          \A m \in batch, d \in done : d < m]_vars

\* Once a context has minutes, a minute is passed over only if no REST
\* download could have returned it.  It holds for the minutes next to those
\* already processed; a gap behind a minute kept for a retry is not noticed.
NoGapAhead ==
    [][cpc = "ready" /\ cpc' = "commit" /\ done # {} =>
          \A m \in MaxOf(done) + 1..MinOf(batch) : m \in batch \/ m <= now - RestLimit]_vars

\* What the consumer takes for known of the symbol in force, by its cursor or
\* while it has none by the latest kline, is the last minute processed.  The
\* cursor is written after the lock was let go, so it may come after the pause
\* that cleared the cursors, when the same symbol has begun anew; an update
\* that failed has left klines that were not processed.  With more than that
\* known, minutes would never be processed; with less, some would be twice.
KnownIsProcessed ==
    ContextActive(gen) /\ ~halfReset /\ ~(cpc = "commit" /\ cctx = gen) =>
        Known(gen) = IF done = {} THEN NoKline ELSE MaxOf(done)

\* Whatever was lost, refused or retried, the symbol the service ends with
\* catches up with the last minute, unless the service is stopped.  After a
\* reset that raised half way the former symbol's minutes are taken for known.
CatchesUp == <>[](stopRequested \/ halfReset \/ MaxTime \in done)
=============================================================================
