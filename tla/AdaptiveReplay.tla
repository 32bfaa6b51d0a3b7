---------------------------- MODULE AdaptiveReplay ----------------------------
(***************************************************************************)
(* The adaptive state of a profile (app/adaptive_profile_state.py): how it *)
(* is computed from the settled observations of a window, once from all of *)
(* them (Rebuild, what the monitor does) and once event by event           *)
(* (Advance, what the replay of a history does: a sliding window over all  *)
(* profiles, with the bindings of decisions to observations, and per       *)
(* profile a tracker that takes one of four ways to the same answer).      *)
(*                                                                         *)
(* An event is a settled observation [key, opened, expires, settled, won,  *)
(* dec]: its profile, its times, its result and its decision, 0 when no    *)
(* other row names it.  <<key, opened>> stands for the observation key,    *)
(* which is unique in its table.  Every definition is a value computed     *)
(* from its arguments; DailyProfiles keeps the results in its state.       *)
(* NeverOrphaned is a deliberate mistake that nothing uses.                *)
(***************************************************************************)
EXTENDS Integers, FiniteSets, SequencesExt

CONSTANTS Warmup, ActiveWins, PausedMaxWins, Full,   \* AdaptiveProfileStateConfig
          Lookback,                                  \* minutes of the window
          WinPnl, LossPnl                            \* what a WIN earns, a LOSS costs

ASSUME ConfigAssumption ==
    /\ Warmup \in Nat \ {0} /\ Full \in Nat /\ Full > Warmup
    /\ ActiveWins \in 1..Warmup
    /\ PausedMaxWins \in 0..(ActiveWins - 1)
    /\ Lookback \in Nat \ {0}
    /\ WinPnl \in Nat /\ LossPnl \in Nat

-----------------------------------------------------------------------------
(* Orders on events: by opening (_opened_sort_key), and the causal order in *)
(* which settlements are replayed (adaptive_replay_event_sort_key).         *)
OpenedBefore(e, f) ==
    \/ e.opened < f.opened
    \/ e.opened = f.opened /\ e.key < f.key

SettledBefore(e, f) ==
    \/ e.settled < f.settled
    \/ e.settled = f.settled /\ OpenedBefore(e, f)

CausallyBefore(e, f) ==
    \/ e.settled < f.settled
    \/ e.settled = f.settled /\ e.key < f.key
    \/ e.settled = f.settled /\ e.key = f.key /\ e.opened < f.opened

(* The members of S in an order, each at the place that those before it     *)
(* leave it.  (The prover has no definition of SetToSortSeq.)               *)
Sorted(S, Before(_, _)) ==
    LET place(e) == 1 + Cardinality({f \in S : Before(f, e)})
    IN  [i \in 1..Cardinality(S) |-> CHOOSE e \in S : place(e) = i]

ByOpened(S)     == Sorted(S, OpenedBefore)
BySettlement(S) == Sorted(S, SettledBefore)
Causal(S)       == Sorted(S, CausallyBefore)

TailOf(s, n) == SubSeq(s, IF Len(s) > n THEN Len(s) - n + 1 ELSE 1, Len(s))

-----------------------------------------------------------------------------
(* The state of a profile given its independent samples.                    *)
Wins(s) == Cardinality({i \in 1..Len(s) : s[i].won})
Pnl(s)  == WinPnl * Wins(s) - LossPnl * (Len(s) - Wins(s))

Classified(n12, n20, previous) ==
    LET mature == Len(n12) >= Warmup
        full   == Len(n20) >= Full
        active == Wins(n12) >= ActiveWins /\ (full => Pnl(n20) >= 0)
        paused == Wins(n12) <= PausedMaxWins /\ full /\ Pnl(n20) < 0
    IN  [status   |-> CASE ~mature -> "WARMUP"
                        [] mature /\ paused -> "PAUSED"
                        [] mature /\ active /\ previous # "PAUSED" -> "ACTIVE"
                        [] OTHER -> "WATCH",
         previous |-> previous,
         n12      |-> [size |-> Len(n12), wins |-> Wins(n12)],
         n20      |-> [size |-> Len(n20), wins |-> Wins(n20)]]

Classify(samples, previous) ==
    Classified(TailOf(samples, Warmup), TailOf(samples, Full), previous)

Empty == Classify(<<>>, "NONE")

(* The independent samples of a set of events of one profile, in the order *)
(* of their opening: an interval that starts before the last one taken has *)
(* ended is passed over (_independent_samples).                            *)
Independent(S) ==
    FoldLeft(LAMBDA taken, e :
                 IF taken # <<>> /\ e.opened < Last(taken).expires
                 THEN taken ELSE Append(taken, e),
             <<>>, ByOpened(S))

-----------------------------------------------------------------------------
(* The same selection kept up to date event by event                       *)
(* (_IncrementalCanonicalSelection): all is every event of the profile,    *)
(* canon the independent ones.                                             *)
NoSelection == [all |-> {}, canon |-> {}]

First(S) == CHOOSE e \in S : \A f \in S : e = f \/ OpenedBefore(e, f)
Latest(S) == CHOOSE e \in S : \A f \in S : e = f \/ OpenedBefore(f, e)

(* The events the selection takes from the place of e on, until it meets   *)
(* one it had taken before; what follows that one stands as it is.         *)
Taken(sel, from, pool) ==
    LET later(S, t) == {f \in S : f.opened >= t}
        run[S \in SUBSET pool] ==
            IF S = {} THEN [taken |-> {}, meets |-> {}]
            ELSE IF First(S) \in sel.canon THEN [taken |-> {}, meets |-> {First(S)}]
            ELSE [run[later(S \ {First(S)}, First(S).expires)] EXCEPT !.taken = @ \cup {First(S)}]
    IN  run[later(pool, from)]

Repair(sel, e) ==
    LET before == {f \in sel.canon : OpenedBefore(f, e)}
        from   == IF before = {} THEN e.opened ELSE Latest(before).expires
        pool   == {f \in sel.all : f = e \/ OpenedBefore(e, f)}
        run    == Taken(sel, from, pool)
        stands == {f \in sel.canon : \E m \in run.meets : f = m \/ OpenedBefore(m, f)}
    IN  [sel EXCEPT !.canon = before \cup run.taken \cup stands]

Insert(sel, e) == Repair([sel EXCEPT !.all = @ \cup {e}], e)

(* _SlidingIntervalSelection.deactivate: an event leaves the window.       *)
Retire(sel, e) ==
    LET less == [all |-> sel.all \ {e}, canon |-> sel.canon \ {e}]
    IN  IF e \in sel.canon THEN Repair(less, e) ELSE less

-----------------------------------------------------------------------------
(* One profile replayed in causal order: a state for every event that      *)
(* changes the selection (_advance_profile_replay).                        *)
NoReplay == [sel |-> NoSelection, state |-> Empty, any |-> FALSE]

Selected(r, sel) ==
    IF sel.canon = r.sel.canon THEN [r EXCEPT !.sel = sel]
    ELSE [sel   |-> sel, any |-> TRUE,
          state |-> Classify(TailOf(BySettlement(sel.canon), Full),
                             IF r.any THEN r.state.status ELSE "NONE")]

ReplayStep(r, e) == Selected(r, Insert(r.sel, e))

(* _IdentityBindings: a decision belongs to the first observation that     *)
(* names it; a later row that names it for another is not counted.         *)
Bound(S) ==
    {e \in S : \A f \in S : f.dec = e.dec /\ e.dec # 0 /\ f # e => CausallyBefore(e, f)}

(* rebuild_adaptive_profile_states: every profile of a set of events.      *)
Replayed(S) == FoldLeft(ReplayStep, NoReplay, Causal(S)).state

Rebuild(S) ==
    [k \in {e.key : e \in S} |-> Replayed({e \in Bound(S) : e.key = k})]

StateIn(states, k) == IF k \in DOMAIN states THEN states[k] ELSE Empty
StateOf(S, k) == StateIn(Rebuild(S), k)

-----------------------------------------------------------------------------
(* AdaptiveProfileWindowReplay: the window of one profile.  events holds   *)
(* the window in the order of arrival; index the same events and those     *)
(* before start that have left it; exact says that nothing has left yet,   *)
(* so that replay is the answer; dynamic is the sliding selection kept     *)
(* while the window is not in the order of opening.                        *)
NewTracker == [events |-> <<>>, index |-> <<>>, start |-> 1, exact |-> TRUE,
               replay |-> NoReplay, dynamic |-> <<>>, state |-> Empty]

Inverted(t) ==
    {i \in 1..(Len(t.events) - 1) : OpenedBefore(t.events[i + 1], t.events[i])}

Sliding(events) == <<FoldLeft(Insert, NoSelection, events)>>

(* _compact_index_if_geometric: once half of the index has left the window. *)
Compact(t) ==
    IF t.start > 1 /\ (t.events = <<>> \/ t.start - 1 >= Len(t.events))
    THEN [t EXCEPT !.index = t.events, !.start = 1]
    ELSE t

(* _expire_before                                                           *)
WithoutFirst(t, n) ==
    [t EXCEPT !.events = SubSeq(@, n + 1, Len(@)), !.start = @ + n, !.exact = FALSE,
              !.dynamic = IF @ = <<>> THEN @
                          ELSE <<FoldLeft(Retire, @[1], SubSeq(t.events, 1, n))>>]

InOrderAgain(t) == IF Inverted(t) = {} THEN [t EXCEPT !.dynamic = <<>>] ELSE t

Expire(t, from) ==
    LET old == {i \in 1..Len(t.events) : \A j \in 1..i : t.events[j].settled < from}
    IN  IF old = {} THEN t
        ELSE Compact(InOrderAgain(WithoutFirst(t, Cardinality(old))))

(* _MonotonicWindowIndex: the chain of independent events from start on,   *)
(* each the first that opens once the one before it has expired.           *)
Successor(index, i) ==
    LET later == {j \in (i + 1)..Len(index) : index[j].opened >= index[i].expires}
    IN  IF later = {} THEN 0 ELSE CHOOSE j \in later : \A h \in later : j <= h

Chain(index, start) ==
    LET from[i \in 0..Len(index)] ==
            IF i = 0 THEN <<>> ELSE <<index[i]>> \o from[Successor(index, i)]
    IN  from[start]

(* _state_from_monotonic_selected_tail: the last three transitions decide, *)
(* for a state depends on the one before it only when that was PAUSED.     *)
FirstTransition(n) == IF n <= Full + 2 THEN 1 ELSE n - 2
TailState(selected) ==
    LET upTo(n)   == TailOf(SubSeq(selected, 1, n), Full)
        n         == Len(selected)
        first     == FirstTransition(n)
        status[i \in (first - 1)..n] ==
            IF i < first THEN "NONE"
            ELSE Classify(upTo(i), status[i - 1]).status
    IN  Classify(upTo(n), status[n - 1])

(* _dynamic_window_state: not certain when an inversion reaches the tail.  *)
Uncertain(t) ==
    LET sel     == BySettlement(t.dynamic[1].canon)
        members == {t.events[i] : i \in Inverted(t)}
                   \cup {t.events[i + 1] : i \in Inverted(t)}
        tail    == {TailOf(sel, Full + 2)[i] : i \in 1..(Full + 2)}
        place(e) == CHOOSE i \in 1..Len(t.events) : t.events[i] = e
    IN  \/ Len(sel) <= Full + 2
        \/ \E m \in members, e \in tail : place(m) >= place(e)

(* _evaluate_window                                                         *)
Evaluate(t) ==
    [t EXCEPT !.state =
        IF t.events = <<>> THEN Empty
        ELSE IF Inverted(t) = {} THEN TailState(Chain(t.index, t.start))
        ELSE IF Uncertain(t) THEN StateOf(ToSet(t.events), t.events[1].key)
        ELSE TailState(BySettlement(t.dynamic[1].canon))]

(* state_at and advance                                                     *)
StateAt(t, at) == Evaluate(Expire(t, at - Lookback))

Enqueue(t, e) == [t EXCEPT !.events = Append(@, e), !.index = Append(@, e)]

Slide(t, e) ==
    [t EXCEPT !.dynamic = IF @ # <<>> THEN <<Insert(@[1], e)>>
                          ELSE IF Inverted(t) # {} THEN Sliding(t.events)
                          ELSE @]

Step(t, step) ==
    [t EXCEPT !.replay = step,
              !.state = IF step.sel.canon = t.replay.sel.canon THEN @ ELSE step.state]

Take(t, e) ==
    IF t.exact THEN Step(Slide(Enqueue(t, e), e), ReplayStep(t.replay, e))
    ELSE Evaluate(Slide(Enqueue(t, e), e))

Advance(t, e, at) == Take(Expire(t, at - Lookback), e)

-----------------------------------------------------------------------------
(* AdaptiveGlobalProfileWindowReplay: the window over all profiles.        *)
(* entries holds its events in causal order and whether each was accepted, *)
(* owner which event a decision is bound to, trackers the profiles that    *)
(* have an accepted event in the window.                                   *)
NewWindow == [entries |-> <<>>, owner |-> <<>>, trackers |-> <<>>]

\* (The prover has no definition of @@.)
Put(f, k, x) == [j \in {k} \cup DOMAIN f |-> IF j = k THEN x ELSE f[j]]

Accepts(w, e) == e.dec = 0 \/ e.dec \notin DOMAIN w.owner \/ w.owner[e.dec] = e

Retain(w, e) ==
    IF e.dec = 0 \/ e.dec \in DOMAIN w.owner THEN w
    ELSE [w EXCEPT !.owner = Put(@, e.dec, e)]

TrackerOf(w, k) == IF k \in DOMAIN w.trackers THEN w.trackers[k] ELSE NewTracker

Track(w, t, k) == [w EXCEPT !.trackers = Put(@, k, t)]

Accepted(w) == {w.entries[i].event : i \in {j \in 1..Len(w.entries) : w.entries[j].accepted}}

Note(w, e) == [w EXCEPT !.entries = Append(@, [event |-> e, accepted |-> Accepts(w, e)])]

Follow(w, e, at) ==
    Track(Retain(Note(w, e), e), Advance(TrackerOf(w, e.key), e, at), e.key)

(* _rebuild_active_window: bind the window again from its first event.     *)
BindAgain(w, entry) ==
    IF Accepts(w, entry.event) THEN Follow(w, entry.event, entry.event.settled + 1)
    ELSE Note(w, entry.event)

Rebind(w, at) ==
    [FoldLeft(BindAgain, NewWindow, w.entries) EXCEPT
        !.trackers = [k \in DOMAIN @ |-> StateAt(@[k], at)]]

(* Decisions freed by rows that leave while others still name them.        *)
NeverOrphaned(freed, left) == {}
Orphaned(freed, left) ==
    {d \in freed : \E i \in 1..Len(left) : left[i].event.dec = d}

(* _expire_before: an orphaned decision makes the whole window bind again.  *)
ExpireWindow(w, at) ==
    LET n     == Cardinality({i \in 1..Len(w.entries) :
                                 \A j \in 1..i : w.entries[j].event.settled < at - Lookback})
        gone  == {w.entries[i].event : i \in 1..n}
        left  == SubSeq(w.entries, n + 1, Len(w.entries))
        freed == {d \in DOMAIN w.owner : w.owner[d] \in gone}
        rest  == [w EXCEPT !.entries = left,
                           !.owner = [d \in DOMAIN @ \ freed |-> @[d]]]
        hit   == {w.entries[i].event.key : i \in {j \in 1..n : w.entries[j].accepted}}
        live  == {e.key : e \in Accepted(rest)}
    IN  IF Orphaned(freed, left) # {} THEN Rebind(rest, at)
        ELSE [rest EXCEPT !.trackers =
                 [k \in {j \in DOMAIN @ : j \in hit => j \in live} |->
                     IF k \in hit THEN StateAt(@[k], at) ELSE @[k]]]

(* advance                                                                  *)
Enter(w, e, at) ==
    IF Accepts(w, e) THEN Follow(w, e, at)
    ELSE IF e.key \in DOMAIN w.trackers
    THEN Track(Note(w, e), StateAt(w.trackers[e.key], at), e.key)
    ELSE Note(w, e)

AdvanceWindow(w, e, at) == Enter(ExpireWindow(w, at), e, at)
=============================================================================
