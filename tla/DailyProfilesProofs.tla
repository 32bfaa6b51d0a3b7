-------------------------- MODULE DailyProfilesProofs --------------------------
(***************************************************************************)
(* What is proved of the profiles, for any number of them, any windows and *)
(* any settings.                                                           *)
(*                                                                         *)
(* What a profile's samples are worth, how they are ranked and how its     *)
(* state follows from them enters the theorems about the monitor only      *)
(* through the sets it is computed from: equal sets give equal answers.    *)
(* What is proved is that the sets are equal, over restarts, failed writes *)
(* and failed reads.  The theorems about the scripts compare computations: *)
(* backtests of several databases (BacktestsAreCausal), and the window     *)
(* kept up to date row by row with the one computed at once                *)
(* (ReplaysAreExact, TimelinesAreExact).                                   *)
(***************************************************************************)
EXTENDS ProfileReplay, CommonLemmas, FiniteSetTheorems, FunctionTheorems

-----------------------------------------------------------------------------
(* Numbers and days *)

\* The greatest of bounded numbers.
LEMMA MaxOf ==
  ASSUME NEW n \in Nat, NEW S \in SUBSET (0..n), S # {}
  PROVE  Max(S) \in S /\ \A y \in S : y <= Max(S)
<1>1. \E x \in S : \A y \in S : x >= y
  <2>1. PICK x \in S : \A y \in S : y <= x
    BY GreatestExists
  <2>2. QED
    BY <2>1
<1>2. QED
  BY <1>1 DEF Max

LEMMA EmptyDomain == DOMAIN <<>> = {}
<1>1. <<>> \in Seq({}) /\ Len(<<>>) = 0
  OBVIOUS
<1>2. DOMAIN <<>> = 1..0
  BY <1>1, LenProperties
<1>3. QED
  BY <1>2

\* A minute is in its day.
LEMMA DayFacts ==
  ASSUME NEW t \in Nat
  PROVE  /\ Day(t) \in Nat /\ DayLength \in Nat
         /\ DayLength * Day(t) <= t /\ t < DayLength * Day(t) + DayLength
BY DailyAssumption DEF Day

\* What is past the beginning of a day is of that day or of a later one.
LEMMA DayFrom ==
  ASSUME NEW t \in Nat, NEW d \in Nat, LookbackEnd(d) <= t
  PROVE  d <= Day(t)
<1>1. ASSUME d > Day(t) PROVE FALSE
  <2>1. PICK i \in Nat : d = Day(t) + 1 + i
    <3>1. d - Day(t) - 1 \in Nat /\ d = Day(t) + 1 + (d - Day(t) - 1)
      BY <1>1, DayFacts
    <3>2. QED
      BY <3>1
  <2>2. d * DayLength = DayLength * Day(t) + DayLength + i * DayLength /\ i * DayLength \in Nat
    BY <2>1, DayFacts
  <2>3. QED
    BY <2>2, DayFacts DEF LookbackEnd
<1>2. QED
  BY <1>1, DayFacts

-----------------------------------------------------------------------------
(* The table, and what of it the process holds.                             *)

IsObservation(o) ==
    /\ o \in [key : Profiles, opened : Nat, expires : Nat, settled : Nat, won : BOOLEAN, dec : {0}]
    /\ o.expires = o.opened + Life
    /\ o.settled \in {0, o.expires}

\* Rows are of the past; those of the present minute come last.
RowsArePast ==
    \A o \in table :
        /\ IsObservation(o) /\ o.opened <= now /\ o.settled <= now
        /\ pc \in {"select", "decide"} => o.opened < now

OneRowEach == \A o, p \in table : o.key = p.key /\ o.opened = p.opened => o = p

\* The process holds every row but settled ones no window reaches back to.
HeldRows ==
    /\ observations \subseteq table
    /\ \A o \in table \ observations :
           o.settled # 0 /\ o.opened + (StableDays + 1) * DayLength < now

\* What was settled expired before what is not, unless that never will be.
SettledFirst ==
    \A o \in Open(table), p \in Settled(table) :
        p.settled < o.expires \/ o.expires + KlineWindow <= now

TablesInv ==
    /\ now \in Nat /\ now >= StartTime
    /\ pc \in {"settle", "select", "decide", "down"}
    /\ RowsArePast /\ OneRowEach /\ SettledFirst
    /\ pc = "down" => observations = {}
    /\ pc # "down" => HeldRows

LEMMA InitTables == Init => TablesInv
BY DailyAssumption DEF Init, TablesInv, RowsArePast, OneRowEach, HeldRows, SettledFirst, Settled, Open

\* A row is open or it is settled.
LEMMA OpenOrSettled ==
  ASSUME NEW S, NEW o
  PROVE  /\ o \in Open(S) <=> o \in S /\ o.settled = 0
         /\ o \in Settled(S) <=> o \in S /\ o.settled # 0
BY DEF Open, Settled

LEMMA DueIs ==
  ASSUME NEW S, NEW t, NEW o
  PROVE  o \in Due(S, t)
           <=> /\ o \in S /\ o.settled = 0
               /\ o.expires <= t /\ t - o.expires < KlineWindow
BY OpenOrSettled DEF Due

\* What is due is open and has expired.
LEMMA DueRows ==
  ASSUME TablesInv, pc # "down", NEW o \in Due(observations, now + 1)
  PROVE  /\ o \in table /\ o.settled = 0 /\ IsObservation(o)
         /\ o.expires <= now + 1 /\ now + 1 - o.expires < KlineWindow
         /\ Settle1(o) = [key |-> o.key, opened |-> o.opened, expires |-> o.expires,
                          settled |-> o.expires, won |-> o.won, dec |-> 0]
<1>1. o \in observations /\ o.settled = 0
  BY DueIs
<1>2. o \in table /\ IsObservation(o) /\ now \in Nat
  BY <1>1 DEF TablesInv, HeldRows, RowsArePast
<1>3. o.expires <= now + 1 /\ now + 1 - o.expires < KlineWindow
  BY <1>2, DueIs, DailyAssumption DEF IsObservation
<1>4. QED
  BY <1>1, <1>2, <1>3 DEF IsObservation, Settle1

\* The table after a settlement that was written.
LEMMA SettledTable ==
  ASSUME TablesInv, pc # "down", NEW due, due = Due(observations, now + 1)
  PROVE  /\ WithSettlements(table, Results(due)) = (table \ due) \cup Results(due)
         /\ \A p \in Results(due) :
              \E o \in due : /\ p = Settle1(o) /\ p.key = o.key /\ p.opened = o.opened
                             /\ p.expires = o.expires /\ p.settled = o.expires
                             /\ IsObservation(p) /\ p.settled # 0
<1>1. ASSUME NEW p \in Results(due)
      PROVE  \E o \in due : /\ p = Settle1(o) /\ p.key = o.key /\ p.opened = o.opened
                            /\ p.expires = o.expires /\ p.settled = o.expires
                            /\ IsObservation(p) /\ p.settled # 0
  <2>1. PICK o \in due : p = Settle1(o)
    BY DEF Results
  <2>2. /\ IsObservation(o)
        /\ Settle1(o) = [key |-> o.key, opened |-> o.opened, expires |-> o.expires,
                         settled |-> o.expires, won |-> o.won, dec |-> 0]
    BY DueRows
  <2>3. QED
    BY <2>1, <2>2, DailyAssumption DEF IsObservation
<1>2. ASSUME NEW o \in due
      PROVE  /\ RowsOf(table, Settle1(o)) = {o} /\ Open(RowsOf(table, Settle1(o))) = {o}
  <2>1. o \in table /\ o.settled = 0 /\ Settle1(o).key = o.key /\ Settle1(o).opened = o.opened
    BY DueRows
  <2>2. RowsOf(table, Settle1(o)) = {o}
    BY <2>1 DEF RowsOf, TablesInv, OneRowEach
  <2>3. QED
    BY <2>1, <2>2 DEF Open, Settled
<1> DEFINE written == {p \in Results(due) : Open(RowsOf(table, p)) # {}}
<1>3. written = Results(due)
  BY <1>2 DEF Results
<1>4. UNION {RowsOf(table, p) : p \in written} = due
  BY <1>2, <1>3 DEF Results
<1>5. WithSettlements(table, Results(due))
        = (table \ UNION {RowsOf(table, p) : p \in written}) \cup written
  BY DEF WithSettlements
<1>6. QED
  BY <1>1, <1>3, <1>4, <1>5

\* Settling the rows that are due keeps the tables in step; so does failing to.
LEMMA SettleTables == TablesInv /\ Settle => TablesInv'
<1> SUFFICES ASSUME TablesInv, Settle PROVE TablesInv'
  OBVIOUS
<1> DEFINE due == Due(observations, now + 1)
<1>1. /\ pc = "settle" /\ pc' = "select" /\ now \in Nat /\ now' = now + 1 /\ now >= StartTime
      /\ StartTime \in Nat /\ HeldRows
      /\ \/ observations' = observations /\ table' = table
         \/ /\ observations' = (observations \ due) \cup Results(due)
            /\ table' = WithSettlements(table, Results(due))
  BY DailyAssumption DEF Settle, TablesInv
<1>2. CASE observations' = observations /\ table' = table
  <2>1. RowsArePast'
    BY <1>1, <1>2 DEF TablesInv, RowsArePast, IsObservation
  <2>2. OneRowEach'
    BY <1>2 DEF TablesInv, OneRowEach
  <2>3. SettledFirst'
    <3>1. ASSUME NEW o \in Open(table), NEW p \in Settled(table)
          PROVE  p.settled < o.expires \/ o.expires + KlineWindow <= now'
      <4>1. p.settled < o.expires \/ o.expires + KlineWindow <= now
        BY DEF TablesInv, SettledFirst
      <4>2. o \in table /\ o.expires \in Nat
        BY DEF Open, TablesInv, RowsArePast, IsObservation
      <4>3. QED
        BY <1>1, <4>1, <4>2, DailyAssumption
    <3>2. QED
      BY <1>2, <3>1 DEF SettledFirst, Open, Settled
  <2>4. HeldRows'
    <3>1. ASSUME NEW o \in table \ observations
          PROVE  o.settled # 0 /\ o.opened + (StableDays + 1) * DayLength < now'
      <4>1. o.settled # 0 /\ o.opened + (StableDays + 1) * DayLength < now /\ o.opened \in Nat
        BY <1>1 DEF HeldRows, TablesInv, RowsArePast, IsObservation
      <4>2. (StableDays + 1) * DayLength \in Nat
        BY DailyAssumption
      <4>3. QED
        BY <1>1, <4>1, <4>2
    <3>2. QED
      BY <1>1, <1>2, <3>1 DEF HeldRows
  <2>5. QED
    BY <1>1, <2>1, <2>2, <2>3, <2>4 DEF TablesInv
<1>3. CASE /\ observations' = (observations \ due) \cup Results(due)
           /\ table' = WithSettlements(table, Results(due))
  <2>1. table' = (table \ due) \cup Results(due)
    BY <1>1, <1>3, SettledTable
  <2>2. ASSUME NEW p \in Results(due)
        PROVE  \E o \in due : /\ p.key = o.key /\ p.opened = o.opened
                              /\ p.expires = o.expires /\ p.settled = o.expires
                              /\ IsObservation(p) /\ p.settled # 0
    BY <1>1, SettledTable
  <2>3. ASSUME NEW o \in due
        PROVE  /\ o \in table /\ o \in observations /\ o.settled = 0 /\ IsObservation(o)
               /\ o.expires <= now + 1 /\ now + 1 - o.expires < KlineWindow
    <3>1. o \in observations
      BY DEF Due, Open
    <3>2. QED
      BY <1>1, <3>1, DueRows
  <2> HIDE DEF due
  <2>4. RowsArePast'
    <3>1. ASSUME NEW o \in table'
          PROVE  IsObservation(o) /\ o.opened <= now' /\ o.settled <= now' /\ o.opened < now'
      <4>1. CASE o \in table
        BY <1>1, <4>1 DEF TablesInv, RowsArePast, IsObservation
      <4>2. CASE o \in Results(due)
        <5>1. PICK q \in due : /\ o.opened = q.opened /\ o.settled = q.expires /\ IsObservation(o)
          BY <2>2, <4>2
        <5>2. q \in table /\ q.expires <= now + 1
          BY <2>3
        <5>3. q.opened <= now /\ q.opened \in Nat
          BY <5>2 DEF TablesInv, RowsArePast, IsObservation
        <5>4. QED
          BY <1>1, <5>1, <5>2, <5>3
      <4>3. QED
        BY <2>1, <4>1, <4>2
    <3>2. QED
      BY <1>1, <3>1 DEF RowsArePast
  <2>5. OneRowEach'
    <3>1. ASSUME NEW o \in table', NEW p \in table', o.key = p.key, o.opened = p.opened
          PROVE  o = p
      <4>1. CASE o \in table \ due /\ p \in table \ due
        BY <3>1, <4>1 DEF TablesInv, OneRowEach
      <4>2. ASSUME NEW x \in table \ due, NEW y \in Results(due), x.key = y.key, x.opened = y.opened
            PROVE  FALSE
        <5>1. PICK q \in due : y.key = q.key /\ y.opened = q.opened
          BY <2>2
        <5>2. q \in table /\ q = x
          BY <2>3, <4>2, <5>1 DEF TablesInv, OneRowEach
        <5>3. QED
          BY <4>2, <5>2
      <4>3. CASE o \in Results(due) /\ p \in Results(due)
        <5>1. PICK x \in due : o = Settle1(x) /\ o.key = x.key /\ o.opened = x.opened
          BY <1>1, <4>3, SettledTable DEF due
        <5>2. PICK y \in due : p = Settle1(y) /\ p.key = y.key /\ p.opened = y.opened
          BY <1>1, <4>3, SettledTable DEF due
        <5>3. x = y
          BY <2>3, <3>1, <5>1, <5>2 DEF TablesInv, OneRowEach
        <5>4. QED
          BY <5>1, <5>2, <5>3
      <4>4. QED
        BY <2>1, <3>1, <4>1, <4>2, <4>3
    <3>2. QED
      BY <3>1 DEF OneRowEach
  <2>6. SettledFirst'
    <3>1. ASSUME NEW o \in table', o.settled = 0, NEW p \in table', p.settled # 0
          PROVE  p.settled < o.expires \/ o.expires + KlineWindow <= now'
      <4>1. o \in table /\ o \notin due
        BY <2>1, <2>2, <3>1
      <4>2. o \in observations /\ o.expires \in Nat
        BY <1>1, <3>1, <4>1 DEF HeldRows, TablesInv, RowsArePast, IsObservation
      <4>3. o.expires > now + 1 \/ now + 1 - o.expires >= KlineWindow
        <5>1. ~(o.expires <= now + 1 /\ now + 1 - o.expires < KlineWindow)
          BY <1>1, <3>1, <4>1, <4>2, DueIs, DailyAssumption DEF due
        <5>2. QED
          BY <1>1, <4>2, <5>1, DailyAssumption
      <4>4. CASE p \in table
        <5>1. p.settled < o.expires \/ o.expires + KlineWindow <= now
          BY <3>1, <4>1, <4>4 DEF TablesInv, SettledFirst, Open, Settled
        <5>2. QED
          BY <1>1, <4>2, <5>1, DailyAssumption
      <4>5. CASE p \in Results(due)
        <5>1. PICK q \in due : p.settled = q.expires
          BY <2>2, <4>5
        <5>2. q.expires <= now + 1 /\ q.expires \in Nat
          BY <2>3 DEF IsObservation
        <5>3. QED
          BY <1>1, <4>2, <4>3, <5>1, <5>2, DailyAssumption
      <4>6. QED
        BY <2>1, <3>1, <4>4, <4>5
    <3>2. QED
      BY <3>1 DEF SettledFirst, Open, Settled
  <2>7. HeldRows'
    <3>1. observations' \subseteq table'
      BY <1>1, <1>3, <2>1 DEF HeldRows
    <3>2. ASSUME NEW o \in table' \ observations'
          PROVE  o.settled # 0 /\ o.opened + (StableDays + 1) * DayLength < now'
      <4>1. o \in table \ observations
        BY <1>3, <2>1
      <4>2. o.settled # 0 /\ o.opened + (StableDays + 1) * DayLength < now /\ o.opened \in Nat
        BY <1>1, <4>1 DEF HeldRows, TablesInv, RowsArePast, IsObservation
      <4>3. (StableDays + 1) * DayLength \in Nat
        BY DailyAssumption
      <4>4. QED
        BY <1>1, <4>2, <4>3
    <3>3. QED
      BY <3>1, <3>2 DEF HeldRows
  <2>8. QED
    BY <1>1, <2>4, <2>5, <2>6, <2>7 DEF TablesInv
<1>4. QED
  BY <1>1, <1>2, <1>3

\* What a decision records: rows of the present minute, which are open.
LEMMA DecidedTable ==
  ASSUME TablesInv, Decide
  PROVE  \E opened :
            /\ table' = table \cup opened /\ observations' = observations \cup opened
            /\ opened \cap table = {}
            /\ \A o \in opened : /\ IsObservation(o) /\ o.opened = now /\ o.settled = 0
                                 /\ o.expires = now + Life
            /\ \A o, p \in opened : o.key = p.key => o = p
<1>1. PICK cands, lost, won :
         /\ cands \in SUBSET Profiles
         /\ observations' = observations \cup ObservedOf(cands \ lost, won)
         /\ table' = WithDecisions(table, ObservedOf(cands \ lost, won))
  <2>1. PICK cands, primary, seconds, lost, won :
           cands \in SUBSET Profiles /\ DecideOn(cands, primary, seconds, lost, won)
    BY Zenon DEF Decide
  <2>2. QED
    BY <2>1, Zenon DEF DecideOn
<1> DEFINE opened == ObservedOf(cands \ lost, won)
<1>2. pc = "decide" /\ now \in Nat
  BY DEF Decide, DecideOn, TablesInv
<1>3. ASSUME NEW o \in opened
      PROVE  /\ IsObservation(o) /\ o.opened = now /\ o.settled = 0 /\ o.expires = now + Life
             /\ o = Observation(o.key, now, o.key \in won)
  <2>1. PICK k \in Profiles : o = Observation(k, now, k \in won)
    BY <1>1 DEF ObservedOf
  <2>2. QED
    BY <1>2, <2>1, DailyAssumption DEF Observation, IsObservation
<1>4. \A o, p \in opened : o.key = p.key => o = p
  BY <1>3
<1>5. ASSUME NEW o \in opened PROVE RowsOf(table, o) = {}
  <2>1. \A p \in table : p.opened < now /\ p.opened \in Nat
    BY <1>2 DEF TablesInv, RowsArePast, IsObservation
  <2>2. o.opened = now
    BY <1>3
  <2> HIDE DEF opened
  <2>3. QED
    BY <1>2, <2>1, <2>2 DEF RowsOf
<1>6. table' = table \cup opened
  BY <1>1, <1>5 DEF WithDecisions
<1>7. opened \cap table = {}
  BY <1>5 DEF RowsOf
<1>8. QED
  BY <1>1, <1>3, <1>4, <1>6, <1>7

LEMMA DecideTables == TablesInv /\ Decide => TablesInv'
<1> SUFFICES ASSUME TablesInv, Decide PROVE TablesInv'
  OBVIOUS
<1>1. PICK opened :
        /\ table' = table \cup opened /\ observations' = observations \cup opened
        /\ opened \cap table = {}
        /\ \A o \in opened : /\ IsObservation(o) /\ o.opened = now /\ o.settled = 0
                             /\ o.expires = now + Life
        /\ \A o, p \in opened : o.key = p.key => o = p
  BY DecidedTable
<1>2. /\ pc = "decide" /\ pc' = "settle" /\ now \in Nat /\ now' = now /\ now >= StartTime
      /\ HeldRows /\ Life \in Nat \ {0} /\ KlineWindow \in Nat \ {0}
  BY DailyAssumption DEF Decide, DecideOn, TablesInv
<1>3. \A o \in table : IsObservation(o) /\ o.opened < now /\ o.opened \in Nat /\ o.settled <= now
  BY <1>2 DEF TablesInv, RowsArePast, IsObservation
<1>4. RowsArePast'
  BY <1>1, <1>2, <1>3 DEF RowsArePast
<1>5. OneRowEach'
  <2>1. ASSUME NEW o \in table', NEW p \in table', o.key = p.key, o.opened = p.opened
        PROVE  o = p
    <3>1. CASE o \in table /\ p \in table
      BY <2>1, <3>1 DEF TablesInv, OneRowEach
    <3>2. CASE o \in opened /\ p \in opened
      BY <1>1, <2>1, <3>2
    <3>3. \A x \in table, y \in opened : x.opened # y.opened
      BY <1>1, <1>2, <1>3
    <3>4. QED
      BY <1>1, <2>1, <3>1, <3>2, <3>3
  <2>2. QED
    BY <2>1 DEF OneRowEach
<1>6. SettledFirst'
  <2>1. ASSUME NEW o \in table', o.settled = 0, NEW p \in table', p.settled # 0
        PROVE  p.settled < o.expires \/ o.expires + KlineWindow <= now'
    <3>1. p \in table /\ p.settled <= now /\ p.settled \in Nat
      BY <1>1, <1>3, <2>1 DEF IsObservation
    <3>2. CASE o \in opened
      BY <1>1, <1>2, <3>1, <3>2
    <3>3. CASE o \in table
      BY <1>2, <2>1, <3>1, <3>3 DEF TablesInv, SettledFirst, Open, Settled
    <3>4. QED
      BY <1>1, <2>1, <3>2, <3>3
  <2>2. QED
    BY <2>1 DEF SettledFirst, Open, Settled
<1>7. HeldRows'
  BY <1>1, <1>2 DEF HeldRows
<1>8. QED
  BY <1>2, <1>4, <1>5, <1>6, <1>7 DEF TablesInv

\* A restart reads every row but settled ones of more than the windows ago.
LEMMA RuntimeRowsHeld ==
  ASSUME TablesInv
  PROVE  /\ RuntimeRows(table) \subseteq table
         /\ \A o \in table \ RuntimeRows(table) :
                o.settled # 0 /\ o.opened + (StableDays + 1) * DayLength < now
<1>1. RuntimeRows(table) \subseteq table
  BY DEF RuntimeRows, Open
<1>2. ASSUME NEW o \in table \ RuntimeRows(table)
      PROVE  o.settled # 0 /\ o.opened + (StableDays + 1) * DayLength < now
  <2> DEFINE openings == {q.opened : q \in table}
             last == Max(openings)
  <2>1. openings \in SUBSET (0..now) /\ openings # {} /\ now \in Nat /\ o.opened \in Nat
    BY <1>2 DEF TablesInv, RowsArePast, IsObservation
  <2>2. last \in 0..now
    <3> HIDE DEF openings
    <3>1. QED
      BY <2>1, MaxOf
  <2> HIDE DEF last
  <2>3. o \notin Open(table) /\ ~(o.opened >= last - (StableDays + 1) * DayLength)
    BY <1>2 DEF RuntimeRows, last
  <2>4. (StableDays + 1) * DayLength \in Nat
    BY DailyAssumption
  <2>5. QED
    BY <1>2, <2>1, <2>2, <2>3, <2>4, OpenOrSettled
<1>3. QED
  BY <1>1, <1>2

LEMMA StepTables == TablesInv /\ [Next]_vars => TablesInv'
<1> SUFFICES ASSUME TablesInv, [Next]_vars PROVE TablesInv'
  OBVIOUS
<1>1. CASE Settle
  BY <1>1, SettleTables
<1>2. CASE Decide
  BY <1>2, DecideTables
<1>3. CASE Select \/ SelectRaises
  BY <1>3 DEF Select, SelectRaises, TablesInv, RowsArePast, OneRowEach, SettledFirst, HeldRows
<1>4. CASE Crash
  BY <1>4 DEF Crash, disk, TablesInv, RowsArePast, OneRowEach, SettledFirst
<1>5. CASE Pass
  <2>1. /\ pc = "down" /\ pc' = "down" /\ now \in Nat /\ now' = now + 1 /\ now >= StartTime
        /\ StartTime \in Nat /\ table' = table /\ observations' = observations
    BY <1>5, DailyAssumption DEF Pass, memory, disk, TablesInv
  <2>2. SettledFirst'
    <3>1. ASSUME NEW o \in Open(table), NEW p \in Settled(table)
          PROVE  p.settled < o.expires \/ o.expires + KlineWindow <= now'
      <4>1. p.settled < o.expires \/ o.expires + KlineWindow <= now
        BY DEF TablesInv, SettledFirst
      <4>2. o \in table /\ o.expires \in Nat
        BY DEF Open, TablesInv, RowsArePast, IsObservation
      <4>3. QED
        BY <2>1, <4>1, <4>2, DailyAssumption
    <3>2. QED
      BY <2>1, <3>1 DEF SettledFirst, Open, Settled
  <2>3. RowsArePast' /\ OneRowEach'
    BY <2>1 DEF TablesInv, RowsArePast, OneRowEach, IsObservation
  <2>4. QED
    BY <2>1, <2>2, <2>3 DEF TablesInv
<1>6. CASE Restart
  <2>1. HeldRows'
    BY <1>6, RuntimeRowsHeld DEF Restart, disk, HeldRows
  <2>2. QED
    BY <1>6, <2>1 DEF Restart, disk, TablesInv, RowsArePast, OneRowEach, SettledFirst
<1>7. CASE UNCHANGED vars
  BY <1>7 DEF vars, memory, disk, TablesInv, RowsArePast, OneRowEach, SettledFirst, HeldRows
<1>8. QED
  BY <1>1, <1>2, <1>3, <1>4, <1>5, <1>6, <1>7 DEF Next

-----------------------------------------------------------------------------
(* A selection made anew *)

LEMMA EligibleIs ==
  ASSUME NEW S, NEW d, NEW days, NEW o
  PROVE  o \in Eligible(S, d, days)
           <=> /\ o \in S /\ o.settled # 0
               /\ o.opened >= LookbackEnd(d) - days * DayLength
               /\ o.opened < LookbackEnd(d)
               /\ o.settled < LookbackEnd(d)
BY OpenOrSettled DEF Eligible

\* A selection is made from the rows of its two windows.
LEMMA BuildBy ==
  ASSUME NEW S, NEW T, NEW d, NEW previous, NEW max,
         Eligible(S, d, FastDays) = Eligible(T, d, FastDays),
         Eligible(S, d, StableDays) = Eligible(T, d, StableDays)
  PROVE  Build(S, d, previous, max) = Build(T, d, previous, max)
<1>1. \A k : /\ Samples(S, d, FastDays, k) = Samples(T, d, FastDays, k)
             /\ Samples(S, d, StableDays, k) = Samples(T, d, StableDays, k)
  BY DEF Samples
<1>2. QED
  BY <1>1, Zenon DEF Build

LEMMA Products ==
  ASSUME NEW a \in Nat, NEW b \in Nat, a <= b, NEW c \in Nat
  PROVE  a * c <= b * c /\ a * c \in Nat /\ b * c \in Nat
<1>1. PICK i \in Nat : b = a + i
  <2>1. b - a \in Nat /\ b = a + (b - a)
    OBVIOUS
  <2>2. QED
    BY <2>1
<1>2. b * c = a * c + i * c /\ i * c \in Nat /\ a * c \in Nat
  BY <1>1
<1>3. QED
  BY <1>2

\* What a restart leaves out is in no window of the day.
LEMMA SameWindows ==
  ASSUME TablesInv, NEW T \in SUBSET table, NEW days \in {FastDays, StableDays},
         \A o \in table \ T : o.settled # 0 /\ o.opened + (StableDays + 1) * DayLength < now
  PROVE  Eligible(T, Day(now), days) = Eligible(table, Day(now), days)
<1>1. /\ now \in Nat /\ days \in Nat /\ StableDays \in Nat /\ DayLength \in Nat
      /\ days * DayLength <= StableDays * DayLength
      /\ days * DayLength \in Nat /\ StableDays * DayLength \in Nat
  BY DailyAssumption, Products DEF TablesInv
<1>2. (StableDays + 1) * DayLength = StableDays * DayLength + DayLength
  BY <1>1
<1>3. LookbackEnd(Day(now)) \in Nat /\ now < LookbackEnd(Day(now)) + DayLength
  BY <1>1, DayFacts DEF LookbackEnd
<1>4. ASSUME NEW o \in Eligible(table, Day(now), days) PROVE o \in T
  <2>1. o \in table /\ o.opened \in Nat /\ o.opened >= LookbackEnd(Day(now)) - days * DayLength
    BY EligibleIs DEF TablesInv, RowsArePast, IsObservation
  <2>2. ~(o.opened + (StableDays + 1) * DayLength < now)
    BY <1>1, <1>2, <1>3, <2>1
  <2>3. QED
    BY <2>1, <2>2
<1>5. \A o \in T : o \in Eligible(T, Day(now), days) <=> o \in Eligible(table, Day(now), days)
  BY EligibleIs, Zenon
<1>6. Eligible(T, Day(now), days) \subseteq T
  BY EligibleIs, Zenon
<1>7. QED
  BY <1>4, <1>5, <1>6

\* So what the process holds gives the selection that the table gives.
LEMMA SameSelection ==
  ASSUME TablesInv, NEW T \in SUBSET table, NEW previous, NEW max,
         \A o \in table \ T : o.settled # 0 /\ o.opened + (StableDays + 1) * DayLength < now
  PROVE  Build(T, Day(now), previous, max) = Build(table, Day(now), previous, max)
<1>1. /\ Eligible(T, Day(now), FastDays) = Eligible(table, Day(now), FastDays)
      /\ Eligible(T, Day(now), StableDays) = Eligible(table, Day(now), StableDays)
  BY SameWindows
<1>2. QED
  BY <1>1, BuildBy

\* A process restarted at any moment would select for the day what the running
\* one selects: the day more than its windows that it reads covers them.
THEOREM RecalculationsStand == Spec => []RecalculationStands
<1>1. TablesInv => RecalculationStands
  <2> SUFFICES ASSUME TablesInv, pc \in {"settle", "decide"}
               PROVE  \A previous, max :
                        Build(RuntimeRows(table), Day(now), previous, max)
                          = Build(observations, Day(now), previous, max)
    BY DEF RecalculationStands
  <2> TAKE previous, max
  <2>1. Build(RuntimeRows(table), Day(now), previous, max) = Build(table, Day(now), previous, max)
    BY RuntimeRowsHeld, SameSelection
  <2>2. Build(observations, Day(now), previous, max) = Build(table, Day(now), previous, max)
    BY SameSelection DEF TablesInv, HeldRows
  <2>3. QED
    BY <2>1, <2>2
<1>2. Spec => []TablesInv
  BY InitTables, StepTables, PTL DEF Spec
<1>3. QED
  BY <1>1, <1>2, PTL

-----------------------------------------------------------------------------
(* The recorded days before a day *)

Before(h, d) == {e \in DOMAIN h : e < d}

LastDays(h, d, n) == {e \in Before(h, d) : Cardinality({f \in Before(h, d) : f > e}) < n}

WasOn(h, e, k) == IF k \in DOMAIN h[e].rows THEN h[e].rows[k].state ELSE "UNKNOWN"

\* On each of the last n recorded days before d the profile was watched.
Watched(h, d, k, n) ==
    /\ Cardinality(LastDays(h, d, n)) = n
    /\ \A e \in LastDays(h, d, n) : WasOn(h, e, k) = "QUALIFICATION_WATCH"

\* The days before a day are what they are in every history that has them.
LEMMA SameBefore ==
  ASSUME NEW g, NEW h, NEW d, NEW k, NEW n,
         Before(g, d) = Before(h, d), \A e \in Before(h, d) : g[e] = h[e]
  PROVE  /\ Watched(g, d, k, n) <=> Watched(h, d, k, n)
         /\ \A e \in Before(h, d) : WasOn(g, e, k) = WasOn(h, e, k)
<1>1. LastDays(g, d, n) = LastDays(h, d, n)
  BY DEF LastDays
<1>2. LastDays(h, d, n) \subseteq Before(h, d)
  BY DEF LastDays
<1>3. \A e \in Before(h, d) : WasOn(g, e, k) = WasOn(h, e, k)
  BY DEF WasOn
<1>4. QED
  BY <1>1, <1>2, <1>3, Zenon DEF Watched

\* No day is the last none.
LEMMA WatchedNone ==
  ASSUME NEW h, NEW d, NEW k, IsFiniteSet(DOMAIN h)
  PROVE  Watched(h, d, k, 0)
<1>1. ASSUME NEW e PROVE Cardinality({f \in Before(h, d) : f > e}) \in Nat
  <2>1. IsFiniteSet({f \in Before(h, d) : f > e})
    BY FS_Subset DEF Before
  <2>2. QED
    BY <2>1, FS_CardinalityType
<1>2. LastDays(h, d, 0) = {}
  BY <1>1 DEF LastDays
<1>3. QED
  BY <1>2, FS_EmptySet DEF Watched

\* One day more: the newest one before d, and the last n before that.
LEMMA WatchedOneMore ==
  ASSUME NEW h, NEW top \in Nat, DOMAIN h \subseteq 0..top, NEW d \in Nat, NEW k, NEW n \in Nat,
         NEW m \in Before(h, d), \A e \in Before(h, d) : e <= m,
         Watched(h, m, k, n), WasOn(h, m, k) = "QUALIFICATION_WATCH"
  PROVE  Watched(h, d, k, n + 1)
<1>1. DOMAIN h \subseteq Nat /\ IsFiniteSet(DOMAIN h) /\ m \in Nat /\ m < d
  <2>1. IsFiniteSet(0..top)
    BY FS_Interval
  <2>2. QED
    BY <2>1, FS_Subset DEF Before
<1>2. Before(h, m) = Before(h, d) \ {m} /\ m \notin Before(h, m)
  BY <1>1 DEF Before
<1>3. ASSUME NEW e
      PROVE  IsFiniteSet({f \in Before(h, m) : f > e}) /\ IsFiniteSet({f \in Before(h, d) : f > e})
  BY <1>1, FS_Subset DEF Before
<1>4. ASSUME NEW e \in Before(h, m)
      PROVE  Cardinality({f \in Before(h, d) : f > e})
               = Cardinality({f \in Before(h, m) : f > e}) + 1
  <2>1. e < m /\ m \notin {f \in Before(h, m) : f > e}
    BY <1>1, <1>2, <1>4 DEF Before
  <2>2. {f \in Before(h, d) : f > e} = {f \in Before(h, m) : f > e} \cup {m}
    BY <1>1, <1>2, <2>1
  <2>3. QED
    BY <1>3, <2>1, <2>2, FS_AddElement
<1>5. Cardinality({f \in Before(h, d) : f > m}) = 0
  <2>1. {f \in Before(h, d) : f > m} = {}
    BY <1>1 DEF Before
  <2>2. QED
    BY <2>1, FS_EmptySet
<1>6. LastDays(h, d, n + 1) = LastDays(h, m, n) \cup {m}
  <2>1. ASSUME NEW e \in Before(h, m)
        PROVE  e \in LastDays(h, d, n + 1) <=> e \in LastDays(h, m, n)
    <3>1. Cardinality({f \in Before(h, m) : f > e}) \in Nat
      BY <1>3, FS_CardinalityType
    <3>2. QED
      BY <1>2, <1>4, <3>1 DEF LastDays
  <2>2. m \in LastDays(h, d, n + 1)
    BY <1>5 DEF LastDays
  <2>3. LastDays(h, d, n + 1) \subseteq Before(h, d) /\ LastDays(h, m, n) \subseteq Before(h, m)
    BY DEF LastDays
  <2>4. QED
    BY <1>2, <2>1, <2>2, <2>3
<1>7. m \notin LastDays(h, m, n) /\ IsFiniteSet(LastDays(h, m, n))
  BY <1>1, <1>2, FS_Subset DEF LastDays, Before
<1>8. Cardinality(LastDays(h, d, n + 1)) = n + 1
  BY <1>6, <1>7, FS_AddElement DEF Watched
<1>9. \A e \in LastDays(h, d, n + 1) : WasOn(h, e, k) = "QUALIFICATION_WATCH"
  BY <1>6 DEF Watched
<1>10. QED
  BY <1>8, <1>9 DEF Watched

-----------------------------------------------------------------------------
(* The recorded selections *)

Chosen3 == {"RETAINED", "SELECTED", "QUALIFICATION_WATCH"}

\* A profile that failed on r days in a row was watched on those before.
RowCounts(h, d, k) ==
    LET row == h[d].rows[k]
    IN  /\ row.day = d /\ row.runs \in Nat
        /\ row.state \in {"RETAINED", "SELECTED"} => row.runs = 0
        /\ row.state = "QUALIFICATION_WATCH" =>
              /\ row.runs < JointFailures
              /\ row.runs # 0 => Watched(h, d, k, row.runs - 1)

ExitEarned(h, d, k) ==
    /\ h[d].rows[k].state = "DEGRADED_EXIT"
    /\ Before(h, d) # {} => WasOn(h, Max(Before(h, d)), k) # "DEGRADED_EXIT"
    => Watched(h, d, k, JointFailures - 1)

DayRecorded(snapshot, d) ==
    /\ snapshot = [day |-> d, status |-> "READY", limit |-> snapshot.limit,
                   rows |-> snapshot.rows, places |-> snapshot.places]
    /\ DOMAIN snapshot.rows \subseteq Profiles
    /\ \A k \in DOMAIN snapshot.places :
          /\ k \in DOMAIN snapshot.rows /\ snapshot.rows[k].state \in Chosen3
          /\ snapshot.places[k] \in Nat \ {0}

Recorded(h, top) ==
    /\ DOMAIN h \subseteq 1..top
    /\ \A d \in DOMAIN h :
          /\ DayRecorded(h[d], d)
          /\ \A k \in DOMAIN h[d].rows : RowCounts(h, d, k) /\ ExitEarned(h, d, k)

\* The row of a profile: new, a day's failure more, or what it was.
LEMMA CandidateGives ==
  ASSUME NEW fastest, NEW stable, NEW d, NEW previous, NEW k, NEW row,
         row = Candidate(fastest, stable, d, previous, k),
         NEW failed, failed = FailedRuns(previous.rows[k], d)
  PROVE  /\ row.day = d
         /\ \/ row.state \in {"RETAINED", "SELECTED", "NOT_QUALIFIED"} /\ row.runs = 0
            \/ /\ row.state = "QUALIFICATION_WATCH" /\ row.runs = failed
               /\ k \in DOMAIN previous.places /\ failed < JointFailures
            \/ /\ row.state = "DEGRADED_EXIT" /\ row.runs = failed
               /\ k \in DOMAIN previous.places /\ failed >= JointFailures
            \/ /\ row.state = "DEGRADED_EXIT" /\ row.runs = previous.rows[k].runs
               /\ k \in DOMAIN previous.rows /\ previous.rows[k].state = "DEGRADED_EXIT"
BY DEF Candidate

\* The profiles a selection ranks, and their places.
LEMMA SelectionGives ==
  ASSUME NEW d, NEW of, DOMAIN of \subseteq Profiles, NEW max
  PROVE  /\ Selection(d, of, max) = [day |-> d, status |-> "READY", limit |-> max, rows |-> of,
                                     places |-> Selection(d, of, max).places]
         /\ \A k \in DOMAIN Selection(d, of, max).places :
               /\ k \in DOMAIN of /\ of[k].state \in Chosen3
               /\ Selection(d, of, max).places[k] \in Nat \ {0}
<1> DEFINE ranked == {k \in DOMAIN of : of[k].state \in Chosen3}
           ahead(k) == {j \in ranked : Ahead(of[j], of[k], j, k)}
<1>1. Ranking(of) = [k \in ranked |-> 1 + Cardinality(ahead(k))]
  BY DEF Ranking, Chosen3
<1>2. ASSUME NEW k PROVE Cardinality(ahead(k)) \in Nat
  <2>1. IsFiniteSet(ahead(k))
    BY DailyAssumption, FS_Subset
  <2>2. QED
    BY <2>1, FS_CardinalityType
<1>3. DOMAIN Ranking(of) = ranked /\ \A k \in ranked : Ranking(of)[k] \in Nat \ {0}
  <2> HIDE DEF ahead
  <2>1. QED
    BY <1>1, <1>2
<1> DEFINE within == {k \in DOMAIN Ranking(of) : max = 0 \/ Ranking(of)[k] <= max}
<1>4. /\ Selection(d, of, max) = [day |-> d, status |-> "READY", limit |-> max, rows |-> of,
                                  places |-> Selection(d, of, max).places]
      /\ Selection(d, of, max).places = Restrict(Ranking(of), within)
  BY DEF Selection
<1>5. within \subseteq ranked
  BY <1>3
<1>6. Restrict(Ranking(of), within) = [k \in within |-> Ranking(of)[k]]
  BY DEF Restrict
<1> HIDE DEF within, ahead
<1>7. QED
  BY <1>3, <1>4, <1>5, <1>6

\* What the database answers for a day no recorded one is after: the newest
\* recorded selection.
LEMMA AsOfIs ==
  ASSUME NEW h, NEW top \in Nat, Recorded(h, top), NEW d, d = top
  PROVE  \/ DOMAIN h = {} /\ AsOf(h, d) = None
         \/ \E m \in DOMAIN h : /\ AsOf(h, d) = h[m] /\ m \in 1..d
                                /\ \A e \in DOMAIN h : e <= m
<1> DEFINE upTo == {e \in DOMAIN h : e <= d}
<1>1. upTo = DOMAIN h /\ DOMAIN h \in SUBSET (0..top) /\ DOMAIN h \subseteq 1..top
  BY DEF Recorded
<1>2. CASE DOMAIN h = {}
  BY <1>1, <1>2 DEF AsOf
<1>3. CASE DOMAIN h # {}
  <2>1. Max(DOMAIN h) \in DOMAIN h /\ \A e \in DOMAIN h : e <= Max(DOMAIN h)
    BY <1>1, <1>3, MaxOf
  <2>2. AsOf(h, d) = h[Max(DOMAIN h)]
    BY <1>1, <1>3 DEF AsOf
  <2>3. QED
    BY <1>1, <2>1, <2>2
<1>4. QED
  BY <1>2, <1>3

\* The days before the one that follows the newest.
LEMMA NewestBefore ==
  ASSUME NEW h, NEW top \in Nat, DOMAIN h \subseteq 1..top, NEW d \in Nat,
         NEW m \in Before(h, d), \A e \in Before(h, d) : e <= m
  PROVE  Max(Before(h, d)) = m
<1>1. Before(h, d) \in SUBSET (0..top) /\ Before(h, d) # {}
  BY DEF Before
<1>2. Max(Before(h, d)) \in Before(h, d) /\ m <= Max(Before(h, d))
  BY <1>1, MaxOf
<1>3. QED
  BY <1>1, <1>2

\* What saving the selection for a day leaves.
SavedWith(h, d, S, max) ==
    LET built == Build(S, d, AsOf(h, d), max)
        g     == Saved(h, built)
    IN  /\ Recorded(g, d) /\ g[d] = built
        /\ built.day = d /\ built.status = "READY" /\ built.limit = max
        /\ DOMAIN g = DOMAIN h \cup {d} /\ \A e \in DOMAIN h : e # d => g[e] = h[e]

\* Recording a selection for the day keeps the account of the failed days, the
\* first time and every other time.
LEMMA RecordKeeps ==
  ASSUME NEW h, NEW d \in Nat \ {0}, Recorded(h, d),
         NEW S, \A o \in S : o.key \in Profiles, NEW max
  PROVE  SavedWith(h, d, S, max)
<1> SUFFICES ASSUME NEW built, built = Build(S, d, AsOf(h, d), max),
                    NEW g, g = Saved(h, built)
             PROVE  /\ Recorded(g, d) /\ g[d] = built
                    /\ built.day = d /\ built.status = "READY" /\ built.limit = max
                    /\ DOMAIN g = DOMAIN h \cup {d} /\ \A e \in DOMAIN h : e # d => g[e] = h[e]
  BY DEF SavedWith
<1> DEFINE previous == AsOf(h, d)
           keys == {o.key : o \in Eligible(S, d, StableDays)} \cup DOMAIN previous.rows
           of   == [k \in keys |-> Candidate(Samples(S, d, FastDays, k),
                                             Samples(S, d, StableDays, k), d, previous, k)]
<1>1. built = Selection(d, of, max)
  BY DEF Build
<1>2. \/ DOMAIN h = {} /\ previous = None
      \/ \E m \in DOMAIN h : /\ previous = h[m] /\ m \in 1..d
                             /\ \A e \in DOMAIN h : e <= m
  BY AsOfIs
<1>3. DOMAIN previous.rows \subseteq Profiles /\ DOMAIN previous.places \subseteq DOMAIN previous.rows
  <2>1. DOMAIN None.rows = {} /\ DOMAIN None.places = {}
    BY EmptyDomain DEF None
  <2>2. QED
    BY <1>2, <2>1 DEF Recorded, DayRecorded
<1>4. keys \subseteq Profiles /\ DOMAIN of = keys
  <2>1. Eligible(S, d, StableDays) \subseteq S
    BY EligibleIs, Zenon
  <2>2. QED
    BY <1>3, <2>1
<1>5. /\ built.day = d /\ built.rows = of /\ DayRecorded(built, d)
      /\ built.status = "READY" /\ built.limit = max
  <2> HIDE DEF of, keys
  <2>1. /\ built = [day |-> d, status |-> "READY", limit |-> max, rows |-> of, places |-> built.places]
        /\ \A k \in DOMAIN built.places :
              k \in DOMAIN of /\ of[k].state \in Chosen3 /\ built.places[k] \in Nat \ {0}
    BY <1>1, <1>4, SelectionGives
  <2>2. built.day = d /\ built.rows = of /\ built.limit = max /\ built.status = "READY"
    BY <2>1
  <2>3. QED
    BY <1>4, <2>1, <2>2 DEF DayRecorded
<1>6. /\ DOMAIN g = DOMAIN h \cup {d} /\ g[d] = built
      /\ \A e \in DOMAIN h : e # d => g[e] = h[e]
  <2> HIDE DEF of, keys, previous
  <2>1. built.day = d
    BY <1>5
  <2>2. /\ DOMAIN Saved(h, built) = DOMAIN h \cup {d} /\ Saved(h, built)[d] = built
        /\ \A e \in DOMAIN h : e # d => Saved(h, built)[e] = h[e]
    <3> HIDE DEF previous, keys, of
    <3>1. Saved(h, built) = [e \in DOMAIN h \cup {built.day} |-> IF e = built.day THEN built ELSE h[e]]
      BY DEF Saved
    <3>2. QED
      BY <2>1, <3>1
  <2>3. QED
    BY <2>2
<1>7. DOMAIN h \subseteq 1..d /\ DOMAIN g \subseteq 1..d
  BY <1>6 DEF Recorded
<1>8. ASSUME NEW e \in 1..d
      PROVE  /\ Before(g, e) = Before(h, e) /\ \A f \in Before(h, e) : g[f] = h[f]
  BY <1>6, <1>7, <1>8 DEF Before
<1>9. IsFiniteSet(DOMAIN h)
  <2>1. IsFiniteSet(1..d)
    BY FS_Interval
  <2>2. QED
    BY <1>7, <2>1, FS_Subset
<1> HIDE DEF of, keys, previous
<1>10. ASSUME NEW k \in DOMAIN built.rows
       PROVE  RowCounts(g, d, k) /\ ExitEarned(g, d, k)
  <2> DEFINE row == built.rows[k]
             prow == previous.rows[k]
             failed == FailedRuns(prow, d)
  <2>1. /\ row.day = d
        /\ \/ row.state \in {"RETAINED", "SELECTED", "NOT_QUALIFIED"} /\ row.runs = 0
           \/ /\ row.state = "QUALIFICATION_WATCH" /\ row.runs = failed
              /\ k \in DOMAIN previous.places /\ failed < JointFailures
           \/ /\ row.state = "DEGRADED_EXIT" /\ row.runs = failed
              /\ k \in DOMAIN previous.places /\ failed >= JointFailures
           \/ /\ row.state = "DEGRADED_EXIT" /\ row.runs = prow.runs
              /\ k \in DOMAIN previous.rows /\ prow.state = "DEGRADED_EXIT"
    <3>1. k \in keys
      BY <1>4, <1>5
    <3>2. row = Candidate(Samples(S, d, FastDays, k), Samples(S, d, StableDays, k), d, previous, k)
      BY <1>5, <3>1 DEF of
    <3>3. QED
      BY <3>2, CandidateGives
  <2>2. JointFailures \in Nat \ {0}
    BY DailyAssumption
  <2>3. g[d].rows[k] = row
    BY <1>6
  <2> HIDE DEF row, failed, prow
  <2>4. CASE row.state \in {"RETAINED", "SELECTED", "NOT_QUALIFIED"} /\ row.runs = 0
    BY <2>1, <2>3, <2>4 DEF RowCounts, ExitEarned
  <2>5. CASE k \in DOMAIN previous.rows
    <3>1. PICK m \in DOMAIN h : /\ previous = h[m] /\ m \in 1..d
                                /\ \A e \in DOMAIN h : e <= m
      <4>1. DOMAIN None.rows = {}
        BY EmptyDomain DEF None
      <4>2. QED
        BY <1>2, <2>5, <4>1 DEF previous
    <3>2. /\ prow = h[m].rows[k] /\ RowCounts(h, m, k) /\ ExitEarned(h, m, k)
          /\ WasOn(h, m, k) = prow.state
          /\ k \in DOMAIN previous.places => prow.state \in Chosen3
      BY <2>5, <3>1 DEF prow, Recorded, DayRecorded, WasOn
    <3>3. prow.runs \in Nat /\ prow.day = m
      BY <3>2 DEF RowCounts, prow
    <3>4. CASE m = d
      <4>1. failed = prow.runs
        BY <3>3, <3>4 DEF failed, FailedRuns
      <4>2. k \in DOMAIN previous.places => failed < JointFailures
        BY <2>2, <3>2, <4>1 DEF RowCounts, Chosen3
      <4>3. CASE row.state = "QUALIFICATION_WATCH" /\ row.runs = failed /\ k \in DOMAIN previous.places
        <5>1. row.runs # 0 => Watched(h, d, k, row.runs - 1)
          BY <3>2, <3>4, <4>1, <4>3 DEF RowCounts, Chosen3
        <5>2. row.runs # 0 => Watched(g, d, k, row.runs - 1)
          BY <1>8, <5>1, SameBefore
        <5>3. QED
          BY <2>1, <2>3, <3>3, <4>1, <4>2, <4>3, <5>2 DEF RowCounts, ExitEarned
      <4>4. CASE row.state = "DEGRADED_EXIT" /\ row.runs = prow.runs /\ prow.state = "DEGRADED_EXIT"
        <5>1. ExitEarned(g, d, k)
          <6>1. Before(g, d) = Before(h, d)
            BY <1>8
          <6>2. Watched(g, d, k, JointFailures - 1) <=> Watched(h, d, k, JointFailures - 1)
            BY <1>8, SameBefore
          <6>3. Before(h, d) # {} => WasOn(g, Max(Before(h, d)), k) = WasOn(h, Max(Before(h, d)), k)
            <7>1. Before(h, d) \in SUBSET (0..d)
              BY <1>7 DEF Before
            <7>2. Before(h, d) # {} => Max(Before(h, d)) \in Before(h, d)
              BY <7>1, MaxOf
            <7>3. d \in 1..d
              OBVIOUS
            <7>4. \A e \in Before(h, d) : WasOn(g, e, k) = WasOn(h, e, k)
              BY <1>8, <7>3 DEF WasOn
            <7>5. QED
              BY <7>2, <7>4
          <6>4. QED
            BY <3>2, <3>4, <4>4, <6>1, <6>2, <6>3 DEF ExitEarned, prow
        <5>2. QED
          BY <2>1, <2>3, <3>3, <4>4, <5>1 DEF RowCounts
      <4>5. QED
        BY <2>1, <2>2, <2>4, <3>3, <4>1, <4>2, <4>3, <4>4
    <3>5. CASE m # d
      <4>1. /\ m \in Before(h, d) /\ \A e \in Before(h, d) : e <= m
            /\ m < d
        BY <3>1, <3>5 DEF Before
      <4>2. failed = prow.runs + 1
        BY <3>3, <3>5 DEF failed, FailedRuns
      <4>3. Max(Before(g, d)) = m /\ WasOn(g, m, k) = prow.state /\ Before(g, d) = Before(h, d)
        <5>1. Max(Before(h, d)) = m
          BY <1>7, <4>1, NewestBefore
        <5>2. WasOn(g, m, k) = WasOn(h, m, k)
          BY <1>8, <4>1, SameBefore
        <5>3. QED
          BY <1>8, <3>2, <5>1, <5>2
      <4>4. k \in DOMAIN previous.places => Watched(g, d, k, prow.runs)
        <5> SUFFICES ASSUME k \in DOMAIN previous.places PROVE Watched(h, d, k, prow.runs)
          BY <1>8, SameBefore
        <5>1. CASE prow.runs = 0
          BY <1>9, <5>1, WatchedNone
        <5>2. CASE prow.runs # 0
          <6>1. prow.state = "QUALIFICATION_WATCH" /\ Watched(h, m, k, prow.runs - 1)
            BY <3>2, <5>2 DEF RowCounts, Chosen3
          <6>2. /\ prow.runs - 1 \in Nat /\ (prow.runs - 1) + 1 = prow.runs
                /\ DOMAIN h \subseteq 0..d
            BY <1>7, <3>3, <5>2
          <6>3. Watched(h, d, k, (prow.runs - 1) + 1)
            BY <3>2, <4>1, <6>1, <6>2, WatchedOneMore
          <6>4. QED
            BY <6>2, <6>3
        <5>3. QED
          BY <5>1, <5>2
      <4>5. k \in DOMAIN previous.places => prow.runs < JointFailures
        BY <2>2, <3>2 DEF RowCounts, Chosen3
      <4>6. CASE row.state = "QUALIFICATION_WATCH" /\ row.runs = failed
                 /\ k \in DOMAIN previous.places /\ failed < JointFailures
        <5>1. row.runs - 1 = prow.runs /\ row.runs \in Nat
          BY <3>3, <4>2, <4>6
        <5>2. QED
          BY <2>1, <2>3, <4>4, <4>6, <5>1 DEF RowCounts, ExitEarned
      <4>7. CASE row.state = "DEGRADED_EXIT" /\ row.runs = failed
                 /\ k \in DOMAIN previous.places /\ failed >= JointFailures
        <5>1. prow.runs = JointFailures - 1 /\ row.runs \in Nat
          BY <2>2, <3>3, <4>2, <4>5, <4>7
        <5>2. QED
          BY <2>1, <2>3, <4>4, <4>7, <5>1 DEF RowCounts, ExitEarned
      <4>8. CASE row.state = "DEGRADED_EXIT" /\ row.runs = prow.runs /\ prow.state = "DEGRADED_EXIT"
        BY <2>1, <2>3, <3>3, <4>1, <4>3, <4>8 DEF RowCounts, ExitEarned
      <4>9. QED
        BY <2>1, <2>4, <4>6, <4>7, <4>8
    <3>6. QED
      BY <3>4, <3>5
  <2>6. QED
    BY <1>3, <2>1, <2>4, <2>5
<1>11. ASSUME NEW e \in DOMAIN h, e # d, NEW k \in DOMAIN h[e].rows
       PROVE  RowCounts(g, e, k) /\ ExitEarned(g, e, k)
  <2>1. g[e] = h[e] /\ e \in 1..d /\ RowCounts(h, e, k) /\ ExitEarned(h, e, k)
    BY <1>6, <1>7, <1>11 DEF Recorded
  <2>2. Before(g, e) = Before(h, e) /\ \A n : Watched(g, e, k, n) <=> Watched(h, e, k, n)
    BY <1>8, <2>1, SameBefore
  <2>3. Before(h, e) # {} => WasOn(g, Max(Before(h, e)), k) = WasOn(h, Max(Before(h, e)), k)
    <3>1. Before(h, e) \in SUBSET (0..d)
      BY <1>7 DEF Before
    <3>2. Before(h, e) # {} => Max(Before(h, e)) \in Before(h, e)
      BY <3>1, MaxOf
    <3>3. QED
      BY <1>8, <2>1, <3>2, SameBefore
  <2>4. RowCounts(g, e, k)
    BY <2>1, <2>2 DEF RowCounts
  <2>5. ExitEarned(g, e, k)
    BY <2>1, <2>2, <2>3 DEF ExitEarned
  <2>6. QED
    BY <2>4, <2>5
<1>12. \A e \in DOMAIN g : DayRecorded(g[e], e)
  BY <1>5, <1>6 DEF Recorded
<1>13. \A e \in DOMAIN g : \A k \in DOMAIN g[e].rows : RowCounts(g, e, k) /\ ExitEarned(g, e, k)
  BY <1>6, <1>10, <1>11
<1>14. QED
  BY <1>5, <1>6, <1>7, <1>12, <1>13 DEF Recorded

RecordInv == TablesInv /\ Recorded(history, Day(now))

\* The clock does not go back to an earlier day.
LEMMA DayGoesOn ==
  ASSUME TablesInv, NEW t \in {now, now + 1}
  PROVE  Day(now) \in Nat \ {0} /\ Day(t) \in Nat \ {0} /\ Day(now) <= Day(t)
<1>1. now \in Nat /\ t \in Nat /\ now <= t /\ now >= DayLength /\ DayLength \in Nat
  BY DailyAssumption DEF TablesInv
<1>2. 1 <= Day(now)
  <2>1. LookbackEnd(1) <= now
    BY <1>1 DEF LookbackEnd
  <2>2. QED
    BY <1>1, <2>1, DayFrom
<1>3. Day(now) <= Day(t)
  <2>1. LookbackEnd(Day(now)) <= t /\ Day(now) \in Nat
    BY <1>1, DayFacts DEF LookbackEnd
  <2>2. QED
    BY <1>1, <2>1, DayFrom
<1>4. QED
  BY <1>1, <1>2, <1>3, DayFacts

\* What Select records.
LEMMA SelectKeeps ==
  ASSUME RecordInv, pc # "down"
  PROVE  LET d     == Day(now)
             built == Build(observations, d, AsOf(history, d), limit)
             g     == Saved(history, built)
         IN  /\ Recorded(g, d) /\ g[d] = built
             /\ built.day = d /\ built.status = "READY" /\ built.limit = limit
             /\ DOMAIN g = DOMAIN history \cup {d}
             /\ \A e \in DOMAIN history : e # d => g[e] = history[e]
<1> DEFINE d == Day(now)
<1>1. d \in Nat \ {0} /\ Recorded(history, d)
  BY DayGoesOn DEF RecordInv
<1>2. \A o \in observations : o.key \in Profiles
  BY DEF RecordInv, TablesInv, HeldRows, RowsArePast, IsObservation
<1> HIDE DEF d
<1>3. SavedWith(history, d, observations, limit)
  BY <1>1, <1>2, RecordKeeps
<1>4. QED
  BY <1>3 DEF SavedWith, d

LEMMA RecordedLater ==
  ASSUME NEW h, NEW top \in Nat, Recorded(h, top), NEW later \in Nat, top <= later
  PROVE  Recorded(h, later)
BY DEF Recorded

LEMMA StepRecord == RecordInv /\ [Next]_vars => RecordInv'
<1> SUFFICES ASSUME RecordInv, [Next]_vars PROVE RecordInv'
  OBVIOUS
<1>1. TablesInv /\ TablesInv' /\ Recorded(history, Day(now))
  BY StepTables DEF RecordInv
<1>2. ASSUME history' = history, now' \in {now, now + 1}
      PROVE  Recorded(history, Day(now))'
  <2>1. Day(now) \in Nat /\ Day(now') \in Nat /\ Day(now) <= Day(now')
    BY <1>1, <1>2, DayGoesOn
  <2>2. Recorded(history, Day(now'))
    BY <1>1, <2>1, RecordedLater
  <2>3. QED
    BY <1>2, <2>2
<1>3. CASE Settle
  BY <1>1, <1>2, <1>3 DEF Settle, RecordInv
<1>4. CASE Decide
  BY <1>1, <1>2, <1>4 DEF Decide, DecideOn, RecordInv
<1>5. CASE Select \/ SelectRaises
  <2>1. /\ pc = "select" /\ now' = now
        /\ \/ history' = history
           \/ history' = Saved(history, Build(observations, Day(now), AsOf(history, Day(now)), limit))
    BY <1>5 DEF Select, SelectRaises
  <2>4. Recorded(Saved(history, Build(observations, Day(now), AsOf(history, Day(now)), limit)), Day(now))
    BY <2>1, SelectKeeps, Zenon
  <2>5. QED
    BY <1>1, <2>1, <2>4 DEF RecordInv
<1>6. CASE Crash
  BY <1>1, <1>2, <1>6 DEF Crash, disk, RecordInv
<1>7. CASE Pass
  BY <1>1, <1>2, <1>7 DEF Pass, disk, RecordInv
<1>8. CASE Restart
  BY <1>1, <1>2, <1>8 DEF Restart, disk, RecordInv
<1>9. CASE UNCHANGED vars
  BY <1>1, <1>2, <1>9 DEF vars, disk, RecordInv
<1>10. QED
  BY <1>3, <1>4, <1>5, <1>6, <1>7, <1>8, <1>9 DEF Next

LEMMA AlwaysRecord == Spec => []RecordInv
<1>1. Init => RecordInv
  <2> SUFFICES ASSUME Init PROVE RecordInv
    OBVIOUS
  <2>1. TablesInv /\ DOMAIN history = {}
    BY InitTables, EmptyDomain DEF Init
  <2>2. QED
    BY <2>1 DEF RecordInv, Recorded
<1>2. QED
  BY <1>1, StepRecord, PTL DEF Spec

\* However often a day is evaluated, before and after restarts and with whatever
\* limits, a profile leaves the selection only when it failed on JointFailures
\* recorded days in a row.
THEOREM ExitsAreEarned == Spec => []DaysBeforeExit
<1>1. RecordInv => DaysBeforeExit
  <2> SUFFICES ASSUME RecordInv, NEW d \in DOMAIN history, NEW k \in DOMAIN history[d].rows,
                      history[d].rows[k].state = "DEGRADED_EXIT",
                      Before(history, d) # {}
                         => WasOn(history, Max(Before(history, d)), k) # "DEGRADED_EXIT"
               PROVE  /\ Cardinality(LastDays(history, d, JointFailures - 1)) = JointFailures - 1
                      /\ \A e \in LastDays(history, d, JointFailures - 1) :
                            WasOn(history, e, k) = "QUALIFICATION_WATCH"
    BY Zenon DEF DaysBeforeExit, Before, LastDays, WasOn
  <2>1. ExitEarned(history, d, k)
    BY DEF RecordInv, Recorded
  <2>2. QED
    BY <2>1 DEF ExitEarned, Watched
<1>2. QED
  BY <1>1, AlwaysRecord, PTL

-----------------------------------------------------------------------------
(* The states of the profiles *)

\* A profile's state rests on its own rows, where no two rows name a decision.
LEMMA StateByRows ==
  ASSUME NEW S, NEW T, NEW k, \A e \in S \cup T : e.dec = 0,
         {e \in S : e.key = k} = {e \in T : e.key = k}
  PROVE  StateOf(S, k) = StateOf(T, k)
<1>1. Bound(S) = S /\ Bound(T) = T
  BY DEF Bound
<1>2. k \in {e.key : e \in S} <=> k \in {e.key : e \in T}
  <2>1. ASSUME NEW e \in S, e.key = k PROVE \E f \in T : f.key = k
    <3>1. e \in {f \in T : f.key = k}
      BY <2>1
    <3>2. QED
      BY <3>1
  <2>2. ASSUME NEW e \in T, e.key = k PROVE \E f \in S : f.key = k
    <3>1. e \in {f \in S : f.key = k}
      BY <2>2
    <3>2. QED
      BY <3>1
  <2>3. QED
    BY <2>1, <2>2
<1> DEFINE replay == Replayed({e \in S : e.key = k})
<1>3. ASSUME k \in {e.key : e \in S}
      PROVE  Rebuild(S)[k] = replay /\ k \in DOMAIN Rebuild(S)
  BY <1>1, <1>3 DEF Rebuild
<1>4. ASSUME k \in {e.key : e \in T}
      PROVE  Rebuild(T)[k] = replay /\ k \in DOMAIN Rebuild(T)
  BY <1>1, <1>4 DEF Rebuild
<1>5. /\ k \notin {e.key : e \in S} => k \notin DOMAIN Rebuild(S)
      /\ k \notin {e.key : e \in T} => k \notin DOMAIN Rebuild(T)
  BY DEF Rebuild
<1> HIDE DEF replay
<1>6. QED
  BY <1>2, <1>3, <1>4, <1>5 DEF StateOf, StateIn

AllOnRecord == DOMAIN states = Profiles /\ (pc # "down" => \A k \in Profiles : StateOnRecord(k))

\* The rows a state is computed from, read for one profile or for all.
LEMMA StateRead ==
  ASSUME NEW S, \A o \in S : o.dec = 0, NEW k, NEW at
  PROVE  LET given == StateOf(AdaptiveRows(Of(Settled(S), k), at), k)
         IN  /\ StateOf(AdaptiveRows(S, at), k) = given
             /\ StateOf(Of(AdaptiveRows(S, at), k), k) = given
<1> DEFINE R == AdaptiveRows(S, at)
           A == AdaptiveRows(Of(Settled(S), k), at)
<1>1. R \subseteq S /\ A \subseteq S
  BY DEF AdaptiveRows, Of, Settled
<1>2. A = Of(R, k)
  BY DEF AdaptiveRows, Of, Settled
<1>3. {e \in A : e.key = k} = {e \in R : e.key = k} /\ {e \in A : e.key = k} = {e \in Of(R, k) : e.key = k}
  BY <1>2 DEF Of
<1>4. Of(R, k) \subseteq S
  BY <1>1 DEF Of
<1> HIDE DEF R, A
<1>5. StateOf(R, k) = StateOf(A, k) /\ StateOf(Of(R, k), k) = StateOf(A, k)
  BY <1>1, <1>3, <1>4, StateByRows
<1>6. QED
  BY <1>5 DEF R, A

LEMMA InitOnRecord == Init => AllOnRecord
<1> SUFFICES ASSUME Init, NEW k \in Profiles PROVE StateOnRecord(k)
  BY DEF Init, AllOnRecord
<1>1. table = {} /\ states[k].at = 0 /\ states[k].state = Empty
  BY DEF Init, Dated
<1>2. Of(Settled(table), k) = {} /\ AdaptiveRows({}, 0) = {}
  BY <1>1 DEF Of, Settled, AdaptiveRows
<1>3. StateOf({}, k) = Empty
  BY DEF StateOf, StateIn, Rebuild
<1>4. QED
  BY <1>1, <1>2, <1>3 DEF StateOnRecord

\* A state stays on record while its profile's settled rows stay.
LEMMA StateKept ==
  ASSUME NEW k, StateOnRecord(k), states'[k] = states[k], k \in unread => k \in unread',
         Of(Settled(table), k)' = Of(Settled(table), k)
  PROVE  StateOnRecord(k)'
BY DEF StateOnRecord

LEMMA SettleOnRecord == TablesInv /\ TablesInv' /\ AllOnRecord /\ Settle => AllOnRecord'
<1> SUFFICES ASSUME TablesInv, TablesInv', AllOnRecord, Settle PROVE AllOnRecord'
  OBVIOUS
<1> DEFINE due == Due(observations, now + 1)
           keys == {o.key : o \in due}
           at == Max({o.expires : o \in due}) + 1
<1>1. /\ pc = "settle" /\ now \in Nat
      /\ \/ table' = table /\ states' = states /\ unread' = unread
         \/ /\ due # {}
            /\ table' = WithSettlements(table, Results(due))
            /\ \/ states' = Refreshed(table', keys, at) /\ unread' = unread \ keys
               \/ states' = states /\ unread' = unread \cup keys
  BY DEF Settle, TablesInv
<1>2. \A k \in Profiles : StateOnRecord(k)
  BY <1>1 DEF AllOnRecord
<1>3. CASE table' = table /\ states' = states /\ unread' = unread
  <2>1. \A k \in Profiles : StateOnRecord(k)'
    BY <1>2, <1>3, StateKept
  <2>2. QED
    BY <1>3, <2>1 DEF AllOnRecord
<1>4. CASE due # {} /\ table' = WithSettlements(table, Results(due))
  <2>1. table' = (table \ due) \cup Results(due)
    BY <1>1, <1>4, SettledTable
  <2>2. ASSUME NEW p \in Results(due)
        PROVE  \E o \in due : /\ p.key = o.key /\ p.expires = o.expires /\ p.settled = o.expires
                              /\ IsObservation(p) /\ p.settled # 0
    BY <1>1, SettledTable
  <2>3. ASSUME NEW o \in due
        PROVE  /\ o \in table /\ o.settled = 0 /\ IsObservation(o) /\ o.expires \in 0..(now + 1)
               /\ now + 1 - o.expires < KlineWindow
    BY <1>1, DueRows DEF IsObservation
  <2> HIDE DEF due
  <2>4. ASSUME NEW k \in Profiles, k \notin keys
        PROVE  Of(Settled(table), k)' = Of(Settled(table), k)
    <3>1. \A o \in due : o.key # k
      BY <2>4
    <3>2. \A p \in Results(due) : p.key # k
      BY <2>2, <3>1
    <3>3. QED
      BY <2>1, <3>1, <3>2 DEF Of, Settled
  <2>5. at \in Nat /\ \A o \in due : o.expires < at
    <3> DEFINE ends == {o.expires : o \in due}
    <3>1. ends \in SUBSET (0..(now + 1)) /\ ends # {} /\ now + 1 \in Nat
      BY <1>1, <1>4, <2>3
    <3>2. \A o \in due : o.expires \in ends
      OBVIOUS
    <3> HIDE DEF ends
    <3>3. Max(ends) \in ends /\ \A y \in ends : y <= Max(ends)
      BY <3>1, MaxOf
    <3>4. Max(ends) \in Nat
      <4>1. ends \subseteq Nat
        BY <2>3 DEF ends
      <4>2. QED
        BY <3>3, <4>1
    <3>5. ASSUME NEW o \in due PROVE o.expires < Max(ends) + 1
      <4>1. o.expires \in Nat /\ o.expires <= Max(ends)
        BY <2>3, <3>2, <3>3
      <4>2. QED
        BY <3>4, <4>1
    <3>6. at = Max(ends) + 1
      BY DEF ends
    <3>7. QED
      BY <3>4, <3>5, <3>6
  <2> HIDE DEF at
  <2>6. ASSUME NEW k \in keys, NEW p \in Of(Settled(table'), k)
        PROVE  p.settled < at
    <3>1. p \in table' /\ p.settled # 0
      BY OpenOrSettled DEF Of
    <3>2. CASE p \in Results(due)
      BY <2>2, <2>5, <3>2
    <3>3. CASE p \in table
      <4>1. PICK o \in due : o.key = k
        OBVIOUS
      <4>2. p.settled < o.expires \/ o.expires + KlineWindow <= now
        <5>1. o \in Open(table) /\ p \in Settled(table)
          BY <2>3, <3>1, <3>3, OpenOrSettled
        <5>2. QED
          BY <5>1 DEF TablesInv, SettledFirst
      <4>3. p.settled \in Nat
        BY <3>3 DEF TablesInv, RowsArePast, IsObservation
      <4>4. QED
        BY <1>1, <2>3, <2>5, <4>2, <4>3, DailyAssumption
    <3>4. QED
      BY <2>1, <3>1, <3>2, <3>3
  <2>7. CASE states' = Refreshed(table', keys, at) /\ unread' = unread \ keys
    <3>1. ASSUME NEW k \in Profiles, k \in keys
          PROVE  StateOnRecord(k)'
      <4>1. states'[k] = [state |-> StateOf(Of(AdaptiveRows(table', at), k), k), at |-> at]
        BY <2>7, <3>1 DEF Refreshed, Dated
      <4>2. \A o \in table' : o.dec = 0
        BY DEF TablesInv, RowsArePast, IsObservation
      <4>3. StateOf(Of(AdaptiveRows(table', at), k), k)
              = StateOf(AdaptiveRows(Of(Settled(table'), k), at), k)
        BY <4>2, StateRead
      <4>4. QED
        BY <2>6, <3>1, <4>1, <4>3 DEF StateOnRecord
    <3>2. ASSUME NEW k \in Profiles, k \notin keys
          PROVE  StateOnRecord(k)'
      <4>1. states'[k] = states[k]
        BY <2>7, <3>2 DEF Refreshed
      <4>2. QED
        BY <1>2, <2>4, <2>7, <3>2, <4>1, StateKept
    <3>3. DOMAIN states' = Profiles
      BY <2>7 DEF Refreshed
    <3>4. QED
      BY <3>1, <3>2, <3>3 DEF AllOnRecord
  <2>8. CASE states' = states /\ unread' = unread \cup keys
    <3>1. ASSUME NEW k \in Profiles PROVE StateOnRecord(k)'
      <4>1. CASE k \in keys
        BY <2>8, <4>1 DEF StateOnRecord
      <4>2. CASE k \notin keys
        BY <1>2, <2>4, <2>8, <4>2, StateKept
      <4>3. QED
        BY <4>1, <4>2
    <3>2. QED
      BY <2>8, <3>1 DEF AllOnRecord
  <2>9. QED
    BY <1>1, <1>3, <2>7, <2>8 DEF due
<1>5. QED
  BY <1>1, <1>3, <1>4

LEMMA StepOnRecord == TablesInv /\ AllOnRecord /\ [Next]_vars => AllOnRecord'
<1> SUFFICES ASSUME TablesInv, AllOnRecord, [Next]_vars PROVE AllOnRecord'
  OBVIOUS
<1>1. TablesInv'
  BY StepTables
<1>2. CASE Settle
  BY <1>1, <1>2, SettleOnRecord
<1>3. CASE Decide
  <2>1. PICK opened : table' = table \cup opened /\ \A o \in opened : o.settled = 0
    BY <1>3, DecidedTable
  <2>2. pc = "decide" /\ states' = states /\ unread' = unread
    BY <1>3 DEF Decide, DecideOn
  <2>3. ASSUME NEW k \in Profiles PROVE StateOnRecord(k)'
    <3>1. Of(Settled(table), k)' = Of(Settled(table), k)
      BY <2>1 DEF Of, Settled
    <3>2. QED
      BY <2>2, <3>1, StateKept DEF AllOnRecord
  <2>4. QED
    BY <2>2, <2>3 DEF AllOnRecord
<1>4. ASSUME pc # "down", table' = table, states' = states, unread' = unread
      PROVE  AllOnRecord'
  BY <1>4, StateKept DEF AllOnRecord
<1>5. CASE Select \/ SelectRaises
  BY <1>4, <1>5 DEF Select, SelectRaises
<1>6. CASE Crash
  BY <1>6 DEF Crash, AllOnRecord
<1>7. CASE Pass
  BY <1>7 DEF Pass, memory, AllOnRecord
<1>8. CASE Restart
  <2>1. /\ table' = table /\ now \in Nat
        /\ states' = [k \in Profiles |-> Dated(StateOf(AdaptiveRows(table, now + 1), k), now + 1)]
    BY <1>8 DEF Restart, disk, TablesInv
  <2>2. \A o \in table : o.dec = 0 /\ o.settled <= now /\ o.settled \in Nat
    BY DEF TablesInv, RowsArePast, IsObservation
  <2>3. ASSUME NEW k \in Profiles PROVE StateOnRecord(k)'
    <3>1. states'[k] = [state |-> StateOf(AdaptiveRows(table, now + 1), k), at |-> now + 1]
      BY <2>1 DEF Dated
    <3>2. StateOf(AdaptiveRows(table, now + 1), k)
            = StateOf(AdaptiveRows(Of(Settled(table), k), now + 1), k)
      BY <2>2, StateRead
    <3>3. \A o \in Of(Settled(table), k) : o.settled < now + 1
      BY <2>1, <2>2 DEF Of, Settled
    <3>4. QED
      BY <2>1, <3>1, <3>2, <3>3 DEF StateOnRecord
  <2>4. QED
    BY <2>1, <2>3 DEF AllOnRecord
<1>9. CASE UNCHANGED vars
  BY <1>4, <1>9 DEF vars, memory, disk, AllOnRecord
<1>10. QED
  BY <1>2, <1>3, <1>5, <1>6, <1>7, <1>8, <1>9 DEF Next

-----------------------------------------------------------------------------
(* The selection in force *)

\* A selection the process holds: a recorded row, or after a failure what the
\* last row before it said.
HeldIn(h, snapshot) ==
    /\ snapshot.status \in {"NONE", "READY", "FALLBACK", "ERROR"}
    /\ snapshot.status = "READY" =>
          snapshot.day \in DOMAIN h /\ snapshot = h[snapshot.day]
    /\ snapshot.status = "FALLBACK" =>
          /\ snapshot.day \in Nat /\ {e \in DOMAIN h : e <= snapshot.day} # {}
          /\ snapshot.rows = AsOf(h, snapshot.day).rows
          /\ snapshot.places = AsOf(h, snapshot.day).places

Configured(snapshot) == snapshot.status \in {"READY", "FALLBACK"}

\* What is decided by is in force, or nothing recorded is.
InForceNow ==
    IF Configured(active) THEN Effective(active, now) ELSE InForce(history, now) = None

ForceInv ==
    /\ pc # "down" => HeldIn(history, latest) /\ HeldIn(history, active)
    /\ pc = "decide" => InForceNow

LEMMA NoneHeld == None.status = "NONE" /\ ~Configured(None) /\ \A h : HeldIn(h, None)
BY DEF None, HeldIn, Configured

\* The row the database answers with is one that is effective.
LEMMA InForceIs ==
  ASSUME NEW h, NEW top \in Nat, Recorded(h, top), NEW t
  PROVE  \/ InForce(h, t) = None /\ \A e \in DOMAIN h : ~Effective(h[e], t)
         \/ \E m \in DOMAIN h : InForce(h, t) = h[m] /\ Effective(h[m], t)
<1> DEFINE on == {e \in DOMAIN h : Effective(h[e], t)}
<1>1. on \in SUBSET (0..top)
  BY DEF Recorded
<1>2. InForce(h, t) = IF on = {} THEN None ELSE h[Max(on)]
  BY DEF InForce
<1>3. on # {} => Max(on) \in on
  <2> HIDE DEF on
  <2>1. QED
    BY <1>1, MaxOf
<1>4. QED
  BY <1>2, <1>3

\* A recorded row is held by who holds it.
LEMMA RecordedHeld ==
  ASSUME NEW h, NEW top \in Nat, Recorded(h, top), NEW m \in DOMAIN h
  PROVE  /\ HeldIn(h, h[m]) /\ Configured(h[m]) /\ h[m] # None
         /\ h[m] = [day |-> m, status |-> "READY", limit |-> h[m].limit,
                    rows |-> h[m].rows, places |-> h[m].places]
<1>1. h[m] = [day |-> m, status |-> "READY", limit |-> h[m].limit,
              rows |-> h[m].rows, places |-> h[m].places]
  BY DEF Recorded, DayRecorded
<1>2. h[m].day = m /\ h[m].status = "READY"
  BY <1>1
<1>3. QED
  BY <1>1, <1>2, NoneHeld DEF HeldIn, Configured

\* What the last row gives after a failure.
LEMMA FallbackHeld ==
  ASSUME NEW h, NEW d \in Nat, Recorded(h, d)
  PROVE  HeldIn(h, Fallback(AsOf(h, d), d))
<1>1. CASE DOMAIN h = {} /\ AsOf(h, d) = None
  <2>1. Fallback(None, d).status = "ERROR"
    BY DEF Fallback, None
  <2>2. QED
    BY <1>1, <2>1 DEF HeldIn
<1>2. ASSUME NEW m \in DOMAIN h, AsOf(h, d) = h[m], m \in 1..d
      PROVE  HeldIn(h, Fallback(AsOf(h, d), d))
  <2> DEFINE snapshot == Fallback(AsOf(h, d), d)
  <2>1. /\ h[m] = [day |-> m, status |-> "READY", limit |-> h[m].limit,
                   rows |-> h[m].rows, places |-> h[m].places]
        /\ h[m] # None
    BY RecordedHeld
  <2>2. snapshot = [h[m] EXCEPT !.day = d, !.status = "FALLBACK"]
    BY <1>2, <2>1 DEF Fallback
  <2>3. /\ snapshot.day = d /\ snapshot.status = "FALLBACK"
        /\ snapshot.rows = h[m].rows /\ snapshot.places = h[m].places
    BY <2>1, <2>2
  <2>4. m \in {e \in DOMAIN h : e <= d}
    BY <1>2
  <2> HIDE DEF snapshot
  <2>5. HeldIn(h, snapshot)
    BY <1>2, <2>3, <2>4 DEF HeldIn
  <2>6. QED
    BY <2>5 DEF snapshot
<1>3. QED
  BY <1>1, <1>2, AsOfIs

\* A day's row leaves alone what is held of the days before.
LEMMA SaveHeld ==
  ASSUME NEW h, NEW d \in Nat, NEW g, DOMAIN g = DOMAIN h \cup {d}, DOMAIN h \subseteq 1..d,
         \A e \in DOMAIN h : e # d => g[e] = h[e],
         NEW snapshot, HeldIn(h, snapshot), snapshot.status = "FALLBACK" => snapshot.day < d,
         snapshot.status = "READY" => snapshot.day # d
  PROVE  HeldIn(g, snapshot)
<1>1. CASE snapshot.status = "FALLBACK"
  <2> DEFINE upTo == {e \in DOMAIN h : e <= snapshot.day}
  <2>1. /\ snapshot.day \in Nat /\ upTo # {} /\ upTo \in SUBSET (0..d)
        /\ {e \in DOMAIN g : e <= snapshot.day} = upTo
    BY <1>1 DEF HeldIn
  <2>2. AsOf(h, snapshot.day) = h[Max(upTo)] /\ AsOf(g, snapshot.day) = g[Max(upTo)]
    BY <2>1 DEF AsOf
  <2>3. Max(upTo) \in upTo
    <3> HIDE DEF upTo
    <3>1. QED
      BY <2>1, MaxOf
  <2>4. Max(upTo) \in DOMAIN h /\ Max(upTo) # d
    BY <1>1, <2>1, <2>3
  <2>5. AsOf(g, snapshot.day) = AsOf(h, snapshot.day)
    BY <2>2, <2>4
  <2>6. QED
    BY <1>1, <2>1, <2>5 DEF HeldIn
<1>2. CASE snapshot.status # "FALLBACK"
  BY <1>2 DEF HeldIn
<1>3. QED
  BY <1>1, <1>2

\* What Select makes of the latest selection and of the one in force.
LEMMA SelectForce == RecordInv /\ ForceInv /\ (Select \/ SelectRaises) => ForceInv'
<1> SUFFICES ASSUME RecordInv, ForceInv, Select \/ SelectRaises PROVE ForceInv'
  OBVIOUS
<1> DEFINE d == Day(now)
           built == Build(observations, d, AsOf(history, d), limit)
<1>1. /\ pc = "select" /\ now' = now
      /\ \/ latest' = latest /\ history' = history
         \/ latest' = built /\ history' = Saved(history, built)
         \/ latest' = Fallback(AsOf(history, d), d) /\ history' = history
  BY DEF Select, SelectRaises
<1>2. /\ now \in Nat /\ d \in Nat \ {0} /\ Recorded(history, d)
      /\ HeldIn(history, latest) /\ HeldIn(history, active)
  BY <1>1, DayGoesOn DEF RecordInv, TablesInv, ForceInv
<1>3. ASSUME history' = Saved(history, built), latest' = built
      PROVE  /\ built.day = d /\ built.status = "READY" /\ history'[d] = built
             /\ Recorded(history', d) /\ DOMAIN history' = DOMAIN history \cup {d}
             /\ \A e \in DOMAIN history : e # d => history'[e] = history[e]
  BY <1>1, <1>3, SelectKeeps
<1> HIDE DEF built
<1>4. Recorded(history', d)
  BY <1>1, <1>2, <1>3
<1>5. HeldIn(history', latest')
  <2>1. CASE latest' = built /\ history' = Saved(history, built)
    <3>1. d \in DOMAIN history' /\ latest' = history'[d]
      BY <1>3, <2>1
    <3>2. QED
      BY <1>2, <1>4, <3>1, RecordedHeld
  <2>2. QED
    BY <1>1, <1>2, <2>1, FallbackHeld
<1>6. ASSUME Select PROVE HeldIn(history', active') /\ InForceNow'
  <2> active' = ActiveOf(history', latest', active, now)
    BY <1>6 DEF Select
  <2>1. CASE Effective(latest', now)
    BY <1>1, <1>5, <2>1 DEF ActiveOf, InForceNow, Effective, Configured
  <2>2. CASE ~Effective(latest', now) /\ Effective(active, now)
    <3>1. active' = active
      BY <1>1, <2>2 DEF ActiveOf
    <3>2. HeldIn(history', active)
      <4>1. CASE history' = history
        BY <1>2, <4>1
      <4>2. CASE latest' = built /\ history' = Saved(history, built)
        <5>1. active.day # d
          BY <1>3, <2>2, <4>2 DEF Effective
        <5>2. active.status = "FALLBACK" => active.day < d
          <6> SUFFICES ASSUME active.status = "FALLBACK" PROVE active.day < d
            OBVIOUS
          <6>1. active.day \in Nat /\ EffectiveFrom(active.day) <= now
            BY <1>2, <2>2 DEF HeldIn, Effective
          <6>2. LookbackEnd(active.day) <= now
            <7>1. LookbackEnd(active.day) \in Nat /\ Activation \in Nat
              BY <6>1, DailyAssumption DEF LookbackEnd
            <7>2. QED
              BY <1>2, <6>1, <7>1 DEF EffectiveFrom
          <6>3. active.day <= d
            BY <1>2, <6>1, <6>2, DayFrom
          <6>4. QED
            BY <1>2, <5>1, <6>1, <6>3
        <5>3. DOMAIN history \subseteq 1..d
          BY <1>2 DEF Recorded
        <5>4. QED
          BY <1>2, <1>3, <4>2, <5>1, <5>2, <5>3, SaveHeld
      <4>3. QED
        BY <1>1, <4>1, <4>2
    <3>3. InForceNow'
      BY <1>1, <2>2, <3>1 DEF InForceNow, Effective, Configured
    <3>4. QED
      BY <3>1, <3>2, <3>3
  <2>3. CASE ~Effective(latest', now) /\ ~Effective(active, now)
    <3>1. active' = InForce(history', now)
      BY <1>1, <2>3 DEF ActiveOf
    <3>2. CASE InForce(history', now) = None
      BY <1>1, <3>1, <3>2, NoneHeld DEF InForceNow
    <3>3. ASSUME NEW m \in DOMAIN history', InForce(history', now) = history'[m],
                 Effective(history'[m], now)
          PROVE  HeldIn(history', active') /\ InForceNow'
      <4>1. HeldIn(history', history'[m]) /\ Configured(history'[m])
        BY <1>2, <1>4, RecordedHeld
      <4>2. active' = history'[m]
        BY <3>1, <3>3
      <4>3. InForceNow'
        BY <1>1, <3>3, <4>1, <4>2 DEF InForceNow, Configured, Effective
      <4>4. QED
        BY <4>1, <4>2, <4>3
    <3>4. QED
      BY <1>2, <1>4, <3>2, <3>3, InForceIs
  <2>4. QED
    BY <2>1, <2>2, <2>3
<1>7. ASSUME SelectRaises PROVE pc' = "settle" /\ HeldIn(history', active')
  BY <1>2, <1>7, NoneHeld DEF SelectRaises
<1>8. QED
  BY <1>1, <1>5, <1>6, <1>7 DEF ForceInv

LEMMA StepForce == RecordInv /\ ForceInv /\ [Next]_vars => ForceInv'
<1> SUFFICES ASSUME RecordInv, ForceInv, [Next]_vars PROVE ForceInv'
  OBVIOUS
<1>1. CASE Settle
  BY <1>1 DEF Settle, ForceInv
<1>2. CASE Select \/ SelectRaises
  BY <1>2, SelectForce
<1>3. CASE Decide
  BY <1>3 DEF Decide, DecideOn, ForceInv
<1>4. CASE Crash
  BY <1>4 DEF Crash, ForceInv
<1>5. CASE Pass
  BY <1>5 DEF Pass, ForceInv
<1>6. CASE Restart
  <2>1. /\ pc' = "settle" /\ history' = history /\ latest' = Newest(history) /\ active' = None
        /\ Recorded(history, Day(now)) /\ Day(now) \in Nat
    BY <1>6, DayGoesOn DEF Restart, disk, RecordInv
  <2>2. HeldIn(history, Newest(history))
    <3>1. CASE DOMAIN history = {}
      BY <3>1, NoneHeld DEF Newest
    <3>2. CASE DOMAIN history # {}
      <4>1. DOMAIN history \in SUBSET (0..Day(now))
        BY <2>1 DEF Recorded
      <4>2. Max(DOMAIN history) \in DOMAIN history
        BY <2>1, <3>2, <4>1, MaxOf
      <4>3. QED
        BY <2>1, <3>2, <4>2, RecordedHeld DEF Newest
    <3>3. QED
      BY <3>1, <3>2
  <2>3. QED
    BY <2>1, <2>2, NoneHeld DEF ForceInv
<1>7. CASE UNCHANGED vars
  BY <1>7 DEF vars, memory, disk, ForceInv, InForceNow
<1>8. QED
  BY <1>1, <1>2, <1>3, <1>4, <1>5, <1>6, <1>7 DEF Next

-----------------------------------------------------------------------------
(* The orders a profile admits *)

\* What is held has places that are counted from one.
LEMMA HeldPlaces ==
  ASSUME NEW h, NEW top \in Nat, Recorded(h, top), NEW snapshot, HeldIn(h, snapshot),
         Configured(snapshot)
  PROVE  \A k \in DOMAIN snapshot.places : snapshot.places[k] \in Nat \ {0}
<1>1. CASE snapshot.status = "READY"
  BY <1>1 DEF HeldIn, Recorded, DayRecorded
<1>2. CASE snapshot.status = "FALLBACK"
  <2> DEFINE upTo == {e \in DOMAIN h : e <= snapshot.day}
  <2>1. /\ upTo # {} /\ upTo \in SUBSET (0..top)
        /\ snapshot.places = AsOf(h, snapshot.day).places
    BY <1>2 DEF HeldIn, Recorded
  <2>2. AsOf(h, snapshot.day) = h[Max(upTo)]
    BY <2>1 DEF AsOf
  <2>3. Max(upTo) \in DOMAIN h
    <3>1. Max(upTo) \in upTo
      <4> HIDE DEF upTo
      <4>1. QED
        BY <2>1, MaxOf
    <3>2. QED
      BY <3>1
  <2> HIDE DEF upTo
  <2>4. QED
    BY <2>1, <2>2, <2>3 DEF Recorded, DayRecorded
<1>3. QED
  BY <1>1, <1>2 DEF Configured

\* What is offered when a selection is in force: a candidate, of a profile that
\* is not paused, and the resident channel for those that have a place.
LEMMA OfferGives ==
  ASSUME NEW cands \in SUBSET Profiles, NEW primary, NEW seconds, Configured(active),
         \A k \in DOMAIN active.places : active.places[k] \in Nat \ {0},
         NEW offer, offer = Offered(cands, primary, seconds), offer # <<>>
  PROVE  \E k \in cands :
            /\ offer[1].key = k /\ offer[1].channel \in {"RESIDENT", "FAST"}
            /\ offer[1].channel = "RESIDENT" => k \in DOMAIN active.places
            /\ states[k].state.status \in {"ACTIVE", "WATCH"}
<1> DEFINE of(k)    == Context(active, k, k = primary, Direction(k) \in seconds, StateFor(k))
           contexts == {of(k) : k \in cands}
           resident == {c \in contexts : Resident(c)}
           fast     == {c \in contexts : Fast(c)}
           least(S) == CHOOSE c \in S : \A d \in S : c.rank <= d.rank
<1>1. ASSUME NEW c \in contexts
      PROVE  \E k \in cands : /\ c.key = k /\ c.rank = RankIn(active, k)
                              /\ c.state.status = states[k].state.status
  <2>1. PICK k \in cands : c = of(k)
    OBVIOUS
  <2>2. c.key = k /\ c.rank = RankIn(active, k) /\ c.state = states[k].state
    BY <2>1 DEF Context, StateFor
  <2>3. QED
    BY <2>2
<1>2. offer = SelectAdmitted(contexts)
  BY DEF Offered, Configured, Admitted
<1>3. offer = IF resident # {} THEN <<[key |-> least(resident).key, channel |-> "RESIDENT"]>>
              ELSE IF fast # {} THEN <<[key |-> Min({c.key : c \in fast}), channel |-> "FAST"]>>
              ELSE <<>>
  <2> HIDE DEF contexts
  <2>1. QED
    BY <1>2 DEF SelectAdmitted
<1> HIDE DEF contexts
<1>4. CASE resident # {}
  <2> DEFINE ranks == {c.rank : c \in resident}
  <2>1. ASSUME NEW c \in resident PROVE c.rank \in Nat
    <3>1. PICK k \in cands : c.rank = RankIn(active, k)
      BY <1>1
    <3>2. QED
      BY <3>1 DEF RankIn
  <2>2. ranks \subseteq Nat /\ ranks # {}
    BY <1>4, <2>1
  <2>3. PICK r \in ranks : \A x \in ranks : r <= x
    <3> HIDE DEF ranks
    <3>1. QED
      BY <2>2, LeastExists
  <2>4. \E c \in resident : \A d \in resident : c.rank <= d.rank
    BY <2>3
  <2>5. least(resident) \in resident
    <3> HIDE DEF resident
    <3>1. QED
      BY <2>4
  <2> DEFINE first == least(resident)
  <2>6. first \in contexts /\ Resident(first)
    BY <2>5
  <2>7. offer[1].key = first.key /\ offer[1].channel = "RESIDENT"
    <3>1. offer = <<[key |-> first.key, channel |-> "RESIDENT"]>>
      BY <1>3, <1>4
    <3> HIDE DEF first
    <3>2. QED
      BY <3>1
  <2> HIDE DEF first
  <2>8. PICK k \in cands : /\ first.key = k /\ first.rank = RankIn(active, k)
                           /\ first.state.status = states[k].state.status
    BY <1>1, <2>6
  <2>9. k \in DOMAIN active.places /\ states[k].state.status \in {"ACTIVE", "WATCH"}
    BY <2>6, <2>8 DEF Resident, RankIn
  <2>10. QED
    BY <2>7, <2>8, <2>9
<1>5. CASE resident = {} /\ fast # {}
  <2> DEFINE keys == {c.key : c \in fast}
  <2>1. keys \subseteq Nat /\ keys # {}
    <3>1. ASSUME NEW c \in fast PROVE c.key \in Nat
      BY <1>1, DailyAssumption
    <3>2. QED
      BY <1>5, <3>1
  <2>2. Min(keys) \in keys
    <3> HIDE DEF keys
    <3>1. \E x \in keys : \A y \in keys : x <= y
      BY <2>1, LeastExists
    <3>2. QED
      BY <3>1 DEF Min
  <2>3. PICK c \in fast : c.key = Min(keys)
    BY <2>2
  <2>4. offer[1].key = c.key /\ offer[1].channel = "FAST"
    <3>1. offer = <<[key |-> Min(keys), channel |-> "FAST"]>>
      BY <1>3, <1>5
    <3> HIDE DEF keys
    <3>2. QED
      BY <2>3, <3>1
  <2>5. PICK k \in cands : c.key = k /\ c.state.status = states[k].state.status
    BY <1>1
  <2>6. states[k].state.status = "ACTIVE"
    BY <2>5 DEF Fast
  <2>7. QED
    BY <2>4, <2>5, <2>6
<1>6. QED
  BY <1>3, <1>4, <1>5

\* The health of a direction is the same read from the table, with the rows
\* that have just been opened, as from what the process holds: what it does not
\* hold was opened before the guard looks back to.
LEMMA SameHealth ==
  ASSUME TablesInv, pc # "down", NEW opened, \A o \in opened : o.settled = 0,
         NEW snapshot, NEW k
  PROVE  Degraded(table \cup opened, snapshot, k, now) = Degraded(observations, snapshot, k, now)
<1> DEFINE from    == EvaluatedAt(now) - HealthLookback
           asked(o) == /\ o.opened >= from /\ o.opened < EvaluatedAt(now)
                       /\ o.settled <= EvaluatedAt(now)
           sample(S, j) == {o \in Of(Settled(S), j) : asked(o)}
<1>1. ASSUME NEW o \in table \ observations PROVE ~asked(o)
  <2>1. /\ o.opened \in Nat /\ o.opened + (StableDays + 1) * DayLength < now /\ now \in Nat
    BY DEF TablesInv, HeldRows, RowsArePast, IsObservation
  <2>2. /\ HealthEvery \in Nat \ {0} /\ HealthLookback \in Nat /\ (StableDays + 1) * DayLength \in Nat
        /\ HealthEvery + HealthLookback <= (StableDays + 1) * DayLength
    BY DailyAssumption
  <2>3. now % HealthEvery \in 0..(HealthEvery - 1)
    BY <2>1, <2>2
  <2> DEFINE rest == now % HealthEvery
  <2>4. EvaluatedAt(now) = now - rest /\ from = EvaluatedAt(now) - HealthLookback /\ rest \in 0..(HealthEvery - 1)
    BY <2>3, Zenon DEF EvaluatedAt
  <2> HIDE DEF rest
  <2> DEFINE back == (StableDays + 1) * DayLength
  <2>5. back \in Nat /\ HealthEvery + HealthLookback <= back /\ o.opened + back < now
    BY <2>1, <2>2
  <2> HIDE DEF back, from
  <2>6. o.opened < from
    BY <2>1, <2>2, <2>4, <2>5
  <2>7. from \in Int
    BY <2>1, <2>2, <2>4
  <2>8. QED
    BY <2>1, <2>6, <2>7
<1> HIDE DEF asked
<1>2. ASSUME NEW j PROVE sample(table \cup opened, j) = sample(observations, j)
  <2>1. observations \subseteq table
    BY DEF TablesInv, HeldRows
  <2>2. QED
    BY <1>1, <2>1 DEF Of, Settled
<1>3. ASSUME NEW S, NEW keys
      PROVE  HealthSamples(S, keys, now) = UNION {ToSet(Independent(sample(S, j))) : j \in keys}
  BY Zenon DEF HealthSamples, asked
<1> HIDE DEF sample
<1>4. ASSUME NEW keys
      PROVE  HealthSamples(table \cup opened, keys, now) = HealthSamples(observations, keys, now)
  <2>1. {ToSet(Independent(sample(table \cup opened, j))) : j \in keys}
          = {ToSet(Independent(sample(observations, j))) : j \in keys}
    BY <1>2
  <2>2. QED
    BY <1>3, <2>1, Zenon
<1> DEFINE keys  == {j \in DOMAIN snapshot.places : Direction(j) = Direction(k)}
           poor(s) == /\ Cardinality(s) >= MinHealth
                      /\ 2 * Cardinality({o \in s : o.won}) < Cardinality(s)
<1>5. ASSUME NEW S PROVE Degraded(S, snapshot, k, now) = poor(HealthSamples(S, keys, now))
  BY Zenon DEF Degraded
<1> HIDE DEF keys, poor
<1>6. QED
  BY <1>4, <1>5, Zenon

AdmitInv ==
    /\ RecordInv /\ AllOnRecord /\ ForceInv /\ AdmittedOnRecord
    /\ pc # "settle" => order = <<>>

LEMMA DecideAdmits == AdmitInv /\ Decide => AdmittedOnRecord'
<1> SUFFICES ASSUME AdmitInv, Decide, order' # <<>> PROVE AdmittedOnRecord'
  BY DEF AdmittedOnRecord
<1>1. PICK cands, primary, seconds, lost, won :
        cands \in SUBSET Profiles /\ DecideOn(cands, primary, seconds, lost, won)
  BY Zenon DEF Decide
<1> DEFINE offer == Offered(cands, primary, seconds)
<1>2. /\ pc = "decide" /\ pc' = "settle" /\ order' = offer /\ offer # <<>>
      /\ offer[1].channel = "RESIDENT" => ~Degraded(observations, active, offer[1].key, now)
      /\ now' = now /\ states' = states /\ active' = active /\ history' = history
  BY <1>1, Zenon DEF DecideOn
<1>3. /\ TablesInv /\ Recorded(history, Day(now)) /\ Day(now) \in Nat
      /\ HeldIn(history, active) /\ InForceNow
  BY <1>2, DayGoesOn DEF AdmitInv, RecordInv, ForceInv
<1>4. \A k \in Profiles : StateOnRecord(k)'
  <2>1. AllOnRecord'
    BY StepOnRecord DEF AdmitInv, RecordInv, Next
  <2>2. QED
    BY <1>2, <2>1 DEF AllOnRecord
<1>5. CASE ~Configured(active)
  <2>1. offer[1].channel = "STATIC"
    <3>1. offer = <<[key |-> primary, channel |-> "STATIC"]>>
      BY <1>2, <1>5 DEF Offered, Configured
    <3> HIDE DEF offer
    <3>2. QED
      BY <3>1
  <2>2. InForce(history', now') = None
    BY <1>2, <1>3, <1>5 DEF InForceNow
  <2> HIDE DEF offer
  <2>3. QED
    BY <1>2, <2>1, <2>2 DEF AdmittedOnRecord
<1>6. CASE Configured(active)
  <2>1. PICK k \in cands :
            /\ offer[1].key = k /\ offer[1].channel \in {"RESIDENT", "FAST"}
            /\ offer[1].channel = "RESIDENT" => k \in DOMAIN active.places
            /\ states[k].state.status \in {"ACTIVE", "WATCH"}
    BY <1>1, <1>2, <1>3, <1>6, HeldPlaces, OfferGives
  <2>2. SelectionOnRecord'
    <3>1. Effective(active, now)
      BY <1>3, <1>6 DEF InForceNow
    <3>2. IF active.status = "READY" THEN active = history[active.day]
          ELSE active.rows = AsOf(history, active.day).rows
      BY <1>3, <1>6 DEF HeldIn, Configured
    <3>3. QED
      BY <1>2, <3>1, <3>2 DEF SelectionOnRecord
  <2>3. offer[1].channel = "RESIDENT" => ~Degraded(table', active', offer[1].key, now')
    <3>1. PICK opened : table' = table \cup opened /\ \A o \in opened : o.settled = 0
      BY <1>3, DecidedTable
    <3> HIDE DEF offer
    <3>2. Degraded(table \cup opened, active, offer[1].key, now)
            = Degraded(observations, active, offer[1].key, now)
      BY <1>2, <1>3, <3>1, SameHealth
    <3>3. QED
      BY <1>2, <3>1, <3>2
  <2> HIDE DEF offer
  <2>4. QED
    BY <1>1, <1>2, <1>4, <2>1, <2>2, <2>3 DEF AdmittedOnRecord
<1>7. QED
  BY <1>5, <1>6

LEMMA StepAdmits == AdmitInv /\ [Next]_vars => AdmitInv'
<1> SUFFICES ASSUME AdmitInv, [Next]_vars PROVE AdmitInv'
  OBVIOUS
<1>1. RecordInv' /\ AllOnRecord' /\ ForceInv'
  BY StepRecord, StepOnRecord, StepForce DEF AdmitInv, RecordInv
<1>2. order' = <<>> => AdmittedOnRecord'
  BY DEF AdmittedOnRecord
<1>3. CASE Settle
  BY <1>1, <1>2, <1>3 DEF Settle, AdmitInv
<1>4. CASE Select \/ SelectRaises
  <2>1. order' = <<>>
    BY <1>4 DEF Select, SelectRaises, AdmitInv
  <2>2. QED
    BY <1>1, <1>2, <2>1 DEF AdmitInv
<1>5. CASE Decide
  <2>1. pc' = "settle"
    BY <1>5 DEF Decide, DecideOn
  <2>2. QED
    BY <1>1, <1>5, <2>1, DecideAdmits DEF AdmitInv
<1>6. CASE Crash
  BY <1>1, <1>2, <1>6 DEF Crash, AdmitInv
<1>7. CASE Pass
  <2>1. order' = <<>>
    BY <1>7 DEF Pass, AdmitInv
  <2>2. QED
    BY <1>1, <1>2, <2>1 DEF AdmitInv
<1>8. CASE Restart
  <2>1. order' = <<>>
    BY <1>8 DEF Restart, AdmitInv
  <2>2. QED
    BY <1>1, <1>2, <2>1 DEF AdmitInv
<1>9. CASE UNCHANGED vars
  <2>1. /\ pc' = pc /\ order' = order /\ AdmittedOnRecord
        /\ AdmittedOnRecord => AdmittedOnRecord'
    BY <1>9 DEF vars, memory, disk, AdmitInv, AdmittedOnRecord, SelectionOnRecord, StateOnRecord
  <2>2. QED
    BY <1>1, <2>1 DEF AdmitInv
<1>10. QED
  BY <1>3, <1>4, <1>5, <1>6, <1>7, <1>8, <1>9 DEF Next

\* An order a profile admitted rests on what is recorded, over restarts, lost
\* writes and failed reads: on the selection in force, on the profile's state
\* as its settled rows give it, and on a health no loss is missing from.
THEOREM AdmissionsOnRecord == Spec => []AdmittedOnRecord
<1>1. Init => AdmitInv
  <2> SUFFICES ASSUME Init PROVE AdmitInv
    OBVIOUS
  <2>1. RecordInv
    <3>1. TablesInv /\ DOMAIN history = {}
      BY InitTables, EmptyDomain DEF Init
    <3>2. QED
      BY <3>1 DEF RecordInv, Recorded
  <2>2. /\ order = <<>> /\ latest = None /\ active = None /\ pc = "settle"
    BY DEF Init
  <2>3. QED
    BY <2>1, <2>2, InitOnRecord, NoneHeld DEF AdmitInv, ForceInv, AdmittedOnRecord
<1>2. AdmitInv => AdmittedOnRecord
  BY DEF AdmitInv
<1>3. QED
  BY <1>1, <1>2, StepAdmits, PTL DEF Spec

-----------------------------------------------------------------------------
(* The schedule the recorded selections reproduce *)

\* What the database answers for a day rests on the days up to it.
LEMMA AsOfSame ==
  ASSUME NEW g, NEW h, NEW a, NEW b, NEW top \in Nat,
         {e \in DOMAIN g : e <= a} = {e \in DOMAIN h : e <= b},
         {e \in DOMAIN h : e <= b} \subseteq 0..top,
         \A e \in DOMAIN h : e <= b => g[e] = h[e]
  PROVE  AsOf(g, a) = AsOf(h, b)
<1> DEFINE upTo == {e \in DOMAIN h : e <= b}
<1>1. upTo # {} => Max(upTo) \in upTo
  <2>1. upTo \in SUBSET (0..top)
    OBVIOUS
  <2> HIDE DEF upTo
  <2>2. QED
    BY <2>1, MaxOf
<1>2. /\ AsOf(h, b) = IF upTo = {} THEN None ELSE h[Max(upTo)]
      /\ AsOf(g, a) = IF upTo = {} THEN None ELSE g[Max(upTo)]
  BY DEF AsOf
<1>3. QED
  BY <1>1, <1>2

\* For a day that has a row it answers that row.
LEMMA AsOfDay ==
  ASSUME NEW h, NEW top \in Nat, DOMAIN h \subseteq 1..top, NEW d \in DOMAIN h
  PROVE  AsOf(h, d) = h[d]
<1> DEFINE upTo == {e \in DOMAIN h : e <= d}
<1>1. /\ upTo \in SUBSET (0..top) /\ d \in upTo /\ upTo # {} /\ \A e \in upTo : e <= d
      /\ d \in Nat
  OBVIOUS
<1>2. AsOf(h, d) = h[Max(upTo)]
  BY <1>1 DEF AsOf
<1>3. Max(upTo) \in Nat /\ Max(upTo) <= d /\ d <= Max(upTo)
  <2> HIDE DEF upTo
  <2>1. Max(upTo) \in upTo /\ d <= Max(upTo)
    BY <1>1, MaxOf
  <2>2. \A m \in upTo : m \in Nat /\ m <= d
    BY <1>1
  <2>3. QED
    BY <2>1, <2>2
<1>4. QED
  BY <1>1, <1>2, <1>3

\* The minutes before the beginning of a day are of earlier days.
LEMMA DayBefore ==
  ASSUME NEW t \in Nat, NEW d \in Nat, t < LookbackEnd(d)
  PROVE  Day(t) < d
<1>1. ASSUME d <= Day(t) PROVE FALSE
  <2>1. d * DayLength <= Day(t) * DayLength /\ d * DayLength \in Nat
    BY <1>1, DayFacts, Products
  <2>2. Day(t) * DayLength <= t
    BY DayFacts
  <2>3. QED
    BY <2>1, <2>2, DayFacts DEF LookbackEnd
<1>2. QED
  BY <1>1, DayFacts

\* A selection made of no row and nothing before is empty.
LEMMA BuildEmpty ==
  ASSUME NEW S, NEW d, NEW previous, NEW max,
         Eligible(S, d, StableDays) = {}, DOMAIN previous.rows = {}
  PROVE  /\ Build(S, d, previous, max).rows = <<>>
         /\ Build(S, d, previous, max).places = <<>>
<1> DEFINE keys == {o.key : o \in Eligible(S, d, StableDays)} \cup DOMAIN previous.rows
           of   == [k \in keys |-> Candidate(Samples(S, d, FastDays, k),
                                             Samples(S, d, StableDays, k), d, previous, k)]
           within == {k \in DOMAIN Ranking(of) : max = 0 \/ Ranking(of)[k] <= max}
<1>1. Build(S, d, previous, max) = Selection(d, of, max)
  BY DEF Build
<1>2. /\ Selection(d, of, max).rows = of
      /\ Selection(d, of, max).places = Restrict(Ranking(of), within)
  BY DEF Selection
<1>3. of = <<>> /\ DOMAIN of = {}
  <2>1. keys = {}
    OBVIOUS
  <2>2. of = [k \in {} |-> of[k]] /\ DOMAIN of = {}
    BY <2>1
  <2> HIDE DEF of
  <2>3. QED
    BY <2>2
<1> HIDE DEF of
<1>4. DOMAIN Ranking(of) = {}
  BY <1>3 DEF Ranking
<1>5. Restrict(Ranking(of), within) = <<>>
  <2>1. within = {}
    BY <1>4
  <2> HIDE DEF within
  <2> DEFINE r == Restrict(Ranking(of), within)
  <2>2. r = [k \in {} |-> r[k]]
    BY <2>1 DEF Restrict
  <2> HIDE DEF r
  <2>3. r = <<>>
    BY <2>2
  <2>4. QED
    BY <2>3 DEF r
<1>6. QED
  BY <1>1, <1>2, <1>3, <1>5

\* A selection rests on the rows and the places of the one before.
LEMMA BuildOn ==
  ASSUME NEW S, NEW d, NEW p, NEW q, NEW max, p.rows = q.rows, p.places = q.places
  PROVE  Build(S, d, p, max) = Build(S, d, q, max)
<1>1. ASSUME NEW x, NEW y, NEW k PROVE Candidate(x, y, d, p, k) = Candidate(x, y, d, q, k)
  BY Zenon DEF Candidate
<1>2. QED
  BY <1>1, Zenon DEF Build

\* What is settled when its expiry is not before a day that was selected changes
\* no row of the windows of that day.
LEMMA EligibleStays ==
  ASSUME TablesInv, Settle, ~amended', NEW d \in DOMAIN history, d \in Nat, NEW days
  PROVE  Eligible(table', d, days) = Eligible(table, d, days)
<1> DEFINE due == Due(observations, now + 1)
<1>1. /\ pc = "settle"
      /\ table' = table \/ table' = WithSettlements(table, Results(due))
      /\ amended' = (amended \/ (table' # table /\ Backdated(due)))
  BY DEF Settle
<1>2. CASE table' = table
  BY <1>2
<1>3. CASE table' # table /\ table' = WithSettlements(table, Results(due))
  <2>1. ~Backdated(due)
    BY <1>1, <1>3, Zenon
  <2>2. \A o \in due : ~(o.expires < LookbackEnd(d))
    BY <2>1 DEF Backdated
  <2>3. table' = (table \ due) \cup Results(due)
    BY <1>1, <1>3, SettledTable
  <2>4. ASSUME NEW p \in Results(due)
        PROVE  p \notin Eligible(table', d, days)
    <3>1. PICK o \in due : p.settled = o.expires
      BY <1>1, SettledTable
    <3>2. ~(p.settled < LookbackEnd(d))
      BY <2>2, <3>1
    <3>3. QED
      BY <3>2, EligibleIs
  <2>5. \A o \in due : o.settled = 0
    BY <1>1, DueRows
  <2> HIDE DEF due
  <2>6. ASSUME NEW o \in Eligible(table', d, days) PROVE o \in Eligible(table, d, days)
    <3>1. o \in table' /\ o \notin Results(due)
      BY <2>4, EligibleIs
    <3>2. o \in table
      BY <2>3, <3>1
    <3>3. QED
      BY <3>2, EligibleIs, Zenon
  <2>7. ASSUME NEW o \in Eligible(table, d, days) PROVE o \in Eligible(table', d, days)
    <3>1. o \in table /\ o.settled # 0
      BY EligibleIs
    <3>2. o \in table'
      BY <2>3, <2>5, <3>1
    <3>3. QED
      BY <3>2, EligibleIs, Zenon
  <2>8. QED
    BY <2>6, <2>7
<1>4. QED
  BY <1>1, <1>2, <1>3

\* The row of a day is what its windows and the row before it give.
Reproduces(h, d) ==
    h[d].limit = limit /\ h[d] = Build(table, d, AsOf(h, d - 1), limit)

ScheduleInv ==
    ~amended =>
        /\ \A d \in DOMAIN history : Reproduces(history, d)
        /\ pc # "down" /\ Day(now) \in DOMAIN history => ~Stale(latest, Day(now))

\* It stays so while the windows of the day stay and the clock goes on.
LEMMA ScheduleKept ==
  ASSUME RecordInv, ScheduleInv, ~amended' => ~amended,
         ~amended' => \A d \in DOMAIN history, days \in {FastDays, StableDays} :
                          Eligible(table', d, days) = Eligible(table, d, days),
         history' = history, limit' = limit,
         now' \in {now, now + 1}, pc' = "down" \/ (pc # "down" /\ latest' = latest)
  PROVE  ScheduleInv'
<1> SUFFICES ASSUME ~amended' PROVE /\ \A d \in DOMAIN history : Reproduces(history, d)'
                                    /\ pc' # "down" /\ Day(now') \in DOMAIN history
                                         => ~Stale(latest, Day(now))'
  BY DEF ScheduleInv
<1>1. ASSUME NEW d \in DOMAIN history PROVE Reproduces(history, d)'
  <2>1. Reproduces(history, d)
    BY Zenon DEF ScheduleInv
  <2>2. Build(table', d, AsOf(history, d - 1), limit) = Build(table, d, AsOf(history, d - 1), limit)
    BY BuildBy
  <2>3. QED
    BY <2>1, <2>2 DEF Reproduces
<1>2. ASSUME pc' # "down", Day(now') \in DOMAIN history PROVE ~Stale(latest, Day(now))'
  <2>1. Day(now) \in Nat /\ Day(now') \in Nat /\ Day(now) <= Day(now')
    BY DayGoesOn DEF RecordInv
  <2>2. Day(now') \in 1..Day(now)
    BY <1>2 DEF RecordInv, Recorded
  <2>3. Day(now') = Day(now)
    BY <2>1, <2>2
  <2>4. ~Stale(latest, Day(now))
    BY <1>2, <2>3, Zenon DEF ScheduleInv
  <2>5. QED
    BY <1>2, <2>3, <2>4 DEF Stale
<1>3. QED
  BY <1>1, <1>2

\* A selection is made for a day that has none, and of the row before it.
LEMMA SelectSchedule == RecordInv /\ ScheduleInv /\ (Select \/ SelectRaises) => ScheduleInv'
<1> SUFFICES ASSUME RecordInv, ScheduleInv, Select \/ SelectRaises, ~amended'
             PROVE  /\ \A e \in DOMAIN history' : Reproduces(history, e)'
                    /\ Day(now') \in DOMAIN history' => ~Stale(latest, Day(now))'
  BY DEF ScheduleInv
<1> DEFINE d == Day(now)
           built == Build(observations, d, AsOf(history, d), limit)
<1>1. /\ pc = "select" /\ now' = now /\ limit' = limit /\ table' = table
      /\ \/ latest' = latest /\ history' = history
         \/ Stale(latest, d) /\ latest' = built /\ history' = Saved(history, built)
         \/ Stale(latest, d) /\ history' = history
  BY DEF Select, SelectRaises
<1>2. ~amended
  BY DEF Select, SelectRaises
<1>3. /\ \A e \in DOMAIN history : Reproduces(history, e)
      /\ d \in DOMAIN history => ~Stale(latest, d)
  BY <1>1, <1>2, Zenon DEF ScheduleInv
<1>4. /\ TablesInv /\ Recorded(history, d) /\ d \in Nat \ {0} /\ DOMAIN history \subseteq 1..d
  BY DayGoesOn DEF RecordInv, Recorded
<1>5. CASE history' = history /\ latest' = latest
  <2>1. \A e \in DOMAIN history : Reproduces(history, e)'
    BY <1>1, <1>3, <1>5 DEF Reproduces
  <2>2. d \in DOMAIN history => ~Stale(latest, d)'
    BY <1>1, <1>3, <1>5 DEF Stale
  <2>3. QED
    BY <1>1, <1>5, <2>1, <2>2
<1>6. CASE history' = history /\ Stale(latest, d)
  <2>1. \A e \in DOMAIN history : Reproduces(history, e)'
    BY <1>1, <1>3, <1>6 DEF Reproduces
  <2>2. Day(now') \notin DOMAIN history'
    BY <1>1, <1>3, <1>6
  <2>3. QED
    BY <1>6, <2>1, <2>2
<1>7. CASE Stale(latest, d) /\ latest' = built /\ history' = Saved(history, built)
  <2>1. d \notin DOMAIN history
    BY <1>3, <1>7
  <2>3. /\ built.day = d /\ built.status = "READY" /\ built.limit = limit /\ history'[d] = built
        /\ DOMAIN history' = DOMAIN history \cup {d}
        /\ \A e \in DOMAIN history : e # d => history'[e] = history[e]
    BY <1>1, <1>7, SelectKeeps
  <2>4. built = Build(table, d, AsOf(history, d), limit)
    BY <1>1, <1>4, SameSelection DEF TablesInv, HeldRows
  <2> HIDE DEF built, d
  <2>5. ASSUME NEW e \in DOMAIN history
        PROVE  AsOf(history', e - 1) = AsOf(history, e - 1) /\ history'[e] = history[e]
    <3>1. e \in 1..d /\ e # d
      BY <1>4, <2>1
    <3>2. /\ {x \in DOMAIN history' : x <= e - 1} = {x \in DOMAIN history : x <= e - 1}
          /\ {x \in DOMAIN history : x <= e - 1} \subseteq 0..d
          /\ \A x \in DOMAIN history : x <= e - 1 => history'[x] = history[x]
      BY <1>4, <2>1, <2>3, <3>1
    <3>3. QED
      BY <1>4, <2>3, <3>1, <3>2, AsOfSame
  <2>6. AsOf(history', d - 1) = AsOf(history, d)
    <3>1. /\ {x \in DOMAIN history' : x <= d - 1} = {x \in DOMAIN history : x <= d}
          /\ {x \in DOMAIN history : x <= d} \subseteq 0..d
          /\ \A x \in DOMAIN history : x <= d => history'[x] = history[x]
      BY <1>4, <2>1, <2>3
    <3>2. QED
      BY <1>4, <3>1, AsOfSame
  <2>7. ASSUME NEW e \in DOMAIN history' PROVE Reproduces(history, e)'
    <3>1. CASE e = d
      BY <1>1, <2>3, <2>4, <2>6, <3>1 DEF Reproduces
    <3>2. CASE e \in DOMAIN history
      <4>1. Reproduces(history, e)
        BY <1>3, <3>2
      <4>2. QED
        BY <1>1, <2>5, <3>2, <4>1 DEF Reproduces
    <3>3. QED
      BY <2>3, <3>1, <3>2
  <2>8. ~Stale(latest, Day(now))'
    <3>1. Day(now') = d
      BY <1>1 DEF d
    <3>2. QED
      BY <1>1, <1>7, <2>3, <3>1 DEF Stale
  <2>9. QED
    BY <2>7, <2>8
<1>8. QED
  BY <1>1, <1>5, <1>6, <1>7

\* A restart with the same limit takes the newest row as the latest.
LEMMA RestartSchedule == RecordInv /\ ScheduleInv /\ Restart => ScheduleInv'
<1> SUFFICES ASSUME RecordInv, ScheduleInv, Restart, ~amended'
             PROVE  /\ \A d \in DOMAIN history' : Reproduces(history, d)'
                    /\ Day(now') \in DOMAIN history' => ~Stale(latest, Day(now))'
  BY DEF ScheduleInv
<1>1. /\ now' = now /\ table' = table /\ history' = history /\ latest' = Newest(history)
      /\ limit' = limit /\ ~amended
  BY DEF Restart, disk
<1>2. \A d \in DOMAIN history : Reproduces(history, d)
  BY <1>1, Zenon DEF ScheduleInv
<1>3. \A d \in DOMAIN history : Reproduces(history, d)'
  BY <1>1, <1>2 DEF Reproduces
<1>4. ASSUME Day(now) \in DOMAIN history PROVE ~Stale(latest, Day(now))'
  <2>1. Day(now) \in Nat /\ Recorded(history, Day(now)) /\ DOMAIN history \in SUBSET (0..Day(now))
        /\ DOMAIN history # {} /\ DOMAIN history \subseteq 1..Day(now)
    BY <1>4, DayGoesOn DEF RecordInv, Recorded
  <2>2. Max(DOMAIN history) \in DOMAIN history /\ Day(now) <= Max(DOMAIN history)
    BY <1>4, <2>1, MaxOf
  <2>3. Max(DOMAIN history) = Day(now)
    BY <2>1, <2>2
  <2>4. latest' = history[Day(now)]
    BY <1>1, <2>1, <2>3 DEF Newest
  <2>5. history[Day(now)].limit = limit
    BY <1>2, <1>4 DEF Reproduces
  <2>6. history[Day(now)].day = Day(now) /\ history[Day(now)].status = "READY"
    <3>1. history[Day(now)] = [day |-> Day(now), status |-> "READY",
             limit |-> history[Day(now)].limit, rows |-> history[Day(now)].rows,
             places |-> history[Day(now)].places]
      BY <1>4, <2>1, RecordedHeld
    <3>2. QED
      BY <3>1
  <2>7. QED
    BY <1>1, <2>4, <2>5, <2>6 DEF Stale
<1>5. QED
  BY <1>1, <1>3, <1>4

LEMMA StepSchedule == RecordInv /\ ScheduleInv /\ [Next]_vars => ScheduleInv'
<1> SUFFICES ASSUME RecordInv, ScheduleInv, [Next]_vars PROVE ScheduleInv'
  OBVIOUS
<1>1. CASE Settle
  <2>1. /\ history' = history /\ limit' = limit /\ now' = now + 1 /\ latest' = latest
        /\ pc = "settle"
    BY <1>1 DEF Settle
  <2>2. ~amended' => ~amended
    BY <1>1 DEF Settle
  <2>3. ASSUME ~amended', NEW d \in DOMAIN history, NEW days
        PROVE  Eligible(table', d, days) = Eligible(table, d, days)
    <3>1. d \in Nat
      BY DEF RecordInv, Recorded
    <3>2. QED
      BY <1>1, <2>3, <3>1, EligibleStays DEF RecordInv
  <2>4. QED
    BY <2>1, <2>2, <2>3, ScheduleKept
<1>2. CASE Decide
  <2>1. PICK opened : table' = table \cup opened /\ \A o \in opened : o.settled = 0
    BY <1>2, DecidedTable DEF RecordInv
  <2>2. \A d, days : Eligible(table', d, days) = Eligible(table, d, days)
    BY <2>1 DEF Eligible, Settled
  <2>3. /\ history' = history /\ limit' = limit /\ now' = now /\ latest' = latest
        /\ pc = "decide" /\ amended' = amended
    BY <1>2 DEF Decide, DecideOn
  <2>4. QED
    BY <2>2, <2>3, ScheduleKept
<1>3. CASE Select \/ SelectRaises
  BY <1>3, SelectSchedule
<1>4. CASE Crash
  <2>1. /\ history' = history /\ limit' = limit /\ now' = now /\ pc' = "down"
        /\ table' = table /\ amended' = amended
    BY <1>4 DEF Crash, disk
  <2>2. QED
    BY <2>1, ScheduleKept
<1>5. CASE Pass
  <2>1. /\ history' = history /\ limit' = limit /\ now' = now + 1 /\ pc' = "down"
        /\ table' = table /\ amended' = amended
    BY <1>5 DEF Pass, disk, memory, counted
  <2>2. QED
    BY <2>1, ScheduleKept
<1>6. CASE Restart
  BY <1>6, RestartSchedule
<1>7. CASE UNCHANGED vars
  <2>1. /\ history' = history /\ limit' = limit /\ now' = now /\ latest' = latest
        /\ pc' = pc /\ table' = table /\ amended' = amended
    BY <1>7 DEF vars, disk, memory, counted
  <2>2. QED
    BY <2>1, ScheduleKept
<1>8. QED
  BY <1>1, <1>2, <1>3, <1>4, <1>5, <1>6, <1>7 DEF Next

\* The rows a day of the schedule is made from.
KnownBefore(S, d) == {o \in Settled(S) : o.settled < LookbackEnd(d)}

IsSchedule(f, S, last, max) ==
    f = [d \in 0..last |->
            IF d = 0 THEN None ELSE Build(KnownBefore(S, d), d, f[d - 1], max)]

\* There is a schedule of any number of days.
LEMMA ScheduleExists ==
  ASSUME NEW S, NEW last \in Nat, NEW max
  PROVE  \E f : IsSchedule(f, S, last, max)
<1> DEFINE bad == {n \in Nat : ~\E f : IsSchedule(f, S, n, max)}
<1>1. ASSUME bad # {} PROVE FALSE
  <2>1. PICK n \in bad : \A m \in bad : n <= m
    <3>1. bad \subseteq Nat
      OBVIOUS
    <3> HIDE DEF bad
    <3>2. QED
      BY <1>1, <3>1, LeastExists
  <2>2. CASE n = 0
    <3>1. IsSchedule([d \in 0..0 |-> None], S, 0, max)
      BY DEF IsSchedule
    <3>2. QED
      BY <2>1, <2>2, <3>1
  <2>3. CASE n # 0
    <3>1. n - 1 \in Nat /\ n - 1 \notin bad /\ n \in Nat
      <4>1. n \in Nat
        BY <2>1
      <4>2. n - 1 \in Nat /\ ~(n <= n - 1)
        BY <2>3, <4>1
      <4>3. QED
        BY <2>1, <4>1, <4>2
    <3>2. PICK g : IsSchedule(g, S, n - 1, max)
      BY <3>1
    <3> DEFINE f == [d \in 0..n |->
                       IF d = n THEN Build(KnownBefore(S, n), n, g[n - 1], max) ELSE g[d]]
    <3>3. \A d \in 0..(n - 1) : d \in 0..n /\ f[d] = g[d]
      BY <3>1
    <3>4. ASSUME NEW d \in 0..n
          PROVE  f[d] = IF d = 0 THEN None ELSE Build(KnownBefore(S, d), d, f[d - 1], max)
      <4>1. CASE d = n
        <5>1. f[d] = Build(KnownBefore(S, n), n, g[n - 1], max)
          BY <4>1
        <5>2. f[n - 1] = g[n - 1]
          BY <3>1, <3>3
        <5> HIDE DEF f
        <5>3. QED
          BY <2>3, <4>1, <5>1, <5>2
      <4>2. CASE d # n
        <5>1. d \in 0..(n - 1) /\ f[d] = g[d]
          BY <3>1, <3>3, <4>2
        <5>2. g[d] = IF d = 0 THEN None ELSE Build(KnownBefore(S, d), d, g[d - 1], max)
          BY <3>2, <5>1, Zenon DEF IsSchedule
        <5>3. d # 0 => f[d - 1] = g[d - 1]
          BY <3>1, <3>3, <5>1
        <5> HIDE DEF f
        <5>4. QED
          BY <5>1, <5>2, <5>3
      <4>3. QED
        BY <4>1, <4>2
    <3>5. IsSchedule(f, S, n, max)
      <4>1. f = [d \in 0..n |-> f[d]]
        OBVIOUS
      <4> HIDE DEF f
      <4>2. QED
        BY <3>4, <4>1 DEF IsSchedule
    <3>6. QED
      BY <2>1, <3>5
  <2>4. QED
    BY <2>2, <2>3
<1>2. QED
  BY <1>1

\* The schedule is computed from a day with nothing, each day of the one before.
LEMMA ScheduledIs ==
  ASSUME NEW S, NEW last \in Nat, NEW max
  PROVE  \E f : /\ Scheduled(S, last, max) = f[last] /\ f[0] = None
                /\ \A d \in 1..last : f[d] = Build(KnownBefore(S, d), d, f[d - 1], max)
<1> DEFINE f == CHOOSE g : IsSchedule(g, S, last, max)
<1>1. IsSchedule(f, S, last, max)
  BY ScheduleExists
<1>2. Scheduled(S, last, max) = f[last]
  BY Zenon DEF Scheduled, IsSchedule, KnownBefore
<1> HIDE DEF f
<1>3. ASSUME NEW d \in 0..last
      PROVE  f[d] = IF d = 0 THEN None ELSE Build(KnownBefore(S, d), d, f[d - 1], max)
  BY <1>1, Zenon DEF IsSchedule
<1>4. f[0] = None
  BY <1>3
<1>5. ASSUME NEW d \in 1..last
      PROVE  f[d] = Build(KnownBefore(S, d), d, f[d - 1], max)
  BY <1>3
<1>6. QED
  BY <1>2, <1>4, <1>5

\* The schedule has the recorded selections, where no day that had something to
\* select from is missing.
LEMMA ScheduleReproduced ==
  ASSUME RecordInv, ScheduleInv, ~amended, NEW d \in DOMAIN history,
         \A e \in 1..d : (\E o \in table : Day(o.opened) < e) => e \in DOMAIN history
  PROVE  LET s == Scheduled(table, d, history[d].limit)
         IN  s.rows = history[d].rows /\ s.places = history[d].places
<1>1. /\ d \in Nat \ {0} /\ d <= Day(now) /\ Day(now) \in Nat /\ DOMAIN history \subseteq 1..Day(now)
      /\ \A e \in DOMAIN history : Reproduces(history, e)
      /\ \A o \in table : o.opened \in Nat
  <2>1. \A e \in DOMAIN history : Reproduces(history, e)
    BY Zenon DEF ScheduleInv
  <2>2. Day(now) \in Nat /\ DOMAIN history \subseteq 1..Day(now)
    BY DayGoesOn DEF RecordInv, Recorded
  <2>3. \A o \in table : o.opened \in Nat
    BY DEF RecordInv, TablesInv, RowsArePast, IsObservation
  <2>4. QED
    BY <2>1, <2>2, <2>3
<1>2. history[d].limit = limit
  BY <1>1 DEF Reproduces
<1>3. PICK f : /\ Scheduled(table, d, limit) = f[d] /\ f[0] = None
               /\ \A i \in 1..d : f[i] = Build(KnownBefore(table, i), i, f[i - 1], limit)
  BY <1>1, ScheduledIs
<1> DEFINE early(i) == \E o \in table : Day(o.opened) < i
           same(i)  == /\ f[i].rows = AsOf(history, i).rows
                       /\ f[i].places = AsOf(history, i).places
                       /\ ~early(i) => f[i].rows = <<>> /\ f[i].places = <<>>
<1>4. same(0)
  <2>1. {e \in DOMAIN history : e <= 0} = {}
    BY <1>1
  <2>2. AsOf(history, 0) = None
    BY <2>1 DEF AsOf
  <2>3. None.rows = <<>> /\ None.places = <<>>
    BY DEF None
  <2>4. QED
    BY <1>3, <2>2, <2>3
<1>5. ASSUME NEW i \in 1..d, same(i - 1) PROVE same(i)
  <2>1. i \in Nat /\ f[i] = Build(KnownBefore(table, i), i, f[i - 1], limit)
    BY <1>3
  <2>2. ASSUME NEW days \in {FastDays, StableDays}
        PROVE  Eligible(KnownBefore(table, i), i, days) = Eligible(table, i, days)
    BY DEF Eligible, KnownBefore, Settled
  <2>3. ASSUME ~early(i) PROVE f[i].rows = <<>> /\ f[i].places = <<>> /\ f[i - 1].rows = <<>>
                               /\ f[i - 1].places = <<>>
    <3>1. ~early(i - 1)
      <4>1. \A o \in table : Day(o.opened) \in Nat /\ ~(Day(o.opened) < i)
        BY <1>1, <2>3, DayFacts
      <4>2. QED
        BY <2>1, <4>1
    <3>2. f[i - 1].rows = <<>> /\ f[i - 1].places = <<>>
      BY <1>5, <3>1
    <3>3. Eligible(table, i, StableDays) = {}
      <4>1. ASSUME NEW o \in Eligible(table, i, StableDays) PROVE FALSE
        <5>1. o \in table /\ o.opened < LookbackEnd(i)
          BY EligibleIs
        <5>2. Day(o.opened) < i
          BY <1>1, <2>1, <5>1, DayBefore
        <5>3. QED
          BY <2>3, <5>1, <5>2
      <4>2. QED
        BY <4>1
    <3>4. Eligible(KnownBefore(table, i), i, StableDays) = {} /\ DOMAIN f[i - 1].rows = {}
      BY <2>2, <3>2, <3>3, EmptyDomain
    <3>5. QED
      BY <2>1, <3>2, <3>4, BuildEmpty
  <2>4. CASE i \in DOMAIN history
    <3>1. AsOf(history, i) = history[i]
      BY <1>1, <2>4, AsOfDay
    <3>2. history[i] = Build(table, i, AsOf(history, i - 1), limit)
      BY <1>1, <2>4 DEF Reproduces
    <3>3. Build(table, i, AsOf(history, i - 1), limit) = Build(table, i, f[i - 1], limit)
      BY <1>5, BuildOn
    <3>4. Build(table, i, f[i - 1], limit) = f[i]
      BY <2>1, <2>2, BuildBy
    <3>5. QED
      BY <2>3, <3>1, <3>2, <3>3, <3>4
  <2>5. CASE i \notin DOMAIN history
    <3>1. ~early(i)
      BY <2>5
    <3>2. AsOf(history, i) = AsOf(history, i - 1)
      <4>1. /\ {e \in DOMAIN history : e <= i} = {e \in DOMAIN history : e <= i - 1}
            /\ {e \in DOMAIN history : e <= i - 1} \subseteq 0..Day(now)
        BY <1>1, <2>1, <2>5
      <4>2. QED
        BY <1>1, <4>1, AsOfSame
    <3>3. QED
      BY <1>5, <2>3, <3>1, <3>2
  <2>6. QED
    BY <2>4, <2>5
<1> HIDE DEF same
<1> DEFINE bad == {i \in 0..d : ~same(i)}
<1>6. ASSUME bad # {} PROVE FALSE
  <2>1. PICK i \in bad : \A m \in bad : i <= m
    <3>1. bad \subseteq Nat
      OBVIOUS
    <3> HIDE DEF bad
    <3>2. QED
      BY <1>6, <3>1, LeastExists
  <2>2. i \in 0..d /\ ~same(i) /\ i # 0
    BY <1>4, <2>1
  <2>3. i - 1 \in 0..d /\ ~(i <= i - 1) /\ i \in 1..d
    BY <1>1, <2>2
  <2>4. same(i - 1)
    BY <2>1, <2>3
  <2>5. QED
    BY <1>5, <2>2, <2>3, <2>4
<1>7. same(d)
  <2>1. d \in 0..d
    BY <1>1
  <2>2. QED
    BY <1>6, <2>1
<1>8. AsOf(history, d) = history[d]
  BY <1>1, AsOfDay
<1>9. QED
  BY <1>2, <1>3, <1>7, <1>8 DEF same

\* The selections the live process records, over restarts and whatever was held
\* back from it, are those the replay of the final table computes.
THEOREM SchedulesAgree == Spec => []ScheduleAgrees
<1>1. Init => ScheduleInv
  <2>1. Init => DOMAIN history = {}
    BY EmptyDomain DEF Init
  <2>2. QED
    BY <2>1 DEF ScheduleInv
<1>2. RecordInv /\ ScheduleInv => ScheduleAgrees
  <2> SUFFICES ASSUME RecordInv, ScheduleInv, NEW d \in DOMAIN history, ~amended,
                      {e \in 1..d : \E o \in table : Day(o.opened) < e} \subseteq DOMAIN history
               PROVE  LET s == Scheduled(table, d, history[d].limit)
                      IN  s.rows = history[d].rows /\ s.places = history[d].places
    BY Zenon DEF ScheduleAgrees
  <2>1. \A e \in 1..d : (\E o \in table : Day(o.opened) < e) => e \in DOMAIN history
    OBVIOUS
  <2>2. QED
    BY <2>1, ScheduleReproduced
<1>3. QED
  BY <1>1, <1>2, AlwaysRecord, StepSchedule, PTL DEF Spec

-----------------------------------------------------------------------------
(* Types *)

TypesInv ==
    /\ now \in StartTime..MaxTime /\ DOMAIN states = Profiles /\ unread \subseteq Profiles
    /\ limit \in Limits /\ amended \in BOOLEAN
    /\ restarts \in 0..MaxRestarts /\ faults \in 0..MaxFaults

LEMMA InitTypes == Init => TypesInv
<1> SUFFICES ASSUME Init PROVE TypesInv
  OBVIOUS
<1>1. now = StartTime /\ limit \in Limits /\ unread = {} /\ amended = FALSE
  BY DEF Init
<1>2. DOMAIN states = Profiles
  BY DEF Init
<1>3. restarts = 0 /\ faults = 0
  BY DEF Init
<1>4. StartTime \in StartTime..MaxTime /\ 0 \in 0..MaxRestarts /\ 0 \in 0..MaxFaults
  BY DailyAssumption
<1>5. QED
  BY <1>1, <1>2, <1>3, <1>4 DEF TypesInv

LEMMA StepTypes == TablesInv /\ TypesInv /\ [Next]_vars => TypesInv'
<1> SUFFICES ASSUME TablesInv, TypesInv, [Next]_vars PROVE TypesInv'
  OBVIOUS
<1>1. /\ StartTime \in Nat /\ MaxTime \in Nat /\ MaxRestarts \in Nat /\ MaxFaults \in Nat
      /\ now \in Nat /\ restarts \in Nat /\ faults \in Nat
  BY DailyAssumption DEF TypesInv
<1>2. Faulty \/ Sound => faults' \in 0..MaxFaults
  BY <1>1 DEF Faulty, Sound, TypesInv
<1>3. CASE Settle
  <2> DEFINE due == Due(observations, now + 1)
             keys == {o.key : o \in due}
  <2>1. pc = "settle" /\ now < MaxTime /\ now' = now + 1
    BY <1>3 DEF Settle
  <2>2. keys \subseteq Profiles
    <3>1. \A o \in due : o.key \in Profiles
      BY <2>1, DueRows DEF IsObservation
    <3>2. QED
      BY <3>1
  <2>3. /\ states' = states \/ states' = Refreshed(table', keys, Max({o.expires : o \in due}) + 1)
        /\ unread' \in {unread, unread \ keys, unread \cup keys}
    BY <1>3, Zenon DEF Settle
  <2>4. DOMAIN states' = Profiles /\ unread' \subseteq Profiles
    <3> HIDE DEF keys
    <3>1. unread' \subseteq Profiles
      BY <2>2, <2>3 DEF TypesInv
    <3>2. DOMAIN states' = Profiles
      BY <2>3 DEF Refreshed, TypesInv
    <3>3. QED
      BY <3>1, <3>2
  <2>5. limit' = limit /\ restarts' = restarts /\ (Faulty \/ Sound)
    BY <1>3 DEF Settle
  <2>6. amended' \in BOOLEAN
    BY <1>3 DEF Settle, TypesInv, Backdated
  <2>7. QED
    BY <1>1, <1>2, <2>1, <2>4, <2>5, <2>6 DEF TypesInv
<1>4. CASE Select \/ SelectRaises
  <2>1. /\ Faulty \/ Sound
        /\ UNCHANGED <<now, states, unread, limit, amended, restarts>>
    BY <1>4 DEF Select, SelectRaises
  <2>2. QED
    BY <1>2, <2>1 DEF TypesInv
<1>5. CASE Decide
  <2>1. /\ Faulty \/ Sound
        /\ UNCHANGED <<now, states, unread, limit, amended, restarts>>
    BY <1>5 DEF Decide, DecideOn
  <2>2. QED
    BY <1>2, <2>1 DEF TypesInv
<1>6. CASE Crash
  BY <1>1, <1>6 DEF Crash, TypesInv
<1>7. CASE Pass
  BY <1>1, <1>7 DEF Pass, memory, counted, TypesInv
<1>8. CASE Restart
  BY <1>8 DEF Restart, TypesInv
<1>9. CASE UNCHANGED vars
  BY <1>9 DEF vars, memory, counted, TypesInv
<1>10. QED
  BY <1>3, <1>4, <1>5, <1>6, <1>7, <1>8, <1>9 DEF Next

\* Every row, selection and counter is one the program can have.
THEOREM ProfilesTypeCorrect == Spec => []TypeOK
<1>1. RecordInv /\ TypesInv => TypeOK
  <2> SUFFICES ASSUME RecordInv, TypesInv PROVE TypeOK
    OBVIOUS
  <2>1. \A o \in observations \cup table :
           o.opened \in Nat /\ (o.settled = 0 \/ o.settled >= o.expires)
    <3>1. observations \subseteq table
      BY DEF RecordInv, TablesInv, HeldRows
    <3>2. ASSUME NEW o \in table PROVE o.opened \in Nat /\ (o.settled = 0 \/ o.settled >= o.expires)
      BY DEF RecordInv, TablesInv, RowsArePast, IsObservation
    <3>3. QED
      BY <3>1, <3>2
  <2>2. DOMAIN history \subseteq 1..Day(MaxTime)
    <3>1. now \in Nat /\ MaxTime \in Nat /\ now <= MaxTime
      BY DailyAssumption DEF TypesInv
    <3>2. Day(now) \in Nat /\ LookbackEnd(Day(now)) <= MaxTime
      BY <3>1, DayFacts DEF LookbackEnd
    <3>3. Day(now) <= Day(MaxTime) /\ Day(MaxTime) \in Nat
      BY <3>1, <3>2, DayFrom, DayFacts
    <3>4. QED
      BY <3>2, <3>3 DEF RecordInv, Recorded
  <2>3. QED
    BY <2>1, <2>2 DEF TypeOK, TypesInv, RecordInv, TablesInv
<1>2. RecordInv => TablesInv
  BY DEF RecordInv
<1>3. QED
  BY <1>1, <1>2, InitTypes, StepTypes, AlwaysRecord, PTL DEF Spec

-----------------------------------------------------------------------------
(* The scripts leave the monitor alone: what is proved of it holds of the    *)
(* specification that the run checks.                                        *)
THEOREM ScriptsRunBeside == ReplaySpec => Spec
<1>1. ReplayInit => Init
  BY DEF ReplayInit
<1>2. [ReplayNext]_<<vars, task, script>> => [Next]_vars
  BY DEF ReplayNext, Monitor, History, Backtest
<1>3. QED
  BY <1>1, <1>2, PTL DEF ReplaySpec, Spec

-----------------------------------------------------------------------------
(* Orders: R is a set of pairs, for a lemma cannot be given an operator.    *)
StrictOrder(R, S) ==
    /\ \A e \in S : <<e, e>> \notin R
    /\ \A e, f \in S : e # f => <<e, f>> \in R \/ <<f, e>> \in R
    /\ \A e, f, g \in S : <<e, f>> \in R /\ <<f, g>> \in R => <<e, g>> \in R

Place(R, S, e) == 1 + Cardinality({f \in S : <<f, e>> \in R})

\* A finite set in an order has one member at each place.
LEMMA Places ==
  ASSUME NEW S, IsFiniteSet(S), NEW R, StrictOrder(R, S)
  PROVE  /\ \A e \in S : Place(R, S, e) \in 1..Cardinality(S)
         /\ \A e, f \in S : <<e, f>> \in R <=> Place(R, S, e) < Place(R, S, f)
         /\ \A e, f \in S : Place(R, S, e) = Place(R, S, f) => e = f
         /\ \A i \in 1..Cardinality(S) : \E e \in S : Place(R, S, e) = i
<1> DEFINE before(e) == {f \in S : <<f, e>> \in R}
           n == Cardinality(S)
<1>0. \A e : Place(R, S, e) = 1 + Cardinality(before(e))
  BY DEF Place
<1>a. \A e, f : f \in before(e) <=> f \in S /\ <<f, e>> \in R
  OBVIOUS
<1> HIDE DEF before
<1>1. n \in Nat /\ \A e : IsFiniteSet(before(e)) /\ Cardinality(before(e)) \in Nat
  <2>1. \A e : before(e) \in SUBSET S
    BY <1>a
  <2>2. QED
    BY <2>1, FS_Subset, FS_CardinalityType
<1>2. ASSUME NEW e \in S PROVE Place(R, S, e) \in 1..n
  <2>1. before(e) \in SUBSET S /\ before(e) # S
    <3>1. e \notin before(e)
      BY <1>a DEF StrictOrder
    <3>2. QED
      BY <1>a, <3>1
  <2>2. Cardinality(before(e)) <= n /\ Cardinality(before(e)) # n
    BY <2>1, FS_Subset
  <2>3. QED
    BY <1>0, <1>1, <2>2
<1>3. ASSUME NEW e \in S, NEW f \in S, <<e, f>> \in R PROVE Place(R, S, e) < Place(R, S, f)
  <2>1. before(e) \in SUBSET before(f) /\ e \in before(f) /\ e \notin before(e)
    BY <1>3, <1>a DEF StrictOrder
  <2>2. Cardinality(before(e)) <= Cardinality(before(f)) /\ Cardinality(before(f)) # Cardinality(before(e))
    BY <1>1, <2>1, FS_Subset
  <2>3. QED
    BY <1>0, <1>1, <2>2
<1>4. ASSUME NEW e \in S, NEW f \in S, e # f PROVE Place(R, S, e) # Place(R, S, f)
  <2>1. <<e, f>> \in R \/ <<f, e>> \in R
    BY <1>4 DEF StrictOrder
  <2>2. Place(R, S, e) \in Nat /\ Place(R, S, f) \in Nat
    BY <1>0, <1>1
  <2>3. QED
    BY <1>3, <2>1, <2>2
<1>5. \A e, f \in S : <<e, f>> \in R <=> Place(R, S, e) < Place(R, S, f)
  <2>1. ASSUME NEW e \in S, NEW f \in S, Place(R, S, e) < Place(R, S, f) PROVE <<e, f>> \in R
    <3>1. Place(R, S, e) \in Nat /\ Place(R, S, f) \in Nat
      BY <1>0, <1>1
    <3>2. e # f /\ ~(<<f, e>> \in R)
      BY <1>3, <2>1, <3>1
    <3>3. QED
      BY <3>2 DEF StrictOrder
  <2>2. QED
    BY <1>3, <2>1
<1>6. \A i \in 1..n : \E e \in S : Place(R, S, e) = i
  <2> DEFINE f == [e \in S |-> Place(R, S, e)]
  <2>1. f \in Injection(S, 1..n)
    <3>1. f \in [S -> 1..n]
      BY <1>2
    <3>2. \A e, g \in S : f[e] = f[g] => e = g
      BY <1>4
    <3> HIDE DEF f
    <3>3. QED
      BY <3>1, <3>2 DEF Injection, IsInjective
  <2>2. Cardinality(1..n) = n
    BY <1>1, FS_Interval
  <2>3. f \in Surjection(S, 1..n)
    <3> HIDE DEF f
    <3>1. QED
      BY <1>1, <2>1, <2>2, FS_Injection, FS_Interval
  <2>4. \A i \in 1..n : \E e \in S : f[e] = i
    <3> HIDE DEF f
    <3>1. QED
      BY <2>3 DEF Surjection
  <2>5. QED
    BY <2>4
<1>7. QED
  BY <1>2, <1>4, <1>5, <1>6

\* A sequence that lists a set in an order.
Lists(s, S, R) ==
    /\ s \in Seq(S) /\ Len(s) = Cardinality(S)
    /\ \A e \in S : \E i \in 1..Len(s) : s[i] = e
    /\ \A i, j \in 1..Len(s) : i < j <=> <<s[i], s[j]>> \in R

LEMMA PlacesList ==
  ASSUME NEW S, IsFiniteSet(S), NEW R, StrictOrder(R, S),
         NEW s, DOMAIN s = 1..Cardinality(S), s = [i \in DOMAIN s |-> s[i]],
         \A i \in 1..Cardinality(S) : s[i] \in S /\ Place(R, S, s[i]) = i
  PROVE  Lists(s, S, R)
<1> DEFINE n == Cardinality(S)
<1>1. n \in Nat
  BY FS_CardinalityType
<1>2. s \in Seq(S) /\ Len(s) = n
  BY <1>1
<1>3. ASSUME NEW e \in S PROVE \E i \in 1..n : s[i] = e
  BY Places
<1>4. ASSUME NEW i \in 1..n, NEW j \in 1..n PROVE i < j <=> <<s[i], s[j]>> \in R
  BY Places
<1>5. QED
  BY <1>2, <1>3, <1>4 DEF Lists

\* There is one such sequence.
LEMMA ListsOnce ==
  ASSUME NEW S, IsFiniteSet(S), NEW R, StrictOrder(R, S), NEW s, NEW t, Lists(s, S, R), Lists(t, S, R)
  PROVE  s = t
<1> DEFINE n == Cardinality(S)
           bad == {i \in 1..n : s[i] # t[i]}
<1>1. n \in Nat /\ Len(s) = n /\ Len(t) = n /\ s \in Seq(S) /\ t \in Seq(S)
  BY FS_CardinalityType DEF Lists
<1>2. ASSUME bad # {} PROVE FALSE
  <2>1. PICK i \in bad : \A j \in bad : i <= j
    <3>1. bad \subseteq Nat
      BY <1>1
    <3> HIDE DEF bad
    <3>2. QED
      BY <1>2, <3>1, LeastExists
  <2>2. i \in 1..n /\ s[i] # t[i] /\ s[i] \in S /\ t[i] \in S /\ \A j \in 1..n : j < i => s[j] = t[j]
    BY <1>1, <2>1
  <2> HIDE DEF bad
  <2>3. PICK j \in 1..n : t[j] = s[i]
    BY <1>1, <2>2 DEF Lists
  <2>4. PICK k \in 1..n : s[k] = t[i]
    BY <1>1, <2>2 DEF Lists
  <2>5. ASSUME NEW a \in 1..n, NEW b \in 1..n
        PROVE  (a < b <=> <<s[a], s[b]>> \in R) /\ (a < b <=> <<t[a], t[b]>> \in R)
    BY <1>1 DEF Lists
  <2>6. j # i /\ k # i
    BY <2>2, <2>3, <2>4
  <2>7. ~(j < i) /\ ~(k < i)
    <3>1. j < i => s[j] = s[i]
      BY <2>2, <2>3
    <3>2. k < i => t[k] = t[i]
      BY <2>2, <2>4
    <3>3. <<s[i], s[i]>> \notin R /\ <<t[i], t[i]>> \notin R
      BY <2>2 DEF StrictOrder
    <3>4. QED
      BY <1>1, <2>2, <2>5, <3>1, <3>2, <3>3
  <2>8. i < j /\ i < k
    BY <1>1, <2>2, <2>6, <2>7
  <2>9. <<t[i], s[i]>> \in R /\ <<s[i], t[i]>> \in R
    BY <2>2, <2>3, <2>4, <2>5, <2>8
  <2>10. QED
    BY <2>2, <2>9 DEF StrictOrder
<1>3. QED
  BY <1>1, <1>2

-----------------------------------------------------------------------------
(* Rows, and their orders.                                                  *)
Event(e) ==
    /\ e.key \in Nat /\ e.opened \in Nat /\ e.expires \in Nat /\ e.settled \in Nat /\ e.dec \in Nat
    /\ e.won \in BOOLEAN /\ e.opened < e.expires /\ e.settled # 0

Rows(S) ==
    /\ IsFiniteSet(S)
    /\ \A e \in S : Event(e)
    /\ \A e, f \in S : e.key = f.key /\ e.opened = f.opened => e = f

CausalOrder(S)     == {p \in S \X S : CausallyBefore(p[1], p[2])}
SettlementOrder(S) == {p \in S \X S : SettledBefore(p[1], p[2])}

\* The rows of a set in causal order.
InOrder(s, S) ==
    /\ s \in Seq(S) /\ Len(s) = Cardinality(S)
    /\ \A e \in S : \E i \in 1..Len(s) : s[i] = e
    /\ \A i, j \in 1..Len(s) : i < j <=> CausallyBefore(s[i], s[j])

LEMMA RowOrders ==
  ASSUME NEW S, Rows(S)
  PROVE  StrictOrder(CausalOrder(S), S) /\ StrictOrder(SettlementOrder(S), S)
<1>1. \A e, f : /\ <<e, f>> \in CausalOrder(S) <=> e \in S /\ f \in S /\ CausallyBefore(e, f)
                /\ <<e, f>> \in SettlementOrder(S) <=> e \in S /\ f \in S /\ SettledBefore(e, f)
  BY DEF CausalOrder, SettlementOrder
<1>2. \A e \in S : e.key \in Nat /\ e.opened \in Nat /\ e.settled \in Nat
  BY DEF Rows, Event
<1>3. ASSUME NEW e \in S PROVE ~CausallyBefore(e, e) /\ ~SettledBefore(e, e)
  BY <1>2 DEF CausallyBefore, SettledBefore, OpenedBefore
<1>4. ASSUME NEW e \in S, NEW f \in S, e # f
      PROVE  /\ CausallyBefore(e, f) \/ CausallyBefore(f, e)
             /\ SettledBefore(e, f) \/ SettledBefore(f, e)
  <2>1. e.key # f.key \/ e.opened # f.opened
    BY <1>4 DEF Rows
  <2>2. QED
    BY <1>2, <2>1 DEF CausallyBefore, SettledBefore, OpenedBefore
<1>5. ASSUME NEW e \in S, NEW f \in S, NEW g \in S
      PROVE  /\ CausallyBefore(e, f) /\ CausallyBefore(f, g) => CausallyBefore(e, g)
             /\ SettledBefore(e, f) /\ SettledBefore(f, g) => SettledBefore(e, g)
  BY <1>2 DEF CausallyBefore, SettledBefore, OpenedBefore
<1>6. QED
  BY <1>1, <1>3, <1>4, <1>5 DEF StrictOrder

LEMMA InOrderIs ==
  ASSUME NEW S, NEW s
  PROVE  InOrder(s, S) <=> Lists(s, S, CausalOrder(S))
<1>1. s \in Seq(S) => \A i \in 1..Len(s) : s[i] \in S
  OBVIOUS
<1>2. \A e, f \in S : <<e, f>> \in CausalOrder(S) <=> CausallyBefore(e, f)
  BY DEF CausalOrder
<1>3. QED
  BY <1>1, <1>2 DEF InOrder, Lists

\* Causal lists the rows in the order of settlement, and then of profiles.
LEMMA CausalSorts ==
  ASSUME NEW S, Rows(S)
  PROVE  Lists(Causal(S), S, CausalOrder(S))
<1> DEFINE R == CausalOrder(S)
           c == Causal(S)
           place(e) == 1 + Cardinality({f \in S : CausallyBefore(f, e)})
<1>1. IsFiniteSet(S) /\ StrictOrder(R, S)
  BY RowOrders DEF Rows
<1>2. \A e \in S : place(e) = Place(R, S, e)
  <2>1. ASSUME NEW e \in S PROVE {f \in S : CausallyBefore(f, e)} = {f \in S : <<f, e>> \in R}
    BY DEF CausalOrder
  <2>2. QED
    BY <2>1, Zenon DEF Place
<1>3. c = [i \in 1..Cardinality(S) |-> CHOOSE e \in S : place(e) = i]
  BY DEF Causal, Sorted
<1> HIDE DEF place, c, R
<1>4. ASSUME NEW i \in 1..Cardinality(S) PROVE c[i] \in S /\ Place(R, S, c[i]) = i
  <2>1. PICK e \in S : Place(R, S, e) = i
    BY <1>1, Places
  <2>2. c[i] \in S /\ place(c[i]) = i
    BY <1>2, <1>3, <2>1
  <2>3. QED
    BY <1>2, <2>2
<1>5. Lists(c, S, R)
  <2>1. DOMAIN c = 1..Cardinality(S) /\ c = [i \in DOMAIN c |-> c[i]]
    BY <1>3
  <2>2. QED
    BY <1>1, <1>4, <2>1, PlacesList
<1>6. QED
  BY <1>5 DEF c, R

\* BySettlement lists the rows in the order of settlement, and then of opening.
LEMMA SettlementSorts ==
  ASSUME NEW S, Rows(S)
  PROVE  Lists(BySettlement(S), S, SettlementOrder(S))
<1> DEFINE R == SettlementOrder(S)
           c == BySettlement(S)
           place(e) == 1 + Cardinality({f \in S : SettledBefore(f, e)})
<1>1. IsFiniteSet(S) /\ StrictOrder(R, S)
  BY RowOrders DEF Rows
<1>2. \A e \in S : place(e) = Place(R, S, e)
  <2>1. ASSUME NEW e \in S PROVE {f \in S : SettledBefore(f, e)} = {f \in S : <<f, e>> \in R}
    BY DEF SettlementOrder
  <2>2. QED
    BY <2>1, Zenon DEF Place
<1>3. c = [i \in 1..Cardinality(S) |-> CHOOSE e \in S : place(e) = i]
  BY DEF BySettlement, Sorted
<1> HIDE DEF place, c, R
<1>4. ASSUME NEW i \in 1..Cardinality(S) PROVE c[i] \in S /\ Place(R, S, c[i]) = i
  <2>1. PICK e \in S : Place(R, S, e) = i
    BY <1>1, Places
  <2>2. c[i] \in S /\ place(c[i]) = i
    BY <1>2, <1>3, <2>1
  <2>3. QED
    BY <1>2, <2>2
<1>5. Lists(c, S, R)
  <2>1. DOMAIN c = 1..Cardinality(S) /\ c = [i \in DOMAIN c |-> c[i]]
    BY <1>3
  <2>2. QED
    BY <1>1, <1>4, <2>1, PlacesList
<1>6. QED
  BY <1>5 DEF c, R

\* Nothing else is in causal order.
LEMMA CausalLists ==
  ASSUME NEW S, Rows(S)
  PROVE  InOrder(Causal(S), S) /\ \A s : InOrder(s, S) => s = Causal(S)
<1>1. IsFiniteSet(S) /\ StrictOrder(CausalOrder(S), S)
  BY RowOrders DEF Rows
<1>2. QED
  BY <1>1, CausalSorts, InOrderIs, ListsOnce

\* Rows of one profile come in the same order by settlement.
OneProfile(S) == Rows(S) /\ \A e, f \in S : e.key = f.key

LEMMA SettlementIsCausal ==
  ASSUME NEW S, OneProfile(S)
  PROVE  BySettlement(S) = Causal(S)
<1>1. ASSUME NEW e \in S, NEW f \in S PROVE SettledBefore(f, e) <=> CausallyBefore(f, e)
  <2>1. /\ f.key = e.key /\ f.key \in Nat /\ f.opened \in Nat /\ f.settled \in Nat
        /\ e.opened \in Nat /\ e.settled \in Nat
    BY DEF OneProfile, Rows, Event
  <2>2. QED
    BY <2>1 DEF SettledBefore, CausallyBefore, OpenedBefore
<1>2. SettlementOrder(S) = CausalOrder(S)
  BY <1>1 DEF SettlementOrder, CausalOrder
<1>3. Rows(S)
  BY DEF OneProfile
<1>4. QED
  BY <1>2, <1>3, SettlementSorts, CausalLists, InOrderIs

-----------------------------------------------------------------------------
(* Folds.  What is folded is one operator, told which of the operations it  *)
(* stands for, so that these lemmas hold of them all.                       *)
Folding(op, of, x, y) ==
    CASE op = "Insert"     -> Insert(x, y)
      [] op = "Retire"     -> Retire(x, y)
      [] op = "ReplayStep" -> ReplayStep(x, y)
      [] op = "BindAgain"  -> BindAgain(x, y)
      [] op = "SettleOne"  -> SettleOne(x, y)
      [] op = "AtEntry"    -> AtEntry(x, y, AdvanceWindow(x.window, y, y.settled + 1))
      [] op = "Traded"     -> Traded(of[1], of[2], y, x)

IsFold(f, n, op, of, base, s) ==
    f = [t \in SUBSET (1..n) |->
            IF t = {} THEN base ELSE Folding(op, of, f[t \ {Max(t)}], s[Max(t)])]

\* A set of numbers up to n has a greatest, which is n when it is not below.
LEMMA MaxUpTo ==
  ASSUME NEW n \in Nat, NEW t, t \subseteq 1..n, t # {}
  PROVE  Max(t) \in t /\ \A i \in t : i <= Max(t)
<1>1. \E x \in t : \A y \in t : y <= x
  <2>1. t \subseteq 0..n
    OBVIOUS
  <2>2. QED
    BY <2>1, GreatestExists
<1>2. QED
  BY <1>1 DEF Max

LEMMA FoldExists ==
  ASSUME NEW n \in Nat, NEW op, NEW of, NEW base, NEW s
  PROVE  \E f : IsFold(f, n, op, of, base, s)
<1> DEFINE bad == {m \in Nat : ~\E f : IsFold(f, m, op, of, base, s)}
<1>1. ASSUME bad # {} PROVE FALSE
  <2>1. PICK m \in bad : \A k \in bad : m <= k
    <3>1. bad \subseteq Nat
      OBVIOUS
    <3> HIDE DEF bad
    <3>2. QED
      BY <1>1, <3>1, LeastExists
  <2>2. m \in Nat /\ ~\E f : IsFold(f, m, op, of, base, s)
    BY <2>1
  <2>3. CASE m = 0
    <3> DEFINE f == [t \in {{}} |-> base]
    <3>1. SUBSET (1..m) = {{}}
      BY <2>3
    <3>2. f = [t \in SUBSET (1..m) |-> IF t = {} THEN base ELSE Folding(op, of, f[t \ {Max(t)}], s[Max(t)])]
      BY <3>1
    <3>3. IsFold(f, m, op, of, base, s)
      BY <3>2 DEF IsFold
    <3>4. QED
      BY <2>2, <3>3
  <2>4. CASE m # 0
    <3>1. m - 1 \in Nat /\ m - 1 \notin bad
      <4>1. m - 1 \in Nat /\ ~(m <= m - 1)
        BY <2>2, <2>4
      <4>2. QED
        BY <2>1, <4>1
    <3>2. PICK g : IsFold(g, m - 1, op, of, base, s)
      BY <3>1
    <3> DEFINE low == SUBSET (1..(m - 1))
               f == [t \in SUBSET (1..m) |->
                        IF t \in low THEN g[t] ELSE Folding(op, of, g[t \ {m}], s[m])]
    <3>3. ASSUME NEW t \in SUBSET (1..m)
          PROVE  f[t] = IF t = {} THEN base ELSE Folding(op, of, f[t \ {Max(t)}], s[Max(t)])
      <4>1. CASE t \in low
        <5>1. f[t] = g[t]
          BY <4>1
        <5>2. g[t] = IF t = {} THEN base ELSE Folding(op, of, g[t \ {Max(t)}], s[Max(t)])
          BY <3>2, <4>1, Zenon DEF IsFold
        <5>3. t \ {Max(t)} \in low /\ t \ {Max(t)} \in SUBSET (1..m)
          BY <4>1
        <5>4. f[t \ {Max(t)}] = g[t \ {Max(t)}]
          BY <5>3
        <5> HIDE DEF f
        <5>5. QED
          BY <5>1, <5>2, <5>4
      <4>2. CASE t \notin low
        <5>1. m \in t /\ t # {}
          BY <2>2, <4>2
        <5>2. Max(t) = m
          <6>1. Max(t) \in t /\ \A i \in t : i <= Max(t)
            BY <2>2, <5>1, MaxUpTo
          <6>2. Max(t) \in 1..m /\ m <= Max(t)
            BY <5>1, <6>1
          <6>3. QED
            BY <2>2, <6>2
        <5>3. t \ {m} \in low /\ t \ {m} \in SUBSET (1..m)
          BY <2>2
        <5>4. f[t \ {m}] = g[t \ {m}] /\ f[t] = Folding(op, of, g[t \ {m}], s[m])
          BY <4>2, <5>3
        <5> HIDE DEF f
        <5>5. QED
          BY <5>1, <5>2, <5>4
      <4>3. QED
        BY <4>1, <4>2
    <3>4. f = [t \in SUBSET (1..m) |-> f[t]]
      OBVIOUS
    <3> HIDE DEF f
    <3>5. IsFold(f, m, op, of, base, s)
      BY <3>3, <3>4 DEF IsFold
    <3>6. QED
      BY <2>2, <3>5
  <2>5. QED
    BY <2>3, <2>4
<1>2. QED
  BY <1>1

\* A fold takes the members of its sequence one after the other.
Steps(b, op, of, base, s) ==
    b[0] = base /\ \A i \in 1..Len(s) : b[i] = Folding(op, of, b[i - 1], s[i])

LEMMA FoldSteps ==
  ASSUME NEW s, Len(s) \in Nat, NEW op, NEW of, NEW base, NEW f, IsFold(f, Len(s), op, of, base, s)
  PROVE  \E b : Steps(b, op, of, base, s) /\ f[1..Len(s)] = b[Len(s)]
<1> DEFINE n == Len(s)
           b == [i \in 0..n |-> f[1..i]]
<1>1. ASSUME NEW i \in 0..n
      PROVE  f[1..i] = IF i = 0 THEN base ELSE Folding(op, of, f[1..(i - 1)], s[i])
  <2>1. f[1..i] = IF 1..i = {} THEN base
                  ELSE Folding(op, of, f[(1..i) \ {Max(1..i)}], s[Max(1..i)])
    <3>1. 1..i \in SUBSET (1..n)
      OBVIOUS
    <3> DEFINE t == 1..i
    <3> HIDE DEF t
    <3>2. f[t] = IF t = {} THEN base ELSE Folding(op, of, f[t \ {Max(t)}], s[Max(t)])
      BY <3>1, Zenon DEF IsFold, t
    <3>3. QED
      BY <3>2 DEF t
  <2>2. i = 0 <=> 1..i = {}
    OBVIOUS
  <2>3. ASSUME i # 0 PROVE Max(1..i) = i /\ (1..i) \ {i} = 1..(i - 1)
    <3>1. Max(1..i) \in 1..i /\ \A j \in 1..i : j <= Max(1..i)
      <4>1. i \in Nat /\ 1 \in 1..i /\ 1..i \subseteq 1..i
        BY <2>3
      <4>2. QED
        BY <4>1, MaxUpTo
    <3>2. QED
      BY <2>3, <3>1
  <2>4. QED
    BY <2>1, <2>2, <2>3
<1>2. b[0] = base
  BY <1>1
<1>3. \A i \in 1..n : b[i] = Folding(op, of, b[i - 1], s[i])
  BY <1>1
<1>4. b[n] = f[1..n]
  OBVIOUS
<1> HIDE DEF b
<1>5. QED
  BY <1>2, <1>3, <1>4 DEF Steps

\* What the folds of this module do, step by step.
LEMMA InsertFold ==
  ASSUME NEW s, Len(s) \in Nat, DOMAIN s = 1..Len(s), NEW base
  PROVE  \E b : /\ b[0] = base /\ \A i \in 1..Len(s) : b[i] = Insert(b[i - 1], s[i])
                /\ FoldLeft(Insert, base, s) = b[Len(s)]
<1> DEFINE f == CHOOSE g : g = [t \in SUBSET DOMAIN s |->
                                  IF t = {} THEN base ELSE Insert(g[t \ {Max(t)}], s[Max(t)])]
<1>1. FoldLeft(Insert, base, s) = f[DOMAIN s]
  BY DEF FoldLeft, MapThenFoldSet
<1>2. PICK h : IsFold(h, Len(s), "Insert", <<>>, base, s)
  BY FoldExists
<1>3. h = [t \in SUBSET DOMAIN s |->
             IF t = {} THEN base ELSE Insert(h[t \ {Max(t)}], s[Max(t)])]
  BY <1>2 DEF IsFold, Folding
<1>4. f = [t \in SUBSET DOMAIN s |->
             IF t = {} THEN base ELSE Insert(f[t \ {Max(t)}], s[Max(t)])]
  BY <1>3, Zenon
<1> HIDE DEF f
<1>5. IsFold(f, Len(s), "Insert", <<>>, base, s)
  BY <1>4 DEF IsFold, Folding
<1>6. PICK b : Steps(b, "Insert", <<>>, base, s) /\ f[1..Len(s)] = b[Len(s)]
  BY <1>5, FoldSteps
<1>7. QED
  BY <1>1, <1>6 DEF Steps, Folding

LEMMA RetireFold ==
  ASSUME NEW s, Len(s) \in Nat, DOMAIN s = 1..Len(s), NEW base
  PROVE  \E b : /\ b[0] = base /\ \A i \in 1..Len(s) : b[i] = Retire(b[i - 1], s[i])
                /\ FoldLeft(Retire, base, s) = b[Len(s)]
<1> DEFINE f == CHOOSE g : g = [t \in SUBSET DOMAIN s |->
                                  IF t = {} THEN base ELSE Retire(g[t \ {Max(t)}], s[Max(t)])]
<1>1. FoldLeft(Retire, base, s) = f[DOMAIN s]
  BY DEF FoldLeft, MapThenFoldSet
<1>2. PICK h : IsFold(h, Len(s), "Retire", <<>>, base, s)
  BY FoldExists
<1>3. h = [t \in SUBSET DOMAIN s |->
             IF t = {} THEN base ELSE Retire(h[t \ {Max(t)}], s[Max(t)])]
  BY <1>2 DEF IsFold, Folding
<1>4. f = [t \in SUBSET DOMAIN s |->
             IF t = {} THEN base ELSE Retire(f[t \ {Max(t)}], s[Max(t)])]
  BY <1>3, Zenon
<1> HIDE DEF f
<1>5. IsFold(f, Len(s), "Retire", <<>>, base, s)
  BY <1>4 DEF IsFold, Folding
<1>6. PICK b : Steps(b, "Retire", <<>>, base, s) /\ f[1..Len(s)] = b[Len(s)]
  BY <1>5, FoldSteps
<1>7. QED
  BY <1>1, <1>6 DEF Steps, Folding

LEMMA ReplayFold ==
  ASSUME NEW s, Len(s) \in Nat, DOMAIN s = 1..Len(s), NEW base
  PROVE  \E b : /\ b[0] = base /\ \A i \in 1..Len(s) : b[i] = ReplayStep(b[i - 1], s[i])
                /\ FoldLeft(ReplayStep, base, s) = b[Len(s)]
<1> DEFINE f == CHOOSE g : g = [t \in SUBSET DOMAIN s |->
                                  IF t = {} THEN base ELSE ReplayStep(g[t \ {Max(t)}], s[Max(t)])]
<1>1. FoldLeft(ReplayStep, base, s) = f[DOMAIN s]
  BY DEF FoldLeft, MapThenFoldSet
<1>2. PICK h : IsFold(h, Len(s), "ReplayStep", <<>>, base, s)
  BY FoldExists
<1>3. h = [t \in SUBSET DOMAIN s |->
             IF t = {} THEN base ELSE ReplayStep(h[t \ {Max(t)}], s[Max(t)])]
  BY <1>2 DEF IsFold, Folding
<1>4. f = [t \in SUBSET DOMAIN s |->
             IF t = {} THEN base ELSE ReplayStep(f[t \ {Max(t)}], s[Max(t)])]
  BY <1>3, Zenon
<1> HIDE DEF f
<1>5. IsFold(f, Len(s), "ReplayStep", <<>>, base, s)
  BY <1>4 DEF IsFold, Folding
<1>6. PICK b : Steps(b, "ReplayStep", <<>>, base, s) /\ f[1..Len(s)] = b[Len(s)]
  BY <1>5, FoldSteps
<1>7. QED
  BY <1>1, <1>6 DEF Steps, Folding

LEMMA BindFold ==
  ASSUME NEW s, Len(s) \in Nat, DOMAIN s = 1..Len(s), NEW base
  PROVE  \E b : /\ b[0] = base /\ \A i \in 1..Len(s) : b[i] = BindAgain(b[i - 1], s[i])
                /\ FoldLeft(BindAgain, base, s) = b[Len(s)]
<1> DEFINE f == CHOOSE g : g = [t \in SUBSET DOMAIN s |->
                                  IF t = {} THEN base ELSE BindAgain(g[t \ {Max(t)}], s[Max(t)])]
<1>1. FoldLeft(BindAgain, base, s) = f[DOMAIN s]
  BY DEF FoldLeft, MapThenFoldSet
<1>2. PICK h : IsFold(h, Len(s), "BindAgain", <<>>, base, s)
  BY FoldExists
<1>3. h = [t \in SUBSET DOMAIN s |->
             IF t = {} THEN base ELSE BindAgain(h[t \ {Max(t)}], s[Max(t)])]
  BY <1>2 DEF IsFold, Folding
<1>4. f = [t \in SUBSET DOMAIN s |->
             IF t = {} THEN base ELSE BindAgain(f[t \ {Max(t)}], s[Max(t)])]
  BY <1>3, Zenon
<1> HIDE DEF f
<1>5. IsFold(f, Len(s), "BindAgain", <<>>, base, s)
  BY <1>4 DEF IsFold, Folding
<1>6. PICK b : Steps(b, "BindAgain", <<>>, base, s) /\ f[1..Len(s)] = b[Len(s)]
  BY <1>5, FoldSteps
<1>7. QED
  BY <1>1, <1>6 DEF Steps, Folding

LEMMA SettleFold ==
  ASSUME NEW s, Len(s) \in Nat, DOMAIN s = 1..Len(s), NEW base
  PROVE  \E b : /\ b[0] = base /\ \A i \in 1..Len(s) : b[i] = SettleOne(b[i - 1], s[i])
                /\ FoldLeft(SettleOne, base, s) = b[Len(s)]
<1> DEFINE f == CHOOSE g : g = [t \in SUBSET DOMAIN s |->
                                  IF t = {} THEN base ELSE SettleOne(g[t \ {Max(t)}], s[Max(t)])]
<1>1. FoldLeft(SettleOne, base, s) = f[DOMAIN s]
  BY DEF FoldLeft, MapThenFoldSet
<1>2. PICK h : IsFold(h, Len(s), "SettleOne", <<>>, base, s)
  BY FoldExists
<1>3. h = [t \in SUBSET DOMAIN s |->
             IF t = {} THEN base ELSE SettleOne(h[t \ {Max(t)}], s[Max(t)])]
  BY <1>2 DEF IsFold, Folding
<1>4. f = [t \in SUBSET DOMAIN s |->
             IF t = {} THEN base ELSE SettleOne(f[t \ {Max(t)}], s[Max(t)])]
  BY <1>3, Zenon
<1> HIDE DEF f
<1>5. IsFold(f, Len(s), "SettleOne", <<>>, base, s)
  BY <1>4 DEF IsFold, Folding
<1>6. PICK b : Steps(b, "SettleOne", <<>>, base, s) /\ f[1..Len(s)] = b[Len(s)]
  BY <1>5, FoldSteps
<1>7. QED
  BY <1>1, <1>6 DEF Steps, Folding

EntriesFrom(base, s) ==
    FoldLeft(LAMBDA line, e : AtEntry(line, e, AdvanceWindow(line.window, e, e.settled + 1)), base, s)

LEMMA EntryFold ==
  ASSUME NEW s, Len(s) \in Nat, DOMAIN s = 1..Len(s), NEW base
  PROVE  \E b : /\ b[0] = base /\ \A i \in 1..Len(s) : b[i] = AtEntry(b[i - 1], s[i], AdvanceWindow(b[i - 1].window, s[i], s[i].settled + 1))
                /\ EntriesFrom(base, s) = b[Len(s)]
<1> DEFINE f == CHOOSE g : g = [t \in SUBSET DOMAIN s |->
                                  IF t = {} THEN base ELSE AtEntry(g[t \ {Max(t)}], s[Max(t)], AdvanceWindow(g[t \ {Max(t)}].window, s[Max(t)], s[Max(t)].settled + 1))]
<1>1. EntriesFrom(base, s) = f[DOMAIN s]
  BY DEF FoldLeft, MapThenFoldSet, EntriesFrom
<1>2. PICK h : IsFold(h, Len(s), "AtEntry", <<>>, base, s)
  BY FoldExists
<1>3. h = [t \in SUBSET DOMAIN s |->
             IF t = {} THEN base ELSE AtEntry(h[t \ {Max(t)}], s[Max(t)], AdvanceWindow(h[t \ {Max(t)}].window, s[Max(t)], s[Max(t)].settled + 1))]
  BY <1>2 DEF IsFold, Folding
<1>4. f = [t \in SUBSET DOMAIN s |->
             IF t = {} THEN base ELSE AtEntry(f[t \ {Max(t)}], s[Max(t)], AdvanceWindow(f[t \ {Max(t)}].window, s[Max(t)], s[Max(t)].settled + 1))]
  BY <1>3, Zenon
<1> HIDE DEF f
<1>5. IsFold(f, Len(s), "AtEntry", <<>>, base, s)
  BY <1>4 DEF IsFold, Folding
<1>6. PICK b : Steps(b, "AtEntry", <<>>, base, s) /\ f[1..Len(s)] = b[Len(s)]
  BY <1>5, FoldSteps
<1>7. QED
  BY <1>1, <1>6 DEF Steps, Folding

TradesFrom(S, line, base, s) == FoldLeft(LAMBDA x, t : Traded(S, line, t, x), base, s)

LEMMA TradedFold ==
  ASSUME NEW S, NEW line, NEW s, Len(s) \in Nat, DOMAIN s = 1..Len(s), NEW base
  PROVE  \E b : Steps(b, "Traded", <<S, line>>, base, s) /\ TradesFrom(S, line, base, s) = b[Len(s)]
<1> DEFINE f == CHOOSE g : g = [t \in SUBSET DOMAIN s |->
                                  IF t = {} THEN base ELSE Traded(S, line, s[Max(t)], g[t \ {Max(t)}])]
<1>1. TradesFrom(S, line, base, s) = f[DOMAIN s]
  BY DEF FoldLeft, MapThenFoldSet, TradesFrom
<1>2. PICK h : IsFold(h, Len(s), "Traded", <<S, line>>, base, s)
  BY FoldExists
<1>3. h = [t \in SUBSET DOMAIN s |->
             IF t = {} THEN base ELSE Traded(S, line, s[Max(t)], h[t \ {Max(t)}])]
  BY <1>2 DEF IsFold, Folding
<1>4. f = [t \in SUBSET DOMAIN s |->
             IF t = {} THEN base ELSE Traded(S, line, s[Max(t)], f[t \ {Max(t)}])]
  BY <1>3, Zenon
<1> HIDE DEF f
<1>5. IsFold(f, Len(s), "Traded", <<S, line>>, base, s)
  BY <1>4 DEF IsFold, Folding
<1>6. \E b : Steps(b, "Traded", <<S, line>>, base, s) /\ f[1..Len(s)] = b[Len(s)]
  BY <1>5, FoldSteps
<1>7. QED
  BY <1>1, <1>6

-----------------------------------------------------------------------------
(* Independent samples: K are those of S when each row of S is one of them  *)
(* unless one of them that opened before it still runs when it opens.       *)
AreIndependent(K, S) ==
    /\ K \subseteq S
    /\ \A e \in S : e \in K <=> \A f \in K : f.opened < e.opened => f.expires <= e.opened

\* What is known of the rows of a profile.
LEMMA ProfileRows ==
  ASSUME NEW S, OneProfile(S)
  PROVE  /\ \A e \in S : e.opened \in Nat /\ e.expires \in Nat /\ e.opened < e.expires
         /\ \A e, f \in S : e.opened = f.opened => e = f
         /\ \A e, f \in S : OpenedBefore(e, f) <=> e.opened < f.opened
<1>1. \A e \in S : Event(e) /\ e.key \in Nat /\ e.opened \in Nat
  BY DEF OneProfile, Rows, Event
<1>2. \A e, f \in S : e.key = f.key
  BY DEF OneProfile
<1>3. \A e, f \in S : OpenedBefore(e, f) <=> e.opened < f.opened
  BY <1>1, <1>2 DEF OpenedBefore
<1>4. QED
  BY <1>1, <1>2, <1>3 DEF OneProfile, Rows, Event

LEMMA SomeOfProfile ==
  ASSUME NEW S, OneProfile(S), NEW T, T \subseteq S
  PROVE  OneProfile(T)
BY FS_Subset DEF OneProfile, Rows

\* There are no others.
LEMMA IndependentOnce ==
  ASSUME NEW S, OneProfile(S), NEW K, AreIndependent(K, S), NEW L, AreIndependent(L, S)
  PROVE  K = L
<1> DEFINE odd == {e \in S : (e \in K) # (e \in L)}
           times == {e.opened : e \in odd}
<1>1. ASSUME odd # {} PROVE FALSE
  <2>1. times \subseteq Nat /\ times # {}
    BY <1>1, ProfileRows
  <2>2. PICK t \in times : \A u \in times : t <= u
    <3> HIDE DEF times
    <3>1. QED
      BY <2>1, LeastExists
  <2>3. PICK e \in odd : e.opened = t
    OBVIOUS
  <2>4. ASSUME NEW f \in S, f.opened < e.opened PROVE f \in K <=> f \in L
    <3>1. f \in odd => f.opened \in times
      OBVIOUS
    <3>2. f \notin odd
      BY <2>2, <2>3, <2>4, <3>1, ProfileRows
    <3>3. QED
      BY <3>2
  <2>5. K \subseteq S /\ L \subseteq S /\ e \in S
    BY <2>3 DEF AreIndependent
  <2>6. e \in K <=> \A f \in S : f \in K /\ f.opened < e.opened => f.expires <= e.opened
    BY <2>5 DEF AreIndependent
  <2>7. e \in L <=> \A f \in S : f \in L /\ f.opened < e.opened => f.expires <= e.opened
    BY <2>5 DEF AreIndependent
  <2>8. QED
    BY <2>3, <2>4, <2>6, <2>7
<1>2. QED
  BY <1>1 DEF AreIndependent

\* Those before a time are those of the rows before it.
LEMMA IndependentBefore ==
  ASSUME NEW S, OneProfile(S), NEW K, AreIndependent(K, S), NEW t \in Nat
  PROVE  AreIndependent({e \in K : e.opened < t}, {e \in S : e.opened < t})
<1>1. \A e \in S : e.opened \in Nat /\ e.expires \in Nat
  BY ProfileRows
<1>2. QED
  BY <1>1 DEF AreIndependent

\* Those from a time on at which none of them runs are those of the rows from it on.
LEMMA IndependentFrom ==
  ASSUME NEW S, OneProfile(S), NEW K, AreIndependent(K, S), NEW t \in Nat,
         \A f \in K : f.opened < t => f.expires <= t
  PROVE  AreIndependent({e \in K : e.opened >= t}, {e \in S : e.opened >= t})
<1>1. \A e \in S : e.opened \in Nat /\ e.expires \in Nat
  BY ProfileRows
<1>2. QED
  BY <1>1 DEF AreIndependent

\* The two together, from the end of the last one before.
LEMMA IndependentJoin ==
  ASSUME NEW S, OneProfile(S), NEW t \in Nat,
         NEW B, AreIndependent(B, {e \in S : e.opened < t}),
         NEW from \in Nat, B = {} => from = t,
         B # {} => \E b \in B : b.expires = from /\ \A f \in B : f.opened <= b.opened,
         NEW N, AreIndependent(N, {e \in S : e.opened >= t /\ e.opened >= from})
  PROVE  AreIndependent(B \cup N, S)
<1>1. \A e \in S : e.opened \in Nat /\ e.expires \in Nat /\ e.opened < e.expires
  BY ProfileRows
<1>2. B \subseteq S /\ N \subseteq S /\ \A f \in B : f.opened < t
  BY DEF AreIndependent
<1>3. \A f \in N : f.opened >= t /\ f.opened >= from
  BY DEF AreIndependent
<1>4. ASSUME NEW f \in B PROVE f.expires <= from
  <2>1. PICK b \in B : b.expires = from /\ \A g \in B : g.opened <= b.opened
    OBVIOUS
  <2>2. f = b \/ f.opened < b.opened
    BY <1>1, <1>2, <2>1, ProfileRows
  <2>3. f.opened < b.opened => f.expires <= b.opened
    BY <2>1 DEF AreIndependent
  <2>4. f \in S /\ b \in S
    BY <1>2, <2>1
  <2>5. QED
    BY <1>1, <2>1, <2>2, <2>3, <2>4
<1>5. ASSUME NEW e \in S, e.opened < t
      PROVE  e \in B \cup N <=> \A f \in B \cup N : f.opened < e.opened => f.expires <= e.opened
  <2>1. e \notin N /\ \A f \in N : ~(f.opened < e.opened)
    BY <1>1, <1>2, <1>3, <1>5
  <2>2. e \in B <=> \A f \in B : f.opened < e.opened => f.expires <= e.opened
    BY <1>5 DEF AreIndependent
  <2>3. QED
    BY <2>1, <2>2
<1>6. ASSUME NEW e \in S, ~(e.opened < t)
      PROVE  e \in B \cup N <=> \A f \in B \cup N : f.opened < e.opened => f.expires <= e.opened
  <2>1. e \notin B /\ \A f \in B : f.opened < e.opened
    BY <1>1, <1>2, <1>6
  <2>2. CASE e.opened >= from
    <3>1. e \in N <=> \A f \in N : f.opened < e.opened => f.expires <= e.opened
      BY <1>1, <1>6, <2>2 DEF AreIndependent
    <3>2. \A f \in B : f.expires <= e.opened
      BY <1>1, <1>2, <1>4, <2>2
    <3>3. QED
      BY <2>1, <3>1, <3>2
  <2>3. CASE ~(e.opened >= from)
    <3>1. B # {}
      BY <1>1, <1>6, <2>3
    <3>2. PICK b \in B : b.expires = from
      BY <3>1
    <3>3. ~(b.expires <= e.opened) /\ b.opened < e.opened
      BY <1>1, <2>1, <2>3, <3>2
    <3>4. e \notin N
      BY <1>3, <2>3
    <3>5. QED
      BY <2>1, <3>3, <3>4
  <2>4. QED
    BY <2>2, <2>3
<1>7. QED
  BY <1>2, <1>5, <1>6 DEF AreIndependent

-----------------------------------------------------------------------------
(* What a list of rows starts with.                                         *)

\* In a list each member is at its place.
LEMMA ListPlaces ==
  ASSUME NEW S, IsFiniteSet(S), NEW R, StrictOrder(R, S), NEW s, Lists(s, S, R)
  PROVE  \A i \in 1..Len(s) : s[i] \in S /\ Place(R, S, s[i]) = i
<1> DEFINE n == Cardinality(S)
           c == [i \in 1..n |-> CHOOSE e \in S : Place(R, S, e) = i]
<1>1. \A i \in 1..n : c[i] \in S /\ Place(R, S, c[i]) = i
  <2> SUFFICES ASSUME NEW i \in 1..n PROVE c[i] \in S /\ Place(R, S, c[i]) = i
    OBVIOUS
  <2>1. \E e \in S : Place(R, S, e) = i
    BY Places
  <2>2. QED
    BY <2>1
<1>2. DOMAIN c = 1..n /\ c = [i \in DOMAIN c |-> c[i]]
  OBVIOUS
<1> HIDE DEF c
<1>3. Lists(c, S, R)
  BY <1>1, <1>2, PlacesList
<1>4. s = c
  BY <1>3, ListsOnce
<1>5. Len(s) = n
  BY DEF Lists
<1>6. QED
  BY <1>1, <1>4, <1>5

\* A part of a set that nothing else comes before, and a list that starts with
\* the list of such a part.
ComesFirst(P, Q, S, R) ==
    P \subseteq S /\ \A e \in P, f \in S : <<f, e>> \in R <=> f \in P /\ <<f, e>> \in Q

StartsWith(s, p, P) ==
    /\ Len(p) \in Nat /\ Len(s) \in Nat /\ Len(p) <= Len(s)
    /\ \A i \in 1..Len(p) : s[i] = p[i]
    /\ \A i \in 1..Len(s) : s[i] \in P <=> i <= Len(p)

LEMMA PrefixLists ==
  ASSUME NEW S, IsFiniteSet(S), NEW R, StrictOrder(R, S), NEW s, Lists(s, S, R),
         NEW P, NEW Q, StrictOrder(Q, P), NEW p, Lists(p, P, Q), ComesFirst(P, Q, S, R)
  PROVE  StartsWith(s, p, P)
<1>0. P \subseteq S /\ \A e \in P, f \in S : <<f, e>> \in R <=> f \in P /\ <<f, e>> \in Q
  BY DEF ComesFirst
<1>1. /\ IsFiniteSet(P) /\ Len(p) = Cardinality(P) /\ Len(s) = Cardinality(S)
      /\ Len(p) \in Nat /\ Len(s) \in Nat /\ Len(p) <= Len(s)
  BY <1>0, FS_Subset, FS_CardinalityType DEF Lists
<1>2. ASSUME NEW e \in P PROVE Place(R, S, e) = Place(Q, P, e)
  <2>1. {f \in S : <<f, e>> \in R} = {f \in P : <<f, e>> \in Q}
    BY <1>0
  <2>2. QED
    BY <2>1 DEF Place
<1>3. ASSUME NEW i \in 1..Len(p) PROVE s[i] = p[i] /\ s[i] \in P
  <2>1. p[i] \in P /\ Place(Q, P, p[i]) = i
    BY <1>1, ListPlaces
  <2>2. p[i] \in S /\ Place(R, S, p[i]) = i
    BY <1>0, <1>2, <2>1
  <2>3. i \in 1..Len(s)
    BY <1>1
  <2>4. s[i] \in S /\ Place(R, S, s[i]) = i
    BY <2>3, ListPlaces
  <2>5. QED
    BY <2>1, <2>2, <2>4, Places
<1>4. ASSUME NEW i \in 1..Len(s), s[i] \in P PROVE i <= Len(p)
  <2>1. Place(R, S, s[i]) = i
    BY ListPlaces
  <2>2. Place(Q, P, s[i]) \in 1..Cardinality(P)
    BY <1>1, <1>4, Places
  <2>3. QED
    BY <1>1, <1>2, <1>4, <2>1, <2>2
<1>5. QED
  BY <1>1, <1>3, <1>4 DEF StartsWith

\* The rows settled before an instant.
Earlier(S, t) == {x \in S : x.settled < t}

LEMMA CausalPrefix ==
  ASSUME NEW S, Rows(S), NEW t \in Nat
  PROVE  LET s == Causal(S)
             p == Causal(Earlier(S, t))
         IN  /\ Len(p) \in Nat /\ Len(s) \in Nat /\ Len(p) <= Len(s)
             /\ \A i \in 1..Len(p) : s[i] = p[i]
             /\ \A i \in 1..Len(s) : s[i] \in S /\ (s[i].settled < t <=> i <= Len(p))
<1> DEFINE P == Earlier(S, t)
<1>1. P \subseteq S /\ Rows(P)
  BY FS_Subset DEF Earlier, Rows
<1>2. /\ IsFiniteSet(S) /\ StrictOrder(CausalOrder(S), S) /\ StrictOrder(CausalOrder(P), P)
      /\ Lists(Causal(S), S, CausalOrder(S)) /\ Lists(Causal(P), P, CausalOrder(P))
  BY <1>1, RowOrders, CausalSorts DEF Rows
<1>3. ASSUME NEW e \in P, NEW f \in S
      PROVE  <<f, e>> \in CausalOrder(S) <=> f \in P /\ <<f, e>> \in CausalOrder(P)
  <2>1. CausallyBefore(f, e) => f.settled < t
    <3>1. e \in S /\ e.settled < t
      BY DEF Earlier
    <3>2. e.settled \in Nat /\ f.settled \in Nat
      BY <3>1 DEF Rows, Event
    <3>3. QED
      BY <3>1, <3>2 DEF CausallyBefore
  <2>2. f.settled < t <=> f \in P
    BY DEF Earlier
  <2>3. QED
    BY <1>1, <2>1, <2>2 DEF CausalOrder
<1>4. \A x \in S : x.settled < t <=> x \in P
  BY DEF Earlier
<1> HIDE DEF P
<1>5. /\ Len(Causal(P)) \in Nat /\ Len(Causal(P)) <= Len(Causal(S))
      /\ \A i \in 1..Len(Causal(P)) : Causal(S)[i] = Causal(P)[i]
      /\ \A i \in 1..Len(Causal(S)) : Causal(S)[i] \in P <=> i <= Len(Causal(P))
  <2>1. ComesFirst(P, CausalOrder(P), S, CausalOrder(S))
    BY <1>1, <1>3 DEF ComesFirst
  <2>2. StartsWith(Causal(S), Causal(P), P)
    BY <1>2, <2>1, PrefixLists
  <2>3. QED
    BY <2>2 DEF StartsWith
<1>6. /\ Len(Causal(S)) \in Nat
      /\ \A i \in 1..Len(Causal(S)) : Causal(S)[i] \in S
  BY <1>2 DEF Lists
<1>7. QED
  BY <1>4, <1>5, <1>6 DEF P

-----------------------------------------------------------------------------
(* The states of a backtest are known from what had settled.                *)
EntryOf(e, w) ==
    [key |-> e.key, opened |-> e.opened, settled |-> e.settled,
     state |-> TrackerOf(w, e.key).state]

\* The windows a list of rows goes through.
Windows(w, s) ==
    /\ w[0] = NewWindow
    /\ \A i \in 1..Len(s) : w[i] = AdvanceWindow(w[i - 1], s[i], s[i].settled + 1)

\* The timeline has an entry for each of them.
LEMMA TimelineIs ==
  ASSUME NEW S, Rows(S)
  PROVE  \E w : /\ Windows(w, Causal(S)) /\ Len(Timeline(S)) = Len(Causal(S))
                /\ \A i \in 1..Len(Causal(S)) : Timeline(S)[i] = EntryOf(Causal(S)[i], w[i])
<1> DEFINE s == Causal(S)
           n == Len(s)
           base == [window |-> NewWindow, entries |-> <<>>]
<1>1. s \in Seq(S) /\ n \in Nat /\ DOMAIN s = 1..n
  BY CausalLists DEF InOrder
<1>2. PICK b : /\ b[0] = base
               /\ \A i \in 1..n : b[i] = AtEntry(b[i - 1], s[i], AdvanceWindow(b[i - 1].window, s[i], s[i].settled + 1))
               /\ EntriesFrom(base, s) = b[n]
  <2> HIDE DEF s, base
  <2>1. QED
    BY <1>1, EntryFold
<1>3. Timeline(S) = b[n].entries
  BY <1>2, Zenon DEF Timeline, EntriesFrom
<1> DEFINE w == [i \in 0..n |-> b[i].window]
           V == {EntryOf(s[i], w[i]) : i \in 1..n}
<1>4. b[0] = [window |-> NewWindow, entries |-> <<>>]
  BY <1>2
<1>5. \A i \in 1..n : b[i] = AtEntry(b[i - 1], s[i], AdvanceWindow(b[i - 1].window, s[i], s[i].settled + 1))
  BY <1>2
<1> HIDE DEF s, n, base
<1>6. \A i \in 0..n : w[i] = b[i].window
  OBVIOUS
<1> HIDE DEF w
<1>7. \A i \in 1..n : EntryOf(s[i], w[i]) \in V
  OBVIOUS
<1> HIDE DEF V
<1>8. w[0] = NewWindow
  BY <1>1, <1>4, <1>6
<1>9. ASSUME NEW i \in 1..n
      PROVE  /\ w[i] = AdvanceWindow(w[i - 1], s[i], s[i].settled + 1)
             /\ b[i].entries = Append(b[i - 1].entries, EntryOf(s[i], w[i]))
  <2>1. i \in 0..n /\ i - 1 \in 0..n
    BY <1>1
  <2>2. w[i] = b[i].window /\ w[i - 1] = b[i - 1].window
    BY <1>6, <2>1
  <2>3. b[i] = AtEntry(b[i - 1], s[i], AdvanceWindow(b[i - 1].window, s[i], s[i].settled + 1))
    BY <1>5
  <2>4. b[i].window = AdvanceWindow(b[i - 1].window, s[i], s[i].settled + 1)
    BY <2>3 DEF AtEntry
  <2>5. b[i].entries = Append(b[i - 1].entries, EntryOf(s[i], b[i].window))
    BY <2>3, <2>4 DEF AtEntry, EntryOf
  <2>6. QED
    BY <2>2, <2>4, <2>5
<1> DEFINE Listed(i) == /\ b[i].entries \in Seq(V) /\ Len(b[i].entries) = i
                        /\ \A j \in 1..i : b[i].entries[j] = EntryOf(s[j], w[j])
           bad == {i \in 0..n : ~Listed(i)}
<1>10. ASSUME bad # {} PROVE FALSE
  <2>1. PICK i \in bad : \A j \in bad : i <= j
    <3>1. bad \subseteq Nat
      BY <1>1
    <3> HIDE DEF bad
    <3>2. QED
      BY <1>10, <3>1, LeastExists
  <2>2. i \in 0..n /\ ~Listed(i)
    BY <2>1
  <2>3. i # 0
    <3>1. Listed(0)
      BY <1>4
    <3>2. QED
      BY <2>2, <3>1
  <2>4. i - 1 \in 0..n /\ i \in 1..n /\ Listed(i - 1)
    <3>1. i - 1 \in 0..n /\ i \in 1..n /\ ~(i <= i - 1)
      BY <1>1, <2>2, <2>3
    <3>2. QED
      BY <2>1, <3>1
  <2>5. Listed(i)
    <3> DEFINE q == b[i - 1].entries
               x == EntryOf(s[i], w[i])
    <3>1. q \in Seq(V) /\ Len(q) = i - 1 /\ \A j \in 1..(i - 1) : q[j] = EntryOf(s[j], w[j])
      BY <2>4
    <3>2. x \in V /\ b[i].entries = Append(q, x)
      BY <1>7, <1>9, <2>4
    <3> HIDE DEF q
    <3>3. /\ Append(q, x) \in Seq(V) /\ Len(Append(q, x)) = Len(q) + 1
          /\ \A j \in 1..Len(q) : Append(q, x)[j] = q[j]
          /\ Append(q, x)[Len(q) + 1] = x
      BY <3>1, <3>2, AppendPlaces
    <3>4. \A j \in 1..i : Append(q, x)[j] = EntryOf(s[j], w[j])
      BY <1>1, <2>4, <3>1, <3>3
    <3>5. QED
      BY <1>1, <2>4, <3>1, <3>2, <3>3, <3>4
  <2>6. QED
    BY <2>2, <2>5
<1>11. Listed(n)
  BY <1>1, <1>10
<1>12. Windows(w, s)
  BY <1>8, <1>9 DEF Windows, n
<1>13. QED
  BY <1>3, <1>11, <1>12 DEF s, n

\* Its entries of what had settled by an instant are those of that alone.
LEMMA TimelinePrefix ==
  ASSUME NEW S, Rows(S), NEW t \in Nat
  PROVE  LET P == Earlier(S, t)
         IN  /\ Len(Timeline(P)) \in Nat /\ Len(Timeline(S)) \in Nat
             /\ Len(Timeline(P)) <= Len(Timeline(S))
             /\ \A i \in 1..Len(Timeline(P)) : Timeline(S)[i] = Timeline(P)[i]
             /\ \A i \in 1..Len(Timeline(S)) : Timeline(S)[i].settled < t <=> i <= Len(Timeline(P))
<1> DEFINE P == Earlier(S, t)
           s == Causal(S)
           p == Causal(P)
           m == Len(p)
<1>1. Rows(P)
  BY FS_Subset DEF Earlier, Rows
<1>2. PICK w : /\ Windows(w, s) /\ Len(Timeline(S)) = Len(s)
               /\ \A i \in 1..Len(s) : Timeline(S)[i] = EntryOf(s[i], w[i])
  BY TimelineIs
<1>3. PICK v : /\ Windows(v, p) /\ Len(Timeline(P)) = Len(p)
               /\ \A i \in 1..Len(p) : Timeline(P)[i] = EntryOf(p[i], v[i])
  BY <1>1, TimelineIs
<1>4. /\ m \in Nat /\ Len(s) \in Nat /\ m <= Len(s)
      /\ \A i \in 1..m : s[i] = p[i]
      /\ \A i \in 1..Len(s) : s[i].settled < t <=> i <= m
  BY CausalPrefix
<1> HIDE DEF P, s, p
<1> DEFINE bad == {i \in 0..m : w[i] # v[i]}
<1>5. ASSUME bad # {} PROVE FALSE
  <2>1. PICK i \in bad : \A j \in bad : i <= j
    <3>1. bad \subseteq Nat
      BY <1>4
    <3> HIDE DEF bad
    <3>2. QED
      BY <1>5, <3>1, LeastExists
  <2>2. i \in 0..m /\ w[i] # v[i]
    BY <2>1
  <2>3. i # 0
    BY <1>2, <1>3, <2>2 DEF Windows
  <2>4. i - 1 \in 0..m /\ i \in 1..m /\ i \in 1..Len(s) /\ w[i - 1] = v[i - 1]
    <3>1. i - 1 \in 0..m /\ i \in 1..m /\ i \in 1..Len(s) /\ ~(i <= i - 1)
      BY <1>4, <2>2, <2>3
    <3>2. QED
      BY <2>1, <3>1
  <2>5. QED
    BY <1>2, <1>3, <1>4, <2>2, <2>4 DEF Windows
<1>6. \A i \in 1..m : w[i] = v[i]
  BY <1>4, <1>5
<1>7. \A i \in 1..m : Timeline(S)[i] = Timeline(P)[i]
  <2> SUFFICES ASSUME NEW i \in 1..m PROVE Timeline(S)[i] = Timeline(P)[i]
    OBVIOUS
  <2>1. i \in 1..Len(s)
    BY <1>4
  <2>2. QED
    BY <1>2, <1>3, <1>4, <1>6, <2>1
<1>8. \A i \in 1..Len(s) : Timeline(S)[i].settled = s[i].settled
  <2>1. \A i \in 1..Len(s) : EntryOf(s[i], w[i]).settled = s[i].settled
    BY DEF EntryOf
  <2>2. QED
    BY <1>2, <2>1
<1>9. QED
  BY <1>2, <1>3, <1>4, <1>7, <1>8 DEF P

\* So is the state of a profile before an instant.
LEMMA StateKnown ==
  ASSUME NEW S, Rows(S), NEW t \in Nat, NEW k
  PROVE  StateBefore(Timeline(S), k, t) = StateBefore(Timeline(Earlier(S, t)), k, t)
<1> DEFINE a == Timeline(S)
           c == Timeline(Earlier(S, t))
           inA == {i \in 1..Len(a) : a[i].key = k /\ a[i].settled < t}
           inC == {i \in 1..Len(c) : c[i].key = k /\ c[i].settled < t}
<1>1. /\ Len(c) \in Nat /\ Len(a) \in Nat /\ Len(c) <= Len(a)
      /\ \A i \in 1..Len(c) : a[i] = c[i]
      /\ \A i \in 1..Len(a) : a[i].settled < t <=> i <= Len(c)
  BY TimelinePrefix
<1> HIDE DEF a, c
<1>2. inA = inC
  BY <1>1
<1>3. inC # {} => Max(inC) \in inC
  <2> SUFFICES ASSUME inC # {} PROVE Max(inC) \in inC
    OBVIOUS
  <2>1. inC \subseteq 1..Len(c)
    OBVIOUS
  <2> HIDE DEF inC
  <2>2. QED
    BY <1>1, <2>1, MaxUpTo
<1>4. inC # {} => a[Max(inC)] = c[Max(inC)]
  BY <1>1, <1>3
<1>5. StateBefore(a, k, t) = IF inA = {} THEN Empty ELSE a[Max(inA)].state
  BY DEF StateBefore
<1>6. StateBefore(c, k, t) = IF inC = {} THEN Empty ELSE c[Max(inC)].state
  BY DEF StateBefore
<1> HIDE DEF inA, inC
<1>7. QED
  BY <1>2, <1>4, <1>5, <1>6 DEF a, c

-----------------------------------------------------------------------------
(* Two books that tell one row from another: o stands for e.                *)
IsBook(b) == b = [trades |-> b.trades, open |-> b.open, losses |-> b.losses]

Twin(e, o, x)  == IF x = e THEN o ELSE x
Twins(e, o, A) == {Twin(e, o, x) : x \in A}

Alike(b, c, S, e, o) ==
    /\ IsBook(b) /\ IsBook(c) /\ b.open \subseteq S /\ b.trades \subseteq S
    /\ c.open = Twins(e, o, b.open) /\ c.trades = Twins(e, o, b.trades)
    /\ c.losses = b.losses

\* A settlement closes an order and counts its loss; the orders made stay.
LEMMA SettleOneIs ==
  ASSUME NEW b, IsBook(b), NEW x
  PROVE  LET c == SettleOne(b, x)
         IN  /\ IsBook(c) /\ c.trades = b.trades /\ c.open = b.open \ {x}
             /\ c.losses = (<<Date(x.settled), x.key>> :>
                              IF x.won THEN 0 ELSE LossesOf(b, x.key, Date(x.settled)) + 1) @@ b.losses
<1> DEFINE l == (<<Date(x.settled), x.key>> :>
                    IF x.won THEN 0 ELSE LossesOf(b, x.key, Date(x.settled)) + 1) @@ b.losses
<1>1. SettleOne(b, x) = [b EXCEPT !.open = @ \ {x}, !.losses = l]
  BY DEF SettleOne
<1> HIDE DEF l
<1>2. b = [trades |-> b.trades, open |-> b.open, losses |-> b.losses]
  BY DEF IsBook
<1>3. SettleOne(b, x) = [trades |-> b.trades, open |-> b.open \ {x}, losses |-> l]
  BY <1>1, <1>2
<1>4. QED
  BY <1>3 DEF IsBook, l

\* The orders that are due, as a list.
LEMMA DueList ==
  ASSUME NEW S, Rows(S), NEW A, A \subseteq S, NEW t
  PROVE  LET D == {x \in A : x.settled <= t}
             s == BySettlement(D)
         IN  Len(s) \in Nat /\ DOMAIN s = 1..Len(s) /\ \A i \in 1..Len(s) : s[i] \in D
<1> DEFINE D == {x \in A : x.settled <= t}
<1>1. D \subseteq S
  OBVIOUS
<1> HIDE DEF D
<1>2. Rows(D)
  BY <1>1, FS_Subset DEF Rows
<1>3. Lists(BySettlement(D), D, SettlementOrder(D))
  BY <1>2, SettlementSorts
<1>4. Len(BySettlement(D)) \in Nat /\ DOMAIN BySettlement(D) = 1..Len(BySettlement(D))
  BY <1>3 DEF Lists
<1>5. \A i \in 1..Len(BySettlement(D)) : BySettlement(D)[i] \in D
  BY <1>3 DEF Lists
<1>6. QED
  BY <1>4, <1>5 DEF D

LEMMA SettleKeeps ==
  ASSUME NEW S, Rows(S), NEW b, IsBook(b), b.open \subseteq S, NEW t
  PROVE  LET c == SettleDue(b, t)
         IN  IsBook(c) /\ c.trades = b.trades /\ c.open \subseteq b.open
<1> DEFINE s == BySettlement({x \in b.open : x.settled <= t})
<1>1. Len(s) \in Nat /\ DOMAIN s = 1..Len(s)
  BY DueList
<1>2. SettleDue(b, t) = FoldLeft(SettleOne, b, s)
  BY DEF SettleDue
<1> HIDE DEF s
<1>3. PICK f : /\ f[0] = b /\ \A i \in 1..Len(s) : f[i] = SettleOne(f[i - 1], s[i])
               /\ FoldLeft(SettleOne, b, s) = f[Len(s)]
  BY <1>1, SettleFold
<1> DEFINE Good(i) == IsBook(f[i]) /\ f[i].trades = b.trades /\ f[i].open \subseteq b.open
           bad == {i \in 0..Len(s) : ~Good(i)}
<1>4. ASSUME bad # {} PROVE FALSE
  <2>1. PICK i \in bad : \A j \in bad : i <= j
    <3>1. bad \subseteq Nat
      BY <1>1
    <3> HIDE DEF bad
    <3>2. QED
      BY <1>4, <3>1, LeastExists
  <2>2. i \in 0..Len(s) /\ ~Good(i)
    BY <2>1
  <2>3. i # 0
    BY <1>3, <2>2
  <2>4. i - 1 \in 0..Len(s) /\ i \in 1..Len(s) /\ Good(i - 1)
    <3>1. i - 1 \in 0..Len(s) /\ i \in 1..Len(s) /\ ~(i <= i - 1)
      BY <1>1, <2>2, <2>3
    <3>2. QED
      BY <2>1, <3>1
  <2>5. f[i] = SettleOne(f[i - 1], s[i])
    BY <1>3, <2>4
  <2>6. Good(i)
    <3> DEFINE p == f[i - 1]
               x == s[i]
    <3>1. IsBook(p) /\ p.trades = b.trades /\ p.open \subseteq b.open /\ f[i] = SettleOne(p, x)
      BY <2>4, <2>5
    <3> HIDE DEF p, x
    <3>2. LET c == SettleOne(p, x) IN IsBook(c) /\ c.trades = p.trades /\ c.open = p.open \ {x}
      BY <3>1, SettleOneIs, Zenon
    <3>3. QED
      BY <3>1, <3>2
  <2>7. QED
    BY <2>2, <2>6
<1>5. Good(Len(s))
  BY <1>1, <1>4
<1>6. QED
  BY <1>2, <1>3, <1>5

\* While e has not settled the same orders are due in both.
LEMMA SettleAlike ==
  ASSUME NEW S, Rows(S), NEW b, NEW c, NEW e, NEW o, Alike(b, c, S, e, o),
         NEW t, ~(e.settled <= t), ~(o.settled <= t)
  PROVE  Alike(SettleDue(b, t), SettleDue(c, t), S, e, o)
<1> DEFINE D == {x \in b.open : x.settled <= t}
           s == BySettlement(D)
<1>1. D = {x \in c.open : x.settled <= t}
  <2>1. ASSUME NEW x, x.settled <= t PROVE x \in b.open <=> x \in c.open
    <3>1. c.open = {Twin(e, o, y) : y \in b.open}
      BY DEF Alike, Twins
    <3>2. x # e /\ x # o
      BY <2>1
    <3>3. \A y : Twin(e, o, y) = x <=> y = x
      BY <3>2 DEF Twin
    <3>4. QED
      BY <3>1, <3>3
  <2>2. QED
    BY <2>1
<1>2. Len(s) \in Nat /\ DOMAIN s = 1..Len(s) /\ \A i \in 1..Len(s) : s[i] \in D
  <2>1. b.open \subseteq S
    BY DEF Alike
  <2>2. QED
    BY <2>1, DueList
<1>3. SettleDue(b, t) = FoldLeft(SettleOne, b, s) /\ SettleDue(c, t) = FoldLeft(SettleOne, c, s)
  BY <1>1 DEF SettleDue
<1>4. \A i \in 1..Len(s) : s[i] # e /\ s[i] # o
  BY <1>2
<1> HIDE DEF D, s
<1>5. PICK f : /\ f[0] = b /\ \A i \in 1..Len(s) : f[i] = SettleOne(f[i - 1], s[i])
               /\ FoldLeft(SettleOne, b, s) = f[Len(s)]
  BY <1>2, SettleFold
<1>6. PICK g : /\ g[0] = c /\ \A i \in 1..Len(s) : g[i] = SettleOne(g[i - 1], s[i])
               /\ FoldLeft(SettleOne, c, s) = g[Len(s)]
  BY <1>2, SettleFold
<1> DEFINE Good(i) == Alike(f[i], g[i], S, e, o)
           bad == {i \in 0..Len(s) : ~Good(i)}
<1>7. ASSUME bad # {} PROVE FALSE
  <2>1. PICK i \in bad : \A j \in bad : i <= j
    <3>1. bad \subseteq Nat
      BY <1>2
    <3> HIDE DEF bad
    <3>2. QED
      BY <1>7, <3>1, LeastExists
  <2>2. i \in 0..Len(s) /\ ~Good(i)
    BY <2>1
  <2>3. i # 0
    BY <1>5, <1>6, <2>2
  <2>4. i - 1 \in 0..Len(s) /\ i \in 1..Len(s) /\ Good(i - 1)
    <3>1. i - 1 \in 0..Len(s) /\ i \in 1..Len(s) /\ ~(i <= i - 1)
      BY <1>2, <2>2, <2>3
    <3>2. QED
      BY <2>1, <3>1
  <2>5. f[i] = SettleOne(f[i - 1], s[i]) /\ g[i] = SettleOne(g[i - 1], s[i])
    BY <1>5, <1>6, <2>4
  <2> DEFINE x == s[i]
             p == f[i - 1]
             q == g[i - 1]
  <2>6. x # e /\ x # o
    BY <1>4, <2>4
  <2>7. Alike(p, q, S, e, o)
    BY <2>4
  <2>8. f[i] = SettleOne(p, x) /\ g[i] = SettleOne(q, x)
    BY <2>5
  <2> HIDE DEF x, p, q
  <2>9. LossesOf(q, x.key, Date(x.settled)) = LossesOf(p, x.key, Date(x.settled))
    BY <2>7 DEF LossesOf, Alike
  <2>10. q.open \ {x} = Twins(e, o, p.open \ {x})
    <3>1. \A y : Twin(e, o, y) = x <=> y = x
      BY <2>6 DEF Twin
    <3>2. q.open = Twins(e, o, p.open)
      BY <2>7 DEF Alike
    <3>3. QED
      BY <3>1, <3>2 DEF Twins
  <2>11. IsBook(p) /\ IsBook(q)
    BY <2>7 DEF Alike
  <2>12. /\ IsBook(f[i]) /\ IsBook(g[i]) /\ f[i].trades = p.trades /\ g[i].trades = q.trades
         /\ f[i].open = p.open \ {x} /\ g[i].open = q.open \ {x}
         /\ f[i].losses = (<<Date(x.settled), x.key>> :>
                              IF x.won THEN 0 ELSE LossesOf(p, x.key, Date(x.settled)) + 1) @@ p.losses
         /\ g[i].losses = (<<Date(x.settled), x.key>> :>
                              IF x.won THEN 0 ELSE LossesOf(q, x.key, Date(x.settled)) + 1) @@ q.losses
    BY <2>8, <2>11, SettleOneIs
  <2>13. g[i].losses = f[i].losses
    BY <2>7, <2>9, <2>12 DEF Alike
  <2>14. Good(i)
    BY <2>7, <2>10, <2>12, <2>13 DEF Alike
  <2>15. QED
    BY <2>2, <2>14
<1>8. Good(Len(s))
  BY <1>2, <1>7
<1>9. QED
  BY <1>3, <1>5, <1>6, <1>8

-----------------------------------------------------------------------------
(* One group of two backtests that know the same.                           *)

\* o stands for e in everything a group tells of it.
StandsFor(o, e) == o.key = e.key /\ o.opened = e.opened /\ o.ord = e.ord

LEMMA TwinTells ==
  ASSUME NEW e, NEW o, StandsFor(o, e), NEW x
  PROVE  LET y == Twin(e, o, x) IN y.key = x.key /\ y.opened = x.opened /\ y.ord = x.ord
BY DEF Twin, StandsFor

\* A count does not tell the twins from each other.
LEMMA TwinsCount ==
  ASSUME NEW e, NEW o, NEW A, IsFiniteSet(A), o = e \/ o \notin A
  PROVE  Cardinality(Twins(e, o, A)) = Cardinality(A)
<1> DEFINE f == [x \in A |-> Twin(e, o, x)]
           B == Twins(e, o, A)
<1>1. \A x \in A : f[x] = Twin(e, o, x) /\ f[x] \in B
  BY DEF Twins
<1>2. \A y \in B : \E x \in A : f[x] = y
  BY DEF Twins
<1>3. \A x, y \in A : Twin(e, o, x) = Twin(e, o, y) => x = y
  BY DEF Twin
<1>4. f \in [A -> B]
  BY <1>1
<1> HIDE DEF f, B
<1>5. f \in Bijection(A, B)
  BY <1>1, <1>2, <1>3, <1>4 DEF Bijection, Injection, IsInjective, Surjection
<1>6. Cardinality(A) = Cardinality(B)
  BY <1>5, FS_Bijection DEF ExistsBijection
<1>7. QED
  BY <1>6 DEF B

LEMMA ChosenOfGroup ==
  ASSUME NEW G, NEW snapshot, NEW line, NEW b, NEW t, policy \in {"BASELINE", "ADAPTIVE", "ADMISSION"}
  PROVE  Chosen(G, snapshot, line, b, t) \subseteq G
<1> DEFINE offer  == SelectAdmitted(Contexts(G, snapshot, line, b, t))
           listed == {e.key : e \in G} \cap DOMAIN snapshot.places
           first  == CHOOSE k \in listed : \A j \in listed : RankIn(snapshot, k) <= RankIn(snapshot, j)
           status == StateBefore(line, first, t).status
           second == \E o \in b.open : Direction(o.key) = Direction(first)
<1>1. Chosen(G, snapshot, line, b, t) =
        CASE policy = "ADMISSION" -> {e \in G : offer # <<>> /\ e.key = offer[1].key}
          [] policy = "BASELINE" -> {e \in G : listed # {} /\ e.key = first}
          [] policy = "ADAPTIVE" ->
               {e \in G : /\ listed # {} /\ e.key = first
                          /\ status # "PAUSED"
                          /\ status = "WATCH" => ~second}
  BY Zenon DEF Chosen
<1> HIDE DEF offer, listed, first, status, second
<1>2. QED
  BY <1>1

LEMMA ChosenAlike ==
  ASSUME NEW S, NEW b, NEW c, NEW e, NEW o, StandsFor(o, e), Alike(b, c, S, e, o),
         policy \in {"BASELINE", "ADAPTIVE", "ADMISSION"},
         NEW G, NEW snapshot, NEW line, NEW other, NEW t,
         \A k : StateBefore(line, k, t) = StateBefore(other, k, t)
  PROVE  Chosen(Twins(e, o, G), snapshot, other, c, t) = Twins(e, o, Chosen(G, snapshot, line, b, t))
<1> DEFINE offerB  == SelectAdmitted(Contexts(G, snapshot, line, b, t))
           listedB == {x.key : x \in G} \cap DOMAIN snapshot.places
           firstB  == CHOOSE k \in listedB : \A j \in listedB : RankIn(snapshot, k) <= RankIn(snapshot, j)
           statusB == StateBefore(line, firstB, t).status
           secondB == \E x \in b.open : Direction(x.key) = Direction(firstB)
           H == Twins(e, o, G)
           offerC  == SelectAdmitted(Contexts(H, snapshot, other, c, t))
           listedC == {x.key : x \in H} \cap DOMAIN snapshot.places
           firstC  == CHOOSE k \in listedC : \A j \in listedC : RankIn(snapshot, k) <= RankIn(snapshot, j)
           statusC == StateBefore(other, firstC, t).status
           secondC == \E x \in c.open : Direction(x.key) = Direction(firstC)
<1>1. Chosen(G, snapshot, line, b, t) =
        CASE policy = "ADMISSION" -> {x \in G : offerB # <<>> /\ x.key = offerB[1].key}
          [] policy = "BASELINE" -> {x \in G : listedB # {} /\ x.key = firstB}
          [] policy = "ADAPTIVE" ->
               {x \in G : /\ listedB # {} /\ x.key = firstB
                          /\ statusB # "PAUSED"
                          /\ statusB = "WATCH" => ~secondB}
  BY Zenon DEF Chosen
<1>2. Chosen(H, snapshot, other, c, t) =
        CASE policy = "ADMISSION" -> {x \in H : offerC # <<>> /\ x.key = offerC[1].key}
          [] policy = "BASELINE" -> {x \in H : listedC # {} /\ x.key = firstC}
          [] policy = "ADAPTIVE" ->
               {x \in H : /\ listedC # {} /\ x.key = firstC
                          /\ statusC # "PAUSED"
                          /\ statusC = "WATCH" => ~secondC}
  BY Zenon DEF Chosen
<1>3. \A x : Twin(e, o, x).key = x.key /\ Twin(e, o, x).ord = x.ord
  BY TwinTells
<1>4. listedC = listedB
  BY <1>3 DEF Twins
<1>5. \A k : (\E x \in c.open : Direction(x.key) = Direction(k)) <=> \E x \in b.open : Direction(x.key) = Direction(k)
  <2>1. c.open = {Twin(e, o, x) : x \in b.open}
    BY DEF Alike, Twins
  <2>2. QED
    BY <1>3, <2>1
<1>6. Contexts(H, snapshot, other, c, t) = Contexts(G, snapshot, line, b, t)
  <2> DEFINE cb(x) == Context(snapshot, x.key, x.ord = 0,
                              \E y \in b.open : Direction(y.key) = Direction(x.key),
                              StateBefore(line, x.key, t))
             cc(x) == Context(snapshot, x.key, x.ord = 0,
                              \E y \in c.open : Direction(y.key) = Direction(x.key),
                              StateBefore(other, x.key, t))
  <2>1. Contexts(H, snapshot, other, c, t) = {cc(x) : x \in H} /\ Contexts(G, snapshot, line, b, t) = {cb(x) : x \in G}
    BY Zenon DEF Contexts
  <2>2. \A x : cc(Twin(e, o, x)) = cb(x)
    <3> SUFFICES ASSUME NEW x PROVE cc(Twin(e, o, x)) = cb(x)
      OBVIOUS
    <3> DEFINE y == Twin(e, o, x)
    <3>1. y.key = x.key /\ y.ord = x.ord
      BY <1>3
    <3> HIDE DEF y
    <3>2. (\E z \in c.open : Direction(z.key) = Direction(y.key)) = (\E z \in b.open : Direction(z.key) = Direction(x.key))
      BY <1>5, <3>1
    <3>3. (y.ord = 0) = (x.ord = 0) /\ StateBefore(other, y.key, t) = StateBefore(line, x.key, t)
      BY <3>1
    <3>4. cc(y) = cb(x)
      BY <3>1, <3>2, <3>3, Zenon
    <3>5. QED
      BY <3>4 DEF y
  <2> HIDE DEF cb, cc
  <2>3. QED
    BY <2>1, <2>2 DEF Twins
<1>7. offerC = offerB
  BY <1>6
<1> HIDE DEF listedB, listedC
<1>8. firstC = firstB
  BY <1>4
<1> HIDE DEF offerB, offerC, firstB, firstC
<1>9. statusC = statusB /\ (secondC <=> secondB)
  BY <1>5, <1>8
<1> HIDE DEF statusB, statusC, secondB, secondC
<1>10. CASE policy = "ADMISSION"
  <2>1. /\ Chosen(G, snapshot, line, b, t) = {x \in G : offerB # <<>> /\ x.key = offerB[1].key}
        /\ Chosen(H, snapshot, other, c, t) = {x \in H : offerB # <<>> /\ x.key = offerB[1].key}
    BY <1>1, <1>2, <1>7, <1>10
  <2>2. QED
    BY <1>3, <2>1 DEF Twins
<1>11. CASE policy = "BASELINE"
  <2>1. /\ Chosen(G, snapshot, line, b, t) = {x \in G : listedB # {} /\ x.key = firstB}
        /\ Chosen(H, snapshot, other, c, t) = {x \in H : listedB # {} /\ x.key = firstB}
    BY <1>1, <1>2, <1>4, <1>8, <1>11
  <2>2. QED
    BY <1>3, <2>1 DEF Twins
<1>12. CASE policy = "ADAPTIVE"
  <2>1. /\ Chosen(G, snapshot, line, b, t) =
             {x \in G : /\ listedB # {} /\ x.key = firstB /\ statusB # "PAUSED"
                        /\ statusB = "WATCH" => ~secondB}
        /\ Chosen(H, snapshot, other, c, t) =
             {x \in H : /\ listedB # {} /\ x.key = firstB /\ statusB # "PAUSED"
                        /\ statusB = "WATCH" => ~secondB}
    BY <1>1, <1>2, <1>4, <1>8, <1>9, <1>12
  <2>2. QED
    BY <1>3, <2>1 DEF Twins
<1>13. QED
  BY <1>10, <1>11, <1>12

\* The day in force has begun, and what its schedule is made from is settled.
LEMMA DayInForce ==
  ASSUME NEW t \in Nat
  PROVE  LET d == Max({0} \cup {x \in 1..Day(t) : EffectiveFrom(x) <= t})
         IN  d \in Nat /\ \A x \in 1..d : LookbackEnd(x) <= t
<1> DEFINE D == {0} \cup {x \in 1..Day(t) : EffectiveFrom(x) <= t}
           d == Max(D)
<1>1. Day(t) \in Nat /\ DayLength \in Nat /\ Activation \in Nat
  BY DayFacts, DailyAssumption
<1>2. d \in D
  <2>1. D \in SUBSET (0..Day(t)) /\ D # {}
    BY <1>1
  <2> HIDE DEF D
  <2>2. QED
    BY <1>1, <2>1, MaxOf
<1>3. d \in Nat /\ (d = 0 \/ EffectiveFrom(d) <= t)
  BY <1>1, <1>2
<1> HIDE DEF d, D
<1>4. ASSUME NEW x \in 1..d PROVE LookbackEnd(x) <= t
  <2>1. PICK i \in Nat : d = x + i
    <3>1. d - x \in Nat /\ d = x + (d - x)
      BY <1>3
    <3>2. QED
      BY <3>1
  <2>2. d * DayLength = x * DayLength + i * DayLength /\ i * DayLength \in Nat /\ x * DayLength \in Nat
    BY <1>1, <1>3, <2>1
  <2>3. EffectiveFrom(d) = x * DayLength + i * DayLength + Activation
    BY <2>2 DEF EffectiveFrom, LookbackEnd
  <2>4. QED
    BY <1>1, <1>3, <2>2, <2>3, t \in Nat DEF LookbackEnd
<1>5. QED
  BY <1>3, <1>4 DEF d, D

\* The same rows known, the same schedule.
LEMMA ScheduleKnown ==
  ASSUME NEW S, NEW R, NEW last \in Nat, NEW max,
         \A d \in 1..last : KnownBefore(S, d) = KnownBefore(R, d)
  PROVE  Scheduled(S, last, max) = Scheduled(R, last, max)
<1>1. PICK f : /\ Scheduled(S, last, max) = f[last] /\ f[0] = None
               /\ \A d \in 1..last : f[d] = Build(KnownBefore(S, d), d, f[d - 1], max)
  BY ScheduledIs
<1>2. PICK g : /\ Scheduled(R, last, max) = g[last] /\ g[0] = None
               /\ \A d \in 1..last : g[d] = Build(KnownBefore(R, d), d, g[d - 1], max)
  BY ScheduledIs
<1> DEFINE bad == {i \in 0..last : f[i] # g[i]}
<1>3. ASSUME bad # {} PROVE FALSE
  <2>1. PICK i \in bad : \A j \in bad : i <= j
    <3>1. bad \subseteq Nat
      OBVIOUS
    <3> HIDE DEF bad
    <3>2. QED
      BY <1>3, <3>1, LeastExists
  <2>2. i \in 0..last /\ f[i] # g[i]
    BY <2>1
  <2>3. i # 0
    BY <1>1, <1>2, <2>2
  <2>4. i - 1 \in 0..last /\ i \in 1..last /\ f[i - 1] = g[i - 1]
    <3>1. i - 1 \in 0..last /\ i \in 1..last /\ ~(i <= i - 1)
      BY <2>2, <2>3
    <3>2. QED
      BY <2>1, <3>1
  <2>5. QED
    BY <1>1, <1>2, <2>2, <2>4
<1>4. f[last] = g[last]
  BY <1>3
<1>5. QED
  BY <1>1, <1>2, <1>4

LEMMA TradingIs ==
  ASSUME NEW b, IsBook(b), NEW taken
  PROVE  Trading(b, taken) = [trades |-> b.trades \cup taken, open |-> b.open \cup taken, losses |-> b.losses]
<1>1. b = [trades |-> b.trades, open |-> b.open, losses |-> b.losses]
  BY DEF IsBook
<1>2. Trading(b, taken) = [b EXCEPT !.trades = b.trades \cup taken, !.open = b.open \cup taken]
  BY DEF Trading
<1>3. QED
  BY <1>1, <1>2

\* What a group does to a book.
LEMMA TradedKeeps ==
  ASSUME NEW S, Rows(S), NEW b, IsBook(b), b.open \subseteq S, b.trades \subseteq S,
         NEW line, NEW t, policy \in {"BASELINE", "ADAPTIVE", "ADMISSION"}
  PROVE  LET c == Traded(S, line, t, b)
         IN  /\ IsBook(c) /\ c.open \subseteq S /\ c.trades \subseteq S /\ b.trades \subseteq c.trades
             /\ \A x \in c.trades : x \in b.trades \/ x.opened = t
<1> DEFINE d == Max({0} \cup {x \in 1..Day(t) : EffectiveFrom(x) <= t})
           a == SettleDue(b, t)
           taken == {x \in Chosen(Group(S, t), Scheduled(S, d, limit), line, a, t) : Opens(a, x)}
<1>1. Traded(S, line, t, b) = IF d = 0 THEN b ELSE Trading(a, taken)
  BY Zenon DEF Traded, TradedOn
<1>2. IsBook(a) /\ a.trades = b.trades /\ a.open \subseteq b.open
  BY SettleKeeps
<1>3. taken \subseteq Group(S, t)
  BY ChosenOfGroup
<1> HIDE DEF d, a, taken
<1>4. \A x \in taken : x \in S /\ x.opened = t
  BY <1>3 DEF Group
<1>5. Trading(a, taken) = [trades |-> a.trades \cup taken, open |-> a.open \cup taken, losses |-> a.losses]
  BY <1>2, TradingIs
<1>6. CASE d = 0
  BY <1>1, <1>6
<1>7. CASE d # 0
  <2>1. Traded(S, line, t, b) = [trades |-> a.trades \cup taken, open |-> a.open \cup taken, losses |-> a.losses]
    BY <1>1, <1>5, <1>7
  <2>2. QED
    BY <1>2, <1>4, <2>1 DEF IsBook
<1>8. QED
  BY <1>6, <1>7

\* The guards of the execution do not tell the twins from each other.
LEMMA OpensAlike ==
  ASSUME NEW S, Rows(S), NEW b, NEW c, NEW e, NEW o, StandsFor(o, e), Alike(b, c, S, e, o),
         o = e \/ o \notin S, NEW x
  PROVE  Opens(c, Twin(e, o, x)) <=> Opens(b, x)
<1> DEFINE y == Twin(e, o, x)
           sameB == {z \in b.trades : Direction(z.key) = Direction(x.key)}
           sameC == {z \in c.trades : Direction(z.key) = Direction(y.key)}
<1>1. \A z : Twin(e, o, z).key = z.key /\ Twin(e, o, z).opened = z.opened
  BY TwinTells
<1>2. y.key = x.key /\ y.opened = x.opened
  BY <1>1
<1> HIDE DEF y
<1>3. /\ c.open = Twins(e, o, b.open) /\ c.trades = Twins(e, o, b.trades) /\ c.losses = b.losses
      /\ b.open \subseteq S /\ b.trades \subseteq S
  BY DEF Alike
<1>4. sameC = Twins(e, o, sameB)
  BY <1>1, <1>2, <1>3 DEF Twins
<1>5. c.open \cap sameC = Twins(e, o, b.open \cap sameB)
  <2>1. \A z1 \in S, z2 \in S : Twin(e, o, z1) = Twin(e, o, z2) => z1 = z2
    BY DEF Twin
  <2>2. sameB \subseteq S
    BY <1>3
  <2> HIDE DEF sameB, sameC
  <2>3. QED
    BY <1>3, <1>4, <2>1, <2>2 DEF Twins
<1>6. Cardinality(c.open) = Cardinality(b.open)
  <2>1. IsFiniteSet(b.open) /\ (o = e \/ o \notin b.open)
    BY <1>3, FS_Subset DEF Rows
  <2>2. QED
    BY <1>3, <2>1, TwinsCount
<1>7. Cardinality(c.open \cap sameC) = Cardinality(b.open \cap sameB)
  <2> DEFINE A == b.open \cap sameB
  <2>1. A \subseteq S
    BY <1>3
  <2> HIDE DEF A
  <2>2. IsFiniteSet(A) /\ (o = e \/ o \notin A)
    BY <2>1, FS_Subset DEF Rows
  <2>3. Cardinality(Twins(e, o, A)) = Cardinality(A)
    BY <2>2, TwinsCount
  <2>4. QED
    BY <1>5, <2>3 DEF A
<1>8. (\A z \in sameC : y.opened - z.opened >= MinGap) <=> \A z \in sameB : x.opened - z.opened >= MinGap
  <2> HIDE DEF sameB, sameC
  <2>1. QED
    BY <1>1, <1>2, <1>4 DEF Twins
<1>9. LossesOf(c, y.key, Date(y.opened)) = LossesOf(b, x.key, Date(x.opened))
  BY <1>2, <1>3 DEF LossesOf
<1>10. Opens(b, x) <=> /\ Cardinality(b.open) < MaxOpenOrders
                       /\ \A z \in sameB : x.opened - z.opened >= MinGap
                       /\ Cardinality(b.open \cap sameB) < MaxPerDirection
                       /\ LossesOf(b, x.key, Date(x.opened)) < LossPause
  BY Zenon DEF Opens
<1>11. Opens(c, y) <=> /\ Cardinality(c.open) < MaxOpenOrders
                       /\ \A z \in sameC : y.opened - z.opened >= MinGap
                       /\ Cardinality(c.open \cap sameC) < MaxPerDirection
                       /\ LossesOf(c, y.key, Date(y.opened)) < LossPause
  BY Zenon DEF Opens
<1> HIDE DEF sameB, sameC
<1>12. QED
  BY <1>6, <1>7, <1>8, <1>9, <1>10, <1>11 DEF y

\* A group makes the same orders of the same books.
LEMMA TradedAlike ==
  ASSUME NEW S, Rows(S), NEW R, NEW b, NEW c, NEW e, NEW o, StandsFor(o, e), Alike(b, c, S, e, o),
         o = e \/ o \notin S, policy \in {"BASELINE", "ADAPTIVE", "ADMISSION"},
         NEW t \in Nat, ~(e.settled <= t), ~(o.settled <= t),
         Group(R, t) = Twins(e, o, Group(S, t)),
         \A d \in Nat : LookbackEnd(d) <= t => KnownBefore(S, d) = KnownBefore(R, d),
         NEW line, NEW other, \A k : StateBefore(line, k, t) = StateBefore(other, k, t)
  PROVE  Alike(Traded(S, line, t, b), Traded(R, other, t, c), S, e, o)
<1> DEFINE d == Max({0} \cup {x \in 1..Day(t) : EffectiveFrom(x) <= t})
           a == SettleDue(b, t)
           z == SettleDue(c, t)
           snapshot == Scheduled(S, d, limit)
           G == Group(S, t)
           chosen == Chosen(G, snapshot, line, a, t)
           taken == {x \in chosen : Opens(a, x)}
           chosenZ == Chosen(Twins(e, o, G), snapshot, other, z, t)
           takenZ == {x \in chosenZ : Opens(z, x)}
<1>1. Scheduled(R, d, limit) = snapshot
  <2> HIDE DEF d
  <2>1. d \in Nat /\ \A x \in 1..d : LookbackEnd(x) <= t
    BY DayInForce DEF d
  <2>2. \A x \in 1..d : KnownBefore(S, x) = KnownBefore(R, x)
    BY <2>1
  <2>3. QED
    BY <2>1, <2>2, ScheduleKnown
<1>2. Traded(S, line, t, b) = IF d = 0 THEN b ELSE Trading(a, taken)
  BY Zenon DEF Traded, TradedOn
<1>3. Traded(R, other, t, c) = IF d = 0 THEN c ELSE Trading(z, takenZ)
  BY <1>1, Zenon DEF Traded, TradedOn
<1>4. Alike(a, z, S, e, o)
  BY SettleAlike
<1>5. chosenZ = Twins(e, o, chosen)
  <2> HIDE DEF a, z, snapshot, G
  <2>1. QED
    BY <1>4, ChosenAlike
<1>6. chosen \subseteq G /\ G \subseteq S
  BY ChosenOfGroup DEF Group
<1> HIDE DEF d, a, z, snapshot, G, chosen, chosenZ
<1>7. \A x : Opens(z, Twin(e, o, x)) <=> Opens(a, x)
  BY <1>4, OpensAlike
<1>8. takenZ = Twins(e, o, taken) /\ taken \subseteq S
  BY <1>5, <1>6, <1>7 DEF Twins
<1> HIDE DEF taken, takenZ
<1>9. Alike(Trading(a, taken), Trading(z, takenZ), S, e, o)
  <2>1. IsBook(a) /\ IsBook(z)
    BY <1>4 DEF Alike
  <2>2. Trading(a, taken) = [trades |-> a.trades \cup taken, open |-> a.open \cup taken, losses |-> a.losses]
    BY <2>1, TradingIs
  <2>3. Trading(z, takenZ) = [trades |-> z.trades \cup takenZ, open |-> z.open \cup takenZ, losses |-> z.losses]
    BY <2>1, TradingIs
  <2>4. IsBook(Trading(a, taken)) /\ IsBook(Trading(z, takenZ))
    BY <2>2, <2>3 DEF IsBook
  <2>5. \A A, B : Twins(e, o, A \cup B) = Twins(e, o, A) \cup Twins(e, o, B)
    BY DEF Twins
  <2>6. QED
    BY <1>4, <1>8, <2>2, <2>3, <2>4, <2>5 DEF Alike
<1>10. QED
  BY <1>2, <1>3, <1>9

-----------------------------------------------------------------------------
(* Whole backtests.                                                         *)
NumberOrder(M) == {p \in M \X M : p[1] < p[2]}

LEMMA NumbersOrdered ==
  ASSUME NEW M, M \subseteq Nat
  PROVE  StrictOrder(NumberOrder(M), M)
<1>1. \A x, y : <<x, y>> \in NumberOrder(M) <=> x \in M /\ y \in M /\ x < y
  BY DEF NumberOrder
<1>2. \A x \in M : x \in Nat
  OBVIOUS
<1>3. QED
  BY <1>1, <1>2 DEF StrictOrder

InTime(M) == Sorted(M, <)

Numbers(M) == M \subseteq Nat /\ IsFiniteSet(M)

LEMMA MinutesSort ==
  ASSUME NEW M, Numbers(M)
  PROVE  Lists(InTime(M), M, NumberOrder(M))
<1> DEFINE R == NumberOrder(M)
           c == InTime(M)
           place(x) == 1 + Cardinality({y \in M : y < x})
<1>1. StrictOrder(R, M) /\ IsFiniteSet(M)
  BY NumbersOrdered DEF Numbers
<1>2. \A x \in M : place(x) = Place(R, M, x)
  <2>1. ASSUME NEW x \in M PROVE {y \in M : y < x} = {y \in M : <<y, x>> \in R}
    BY DEF NumberOrder
  <2>2. QED
    BY <2>1, Zenon DEF Place
<1>3. c = [i \in 1..Cardinality(M) |-> CHOOSE x \in M : place(x) = i]
  BY Zenon DEF Sorted, InTime
<1> HIDE DEF place, c, R
<1>4. ASSUME NEW i \in 1..Cardinality(M) PROVE c[i] \in M /\ Place(R, M, c[i]) = i
  <2>1. PICK x \in M : Place(R, M, x) = i
    BY <1>1, Places
  <2>2. c[i] \in M /\ place(c[i]) = i
    BY <1>2, <1>3, <2>1
  <2>3. QED
    BY <1>2, <2>2
<1>5. Lists(c, M, R)
  <2>1. DOMAIN c = 1..Cardinality(M) /\ c = [i \in DOMAIN c |-> c[i]]
    BY <1>3
  <2>2. QED
    BY <1>1, <1>4, <2>1, PlacesList
<1>6. QED
  BY <1>5 DEF c, R

\* The groups of a set of rows, in order.
Groups(S) == InTime(Minutes(S))

LEMMA MinutesOf ==
  ASSUME NEW S, Rows(S)
  PROVE  IsFiniteSet(Minutes(S)) /\ Minutes(S) \subseteq Nat
<1> DEFINE f == [x \in S |-> x.opened]
           M == Minutes(S)
<1>1. \A x \in S : f[x] = x.opened /\ f[x] \in M
  BY DEF Minutes
<1>2. \A m \in M : \E x \in S : f[x] = m
  BY DEF Minutes
<1>3. f \in [S -> M]
  BY <1>1
<1>4. \A x \in S : x.opened \in Nat
  BY DEF Rows, Event
<1> HIDE DEF f
<1>5. M \subseteq Nat
  BY <1>4 DEF Minutes
<1> HIDE DEF M
<1>6. f \in Surjection(S, M)
  BY <1>2, <1>3 DEF Surjection
<1>7. IsFiniteSet(M)
  BY <1>6, FS_Surjection DEF Rows
<1>8. QED
  BY <1>5, <1>7 DEF M

LEMMA GroupsList ==
  ASSUME NEW S, Rows(S)
  PROVE  LET s == Groups(S)
         IN  /\ Len(s) \in Nat /\ DOMAIN s = 1..Len(s)
             /\ \A i \in 1..Len(s) : s[i] \in Nat /\ s[i] \in Minutes(S)
             /\ \A m \in Minutes(S) : \E i \in 1..Len(s) : s[i] = m
             /\ \A i, j \in 1..Len(s) : i < j <=> s[i] < s[j]
<1> DEFINE s == Groups(S)
           M == Minutes(S)
<1>1. M \subseteq Nat /\ Lists(s, M, NumberOrder(M))
  BY MinutesOf, MinutesSort DEF Groups, Numbers
<1> HIDE DEF s, M
<1>2. s \in Seq(M) /\ Len(s) \in Nat
  BY <1>1 DEF Lists
<1>3. DOMAIN s = 1..Len(s) /\ \A i \in 1..Len(s) : s[i] \in M
  BY <1>2
<1>4. \A i, j \in 1..Len(s) : i < j <=> s[i] < s[j]
  BY <1>1, <1>3 DEF Lists, NumberOrder
<1>5. \A m \in M : \E i \in 1..Len(s) : s[i] = m
  BY <1>1 DEF Lists
<1>6. QED
  BY <1>1, <1>2, <1>3, <1>4, <1>5 DEF s, M

LEMMA GroupsPrefix ==
  ASSUME NEW S, Rows(S), NEW t \in Nat
  PROVE  LET s == Groups(S)
             p == InTime({m \in Minutes(S) : m < t})
         IN  /\ Len(p) \in Nat /\ Len(p) <= Len(s)
             /\ \A i \in 1..Len(p) : s[i] = p[i]
             /\ \A i \in 1..Len(s) : s[i] < t <=> i <= Len(p)
<1> DEFINE M == Minutes(S)
           P == {m \in M : m < t}
           s == Groups(S)
           p == InTime(P)
           R == NumberOrder(M)
           Q == NumberOrder(P)
<1>1. M \subseteq Nat /\ IsFiniteSet(M)
  BY MinutesOf
<1>2. P \subseteq M
  OBVIOUS
<1>3. P \subseteq Nat /\ IsFiniteSet(P)
  <2> HIDE DEF P
  <2>1. QED
    BY <1>1, <1>2, FS_Subset
<1>4. StrictOrder(R, M) /\ Lists(s, M, R)
  BY <1>1, NumbersOrdered, MinutesSort DEF Groups, Numbers
<1>5. StrictOrder(Q, P) /\ Lists(p, P, Q)
  <2> HIDE DEF P
  <2>1. QED
    BY <1>3, NumbersOrdered, MinutesSort DEF Numbers
<1>6. ComesFirst(P, Q, M, R)
  <2>1. ASSUME NEW x \in P, NEW y \in M PROVE <<y, x>> \in R <=> y \in P /\ <<y, x>> \in Q
    <3>1. x \in Nat /\ y \in Nat /\ x < t /\ x \in M
      BY <1>1
    <3>2. y < x => y \in P
      BY <3>1
    <3>3. QED
      BY <3>1, <3>2 DEF NumberOrder
  <2> HIDE DEF P, M, R, Q
  <2>2. QED
    BY <1>2, <2>1 DEF ComesFirst
<1>7. \A x \in M : x \in P <=> x < t
  OBVIOUS
<1> HIDE DEF M, P, s, p, R, Q
<1>8. /\ Len(p) \in Nat /\ Len(p) <= Len(s)
      /\ \A i \in 1..Len(p) : s[i] = p[i]
      /\ \A i \in 1..Len(s) : s[i] \in P <=> i <= Len(p)
  <2>1. IsFiniteSet(M)
    BY <1>1
  <2>2. StartsWith(s, p, P)
    BY <1>4, <1>5, <1>6, <2>1, PrefixLists
  <2>3. QED
    BY <2>2 DEF StartsWith
<1>9. \A i \in 1..Len(s) : s[i] \in M
  BY <1>4 DEF Lists
<1>10. QED
  BY <1>7, <1>8, <1>9 DEF M, P, s, p

\* The books of a backtest, group by group.
Books(b, S, line) ==
    /\ b[0] = NoBook
    /\ \A i \in 1..Len(Groups(S)) : b[i] = Traded(S, line, Groups(S)[i], b[i - 1])

LEMMA RunIs ==
  ASSUME NEW S, Rows(S), NEW line
  PROVE  \E b : Books(b, S, line) /\ Run(S, line) = b[Len(Groups(S))]
<1> DEFINE s == Groups(S)
<1>1. Len(s) \in Nat /\ DOMAIN s = 1..Len(s)
  BY GroupsList
<1>2. Run(S, line) = TradesFrom(S, line, NoBook, s)
  BY Zenon DEF Run, TradesFrom, Groups, InTime
<1> HIDE DEF s
<1>3. PICK b : Steps(b, "Traded", <<S, line>>, NoBook, s) /\ TradesFrom(S, line, NoBook, s) = b[Len(s)]
  BY <1>1, TradedFold
<1>4. Books(b, S, line)
  BY <1>3 DEF Books, Steps, Folding, s
<1>5. QED
  BY <1>2, <1>3, <1>4 DEF s

\* Groups from an instant on make no order that was opened before it.
LEMMA BooksKeep ==
  ASSUME NEW S, Rows(S), NEW line, NEW b, Books(b, S, line),
         policy \in {"BASELINE", "ADAPTIVE", "ADMISSION"}
  PROVE  /\ \A i \in 0..Len(Groups(S)) :
               IsBook(b[i]) /\ b[i].open \subseteq S /\ b[i].trades \subseteq S
         /\ \A m, i \in 0..Len(Groups(S)), t \in Nat :
               m <= i /\ (\A j \in 1..Len(Groups(S)) : Groups(S)[j] < t => j <= m)
               => \A x : x.opened < t => (x \in b[i].trades <=> x \in b[m].trades)
<1> DEFINE s == Groups(S)
           n == Len(s)
           Good(i) == IsBook(b[i]) /\ b[i].open \subseteq S /\ b[i].trades \subseteq S
           bad == {i \in 0..n : ~Good(i)}
<1>1. n \in Nat /\ b[0] = NoBook /\ \A i \in 1..n : b[i] = Traded(S, line, s[i], b[i - 1])
  BY GroupsList DEF Books
<1>2. \A i \in 1..n : s[i] \in Nat
  BY GroupsList
<1> HIDE DEF s, n
<1>3. ASSUME bad # {} PROVE FALSE
  <2>1. PICK i \in bad : \A j \in bad : i <= j
    <3>1. bad \subseteq Nat
      BY <1>1
    <3> HIDE DEF bad
    <3>2. QED
      BY <1>3, <3>1, LeastExists
  <2>2. i \in 0..n /\ ~Good(i)
    BY <2>1
  <2>3. i # 0
    <3>1. Good(0)
      BY <1>1 DEF NoBook, IsBook
    <3>2. QED
      BY <2>2, <3>1
  <2>4. i - 1 \in 0..n /\ i \in 1..n /\ Good(i - 1)
    <3>1. i - 1 \in 0..n /\ i \in 1..n /\ ~(i <= i - 1)
      BY <1>1, <2>2, <2>3
    <3>2. QED
      BY <2>1, <3>1
  <2>5. Good(i)
    <3> DEFINE a == b[i - 1]
               t == s[i]
    <3>1. IsBook(a) /\ a.open \subseteq S /\ a.trades \subseteq S /\ b[i] = Traded(S, line, t, a)
      BY <1>1, <2>4
    <3> HIDE DEF a, t
    <3>2. LET c == Traded(S, line, t, a) IN IsBook(c) /\ c.open \subseteq S /\ c.trades \subseteq S
      BY <3>1, TradedKeeps
    <3>3. QED
      BY <3>1, <3>2
  <2>6. QED
    BY <2>2, <2>5
<1>4. \A i \in 0..n : Good(i)
  BY <1>3
<1>5. ASSUME NEW i \in 1..n
      PROVE  b[i - 1].trades \subseteq b[i].trades /\ \A x \in b[i].trades : x \in b[i - 1].trades \/ x.opened = s[i]
  <2> DEFINE a == b[i - 1]
             t == s[i]
  <2>1. i - 1 \in 0..n
    BY <1>1
  <2>2. IsBook(a) /\ a.open \subseteq S /\ a.trades \subseteq S /\ b[i] = Traded(S, line, t, a)
    BY <1>1, <1>4, <2>1
  <2> HIDE DEF a, t
  <2>3. LET c == Traded(S, line, t, a)
        IN  a.trades \subseteq c.trades /\ \A x \in c.trades : x \in a.trades \/ x.opened = t
    BY <2>2, TradedKeeps
  <2>4. QED
    BY <2>2, <2>3 DEF a, t
<1>6. ASSUME NEW m \in 0..n, NEW t \in Nat, \A j \in 1..n : s[j] < t => j <= m,
             NEW i \in 0..n, m <= i, NEW x, x.opened < t
      PROVE  x \in b[i].trades <=> x \in b[m].trades
  <2> DEFINE Same(k) == x \in b[k].trades <=> x \in b[m].trades
             odd == {k \in m..n : ~Same(k)}
  <2>1. ASSUME odd # {} PROVE FALSE
    <3>1. PICK k \in odd : \A j \in odd : k <= j
      <4>1. odd \subseteq Nat
        BY <1>1
      <4> HIDE DEF odd
      <4>2. QED
        BY <2>1, <4>1, LeastExists
    <3>2. k \in m..n /\ ~Same(k) /\ k # m
      BY <3>1
    <3>3. k - 1 \in m..n /\ k \in 1..n /\ Same(k - 1) /\ ~(k <= m)
      <4>1. k - 1 \in m..n /\ k \in 1..n /\ ~(k <= k - 1) /\ ~(k <= m)
        BY <1>1, <3>2
      <4>2. QED
        BY <3>1, <4>1
    <3>4. ~(s[k] < t) /\ s[k] \in Nat
      BY <1>2, <1>6, <3>3
    <3>5. x.opened # s[k]
      BY <1>6, <3>4
    <3>6. Same(k)
      BY <1>5, <3>3, <3>5
    <3>7. QED
      BY <3>2, <3>6
  <2>2. QED
    BY <1>1, <1>6, <2>1
<1>7. \A m, i \in 0..n, t \in Nat :
         m <= i /\ (\A j \in 1..n : s[j] < t => j <= m)
         => \A x : x.opened < t => (x \in b[i].trades <=> x \in b[m].trades)
  BY <1>6
<1>8. QED
  BY <1>4, <1>7 DEF s, n

-----------------------------------------------------------------------------
(* Two sets of rows that tell the same until T: what had settled by then,   *)
(* and, but for e, of which o differs, what had been observed.              *)
SameUntil(S, R, e, o, T) ==
    /\ StandsFor(o, e) /\ (o = e \/ o \notin S)
    /\ e.settled \in Nat /\ o.settled \in Nat /\ T <= e.settled /\ T <= o.settled
    /\ Earlier(S, T) = Earlier(R, T)
    /\ \A t \in Nat : t < T => Group(R, t) = Twins(e, o, Group(S, t))

LEMMA SameKnown ==
  ASSUME NEW S, Rows(S), NEW R, Rows(R), NEW e, NEW o, NEW T \in Nat, SameUntil(S, R, e, o, T),
         NEW t \in Nat, t < T
  PROVE  /\ ~(e.settled <= t) /\ ~(o.settled <= t)
         /\ \A d \in Nat : LookbackEnd(d) <= t => KnownBefore(S, d) = KnownBefore(R, d)
         /\ \A k : StateBefore(Timeline(S), k, t) = StateBefore(Timeline(R), k, t)
<1>1. e.settled \in Nat /\ o.settled \in Nat /\ T <= e.settled /\ T <= o.settled /\ Earlier(S, T) = Earlier(R, T)
  BY DEF SameUntil
<1>2. \A x \in S \cup R : x.settled \in Nat /\ x.settled # 0
  BY DEF Rows, Event
<1>3. \A x, u : u \in Nat /\ u <= T /\ x.settled < u => (x \in S <=> x \in R)
  <2> SUFFICES ASSUME NEW x, NEW u \in Nat, u <= T, x.settled < u PROVE x \in S <=> x \in R
    OBVIOUS
  <2>1. x \in S \cup R => x.settled < T
    BY <1>2
  <2>2. QED
    BY <1>1, <2>1 DEF Earlier
<1>4. ASSUME NEW d \in Nat, LookbackEnd(d) <= t PROVE KnownBefore(S, d) = KnownBefore(R, d)
  <2>1. LookbackEnd(d) \in Nat /\ LookbackEnd(d) <= T
    BY <1>4, DailyAssumption DEF LookbackEnd
  <2>2. QED
    BY <1>3, <2>1 DEF KnownBefore, Settled
<1>5. Earlier(S, t) = Earlier(R, t)
  BY <1>3 DEF Earlier
<1>6. \A k : StateBefore(Timeline(S), k, t) = StateBefore(Timeline(R), k, t)
  BY <1>5, StateKnown
<1>7. QED
  BY <1>1, <1>4, <1>6

\* They have the same groups until T.
LEMMA SameGroups ==
  ASSUME NEW S, Rows(S), NEW R, Rows(R), NEW e, NEW o, NEW T \in Nat, SameUntil(S, R, e, o, T)
  PROVE  \E m \in Nat :
            /\ m <= Len(Groups(S)) /\ m <= Len(Groups(R))
            /\ \A i \in 1..m : Groups(S)[i] = Groups(R)[i] /\ Groups(S)[i] \in Nat /\ Groups(S)[i] < T
            /\ \A i \in 1..Len(Groups(S)) : Groups(S)[i] < T => i <= m
            /\ \A i \in 1..Len(Groups(R)) : Groups(R)[i] < T => i <= m
<1>1. {x \in Minutes(S) : x < T} = {x \in Minutes(R) : x < T}
  <2>1. ASSUME NEW x \in Nat, x < T PROVE x \in Minutes(S) <=> x \in Minutes(R)
    <3>1. Group(R, x) = Twins(e, o, Group(S, x))
      BY <2>1 DEF SameUntil
    <3>2. Group(R, x) # {} <=> Group(S, x) # {}
      BY <3>1 DEF Twins
    <3>3. (x \in Minutes(S) <=> Group(S, x) # {}) /\ (x \in Minutes(R) <=> Group(R, x) # {})
      BY DEF Minutes, Group
    <3>4. QED
      BY <3>2, <3>3
  <2>2. Minutes(S) \subseteq Nat /\ Minutes(R) \subseteq Nat
    BY MinutesOf
  <2>3. QED
    BY <2>1, <2>2
<1> DEFINE p == InTime({x \in Minutes(S) : x < T})
<1>2. /\ Len(p) \in Nat /\ Len(p) <= Len(Groups(S))
      /\ \A i \in 1..Len(p) : Groups(S)[i] = p[i]
      /\ \A i \in 1..Len(Groups(S)) : Groups(S)[i] < T <=> i <= Len(p)
  BY GroupsPrefix
<1>3. /\ Len(p) \in Nat /\ Len(p) <= Len(Groups(R))
      /\ \A i \in 1..Len(p) : Groups(R)[i] = p[i]
      /\ \A i \in 1..Len(Groups(R)) : Groups(R)[i] < T <=> i <= Len(p)
  BY <1>1, GroupsPrefix
<1>4. Len(Groups(S)) \in Nat /\ \A i \in 1..Len(Groups(S)) : Groups(S)[i] \in Nat
  BY GroupsList
<1> HIDE DEF p
<1>5. QED
  BY <1>2, <1>3, <1>4

\* And the same orders of before T.
LEMMA RunsAlike ==
  ASSUME NEW S, Rows(S), NEW R, Rows(R), NEW e, NEW o, NEW T \in Nat, SameUntil(S, R, e, o, T),
         policy \in {"BASELINE", "ADAPTIVE", "ADMISSION"},
         NEW b, Books(b, S, Timeline(S)), NEW c, Books(c, R, Timeline(R))
  PROVE  Until({<<x.key, x.opened>> : x \in c[Len(Groups(R))].trades}, T)
            = Until({<<x.key, x.opened>> : x \in b[Len(Groups(S))].trades}, T)
<1> DEFINE s == Groups(S)
           r == Groups(R)
<1>1. PICK m \in Nat :
            /\ m <= Len(s) /\ m <= Len(r)
            /\ \A i \in 1..m : s[i] = r[i] /\ s[i] \in Nat /\ s[i] < T
            /\ \A i \in 1..Len(s) : s[i] < T => i <= m
            /\ \A i \in 1..Len(r) : r[i] < T => i <= m
  BY SameGroups
<1>2. Len(s) \in Nat /\ Len(r) \in Nat
  BY GroupsList
<1>3. /\ b[0] = NoBook /\ \A i \in 1..Len(s) : b[i] = Traded(S, Timeline(S), s[i], b[i - 1])
      /\ c[0] = NoBook /\ \A i \in 1..Len(r) : c[i] = Traded(R, Timeline(R), r[i], c[i - 1])
  BY DEF Books
<1> DEFINE Good(i) == Alike(b[i], c[i], S, e, o)
           bad == {i \in 0..m : ~Good(i)}
<1>4. ASSUME bad # {} PROVE FALSE
  <2>1. PICK i \in bad : \A j \in bad : i <= j
    <3>1. bad \subseteq Nat
      BY <1>1
    <3> HIDE DEF bad
    <3>2. QED
      BY <1>4, <3>1, LeastExists
  <2>2. i \in 0..m /\ ~Good(i)
    BY <2>1
  <2>3. i # 0
    <3>1. Alike(NoBook, NoBook, S, e, o)
      BY DEF Alike, IsBook, NoBook, Twins
    <3>2. Good(0)
      BY <1>3, <3>1
    <3>3. QED
      BY <2>2, <3>2
  <2>4. i - 1 \in 0..m /\ i \in 1..m /\ i \in 1..Len(s) /\ i \in 1..Len(r) /\ Good(i - 1)
    <3>1. i - 1 \in 0..m /\ i \in 1..m /\ i \in 1..Len(s) /\ i \in 1..Len(r) /\ ~(i <= i - 1)
      BY <1>1, <1>2, <2>2, <2>3
    <3>2. QED
      BY <2>1, <3>1
  <2> DEFINE t == s[i]
             p == b[i - 1]
             q == c[i - 1]
             line == Timeline(S)
             other == Timeline(R)
  <2>5. t \in Nat /\ t < T /\ r[i] = t
    BY <1>1, <2>4
  <2>6. b[i] = Traded(S, line, t, p) /\ c[i] = Traded(R, other, t, q)
    BY <1>3, <2>4, <2>5
  <2>7. Alike(p, q, S, e, o)
    BY <2>4
  <2>8. StandsFor(o, e) /\ (o = e \/ o \notin S) /\ Group(R, t) = Twins(e, o, Group(S, t))
    BY <2>5 DEF SameUntil
  <2>9. /\ ~(e.settled <= t) /\ ~(o.settled <= t)
        /\ \A d \in Nat : LookbackEnd(d) <= t => KnownBefore(S, d) = KnownBefore(R, d)
        /\ \A k : StateBefore(line, k, t) = StateBefore(other, k, t)
    BY <2>5, SameKnown
  <2> HIDE DEF t, p, q, line, other
  <2>10. Alike(Traded(S, line, t, p), Traded(R, other, t, q), S, e, o)
    BY <2>5, <2>7, <2>8, <2>9, TradedAlike
  <2>11. QED
    BY <2>2, <2>6, <2>10
<1>5. Alike(b[m], c[m], S, e, o)
  BY <1>4
<1> HIDE DEF s, r
<1>6. \A x : x.opened < T => (x \in b[Len(s)].trades <=> x \in b[m].trades)
  <2>1. m \in 0..Len(s) /\ Len(s) \in 0..Len(s)
    BY <1>1, <1>2
  <2>2. QED
    BY <1>1, <2>1, BooksKeep DEF s
<1>7. \A x : x.opened < T => (x \in c[Len(r)].trades <=> x \in c[m].trades)
  <2>1. m \in 0..Len(r) /\ Len(r) \in 0..Len(r)
    BY <1>1, <1>2
  <2>2. QED
    BY <1>1, <2>1, BooksKeep DEF r
<1>8. c[m].trades = {Twin(e, o, x) : x \in b[m].trades}
  BY <1>5 DEF Alike, Twins
<1>9. \A x : Twin(e, o, x).key = x.key /\ Twin(e, o, x).opened = x.opened
  BY TwinTells DEF SameUntil
<1> DEFINE B == b[Len(s)].trades
           C == c[Len(r)].trades
           BM == b[m].trades
           CM == c[m].trades
<1>10. ASSUME NEW y
       PROVE  (\E x \in B : x.opened < T /\ y = <<x.key, x.opened>>)
                 <=> \E x \in C : x.opened < T /\ y = <<x.key, x.opened>>
  <2>1. (\E x \in B : x.opened < T /\ y = <<x.key, x.opened>>)
           <=> \E x \in BM : x.opened < T /\ y = <<x.key, x.opened>>
    BY <1>6
  <2>2. (\E x \in C : x.opened < T /\ y = <<x.key, x.opened>>)
           <=> \E x \in CM : x.opened < T /\ y = <<x.key, x.opened>>
    BY <1>7
  <2>3. (\E x \in CM : x.opened < T /\ y = <<x.key, x.opened>>)
           <=> \E x \in BM : x.opened < T /\ y = <<x.key, x.opened>>
    <3> HIDE DEF B, C, BM
    <3>1. CM = {Twin(e, o, x) : x \in BM}
      BY <1>8 DEF BM
    <3> HIDE DEF CM
    <3>2. QED
      BY <1>9, <3>1
  <2>4. QED
    BY <2>1, <2>2, <2>3
<1> HIDE DEF B, C, BM, CM
<1>11. Until({<<x.key, x.opened>> : x \in C}, T) = Until({<<x.key, x.opened>> : x \in B}, T)
  <2>1. \A A : \A y : y \in Until({<<x.key, x.opened>> : x \in A}, T)
                         <=> \E x \in A : x.opened < T /\ y = <<x.key, x.opened>>
    BY DEF Until
  <2> DEFINE U == Until({<<x.key, x.opened>> : x \in C}, T)
             V == Until({<<x.key, x.opened>> : x \in B}, T)
  <2>2. \A y : /\ y \in U <=> \E x \in C : x.opened < T /\ y = <<x.key, x.opened>>
               /\ y \in V <=> \E x \in B : x.opened < T /\ y = <<x.key, x.opened>>
    BY <2>1
  <2>3. \A y : y \in U <=> y \in V
    BY <1>10, <2>2
  <2>4. U \subseteq V /\ V \subseteq U
    <3> HIDE DEF U, V
    <3>1. QED
      BY <2>3
  <2>5. QED
    BY <2>4
<1>12. QED
  BY <1>11 DEF B, C, s, r

-----------------------------------------------------------------------------
(* The backtest of the specification.                                       *)
Backtests ==
    task = "backtest" =>
        /\ rows \in Databases /\ policy \in Policies /\ minute \in Nat
        /\ \E b :
             /\ Books(b, rows, Timeline(rows))
             /\ \/ \E m \in 0..Len(Groups(rows)) :
                      /\ book = b[m]
                      /\ \A i \in 1..Len(Groups(rows)) : Groups(rows)[i] <= minute <=> i <= m
                \/ minute = MaxTime + 1 /\ book.trades = b[Len(Groups(rows))].trades

LEMMA DatabaseRows ==
  ASSUME NEW S \in Databases
  PROVE  /\ Rows(S) /\ S \subseteq BacktestRow /\ \A x \in S : x.opened \in 1..MaxTime /\ x.opened < x.settled
<1>1. /\ S \subseteq BacktestRow /\ IsFiniteSet(S)
      /\ \A e, f \in S : <<e.key, e.opened>> = <<f.key, f.opened>> => e = f
      /\ \A e \in S : e.opened \in 1..MaxTime
      /\ \A e \in S : e.opened < e.expires /\ e.opened < e.settled
  BY ReplayAssumption
<1>2. ASSUME NEW e \in S PROVE Event(e)
  <2>1. e \in BacktestRow
    BY <1>1
  <2>2. /\ e.key \in Nat /\ e.opened \in Nat /\ e.expires \in Nat /\ e.settled \in Nat /\ e.dec \in Nat
        /\ e.won \in BOOLEAN
    BY <2>1 DEF BacktestRow
  <2>3. QED
    BY <1>1, <2>2 DEF Event
<1>3. QED
  BY <1>1, <1>2 DEF Rows

LEMMA InitBacktests == ReplayInit => Backtests
<1> SUFFICES ASSUME ReplayInit, task = "backtest" PROVE Backtests
  BY DEF Backtests
<1>1. rows \in Databases /\ policy \in Policies /\ minute = 0 /\ book = NoBook
  BY DEF ReplayInit
<1>2. Rows(rows) /\ \A x \in rows : x.opened \in 1..MaxTime
  BY <1>1, DatabaseRows
<1>3. PICK b : Books(b, rows, Timeline(rows))
  BY <1>2, RunIs
<1>4. b[0] = NoBook
  BY <1>3 DEF Books
<1>5. Len(Groups(rows)) \in Nat /\ \A i \in 1..Len(Groups(rows)) : Groups(rows)[i] \in Minutes(rows)
  BY <1>2, GroupsList
<1>6. ASSUME NEW i \in 1..Len(Groups(rows)) PROVE Groups(rows)[i] <= minute <=> i <= 0
  <2>1. Groups(rows)[i] \in 1..MaxTime
    BY <1>2, <1>5 DEF Minutes
  <2>2. QED
    BY <1>1, <1>5, <2>1, DailyAssumption
<1>7. 0 \in 0..Len(Groups(rows))
  BY <1>5
<1>8. QED
  BY <1>1, <1>3, <1>4, <1>6, <1>7 DEF Backtests

\* The policy and the limit are all a group reads of the state.
LEMMA TradedStays ==
  ASSUME policy' = policy, limit' = limit, NEW S, NEW line, NEW t, NEW x
  PROVE  Traded(S, line, t, x)' = Traded(S, line, t, x)
BY DEF Traded, TradedOn, Chosen

LEMMA BooksStay ==
  ASSUME policy' = policy, limit' = limit, rows' = rows, NEW b, Books(b, rows, Timeline(rows))
  PROVE  Books(b, rows, Timeline(rows))'
<1>1. Groups(rows)' = Groups(rows) /\ Timeline(rows)' = Timeline(rows)
  OBVIOUS
<1>2. QED
  BY <1>1, TradedStays DEF Books

LEMMA StepBacktests == Backtests /\ [ReplayNext]_<<vars, task, script>> => Backtests'
<1> SUFFICES ASSUME Backtests, [ReplayNext]_<<vars, task, script>>, task' = "backtest" PROVE Backtests'
  BY DEF Backtests
<1>1. task = "backtest"
  BY DEF ReplayNext
<1>2. rows \in Databases /\ policy \in Policies /\ minute \in Nat
  BY <1>1 DEF Backtests
<1>3. PICK b : /\ Books(b, rows, Timeline(rows))
               /\ \/ \E m \in 0..Len(Groups(rows)) :
                        /\ book = b[m]
                        /\ \A i \in 1..Len(Groups(rows)) : Groups(rows)[i] <= minute <=> i <= m
                  \/ minute = MaxTime + 1 /\ book.trades = b[Len(Groups(rows))].trades
  BY <1>1 DEF Backtests
<1> DEFINE s == Groups(rows)
           n == Len(s)
<1>4. Rows(rows) /\ \A x \in rows : x.opened \in 1..MaxTime
  BY <1>2, DatabaseRows
<1>5. /\ n \in Nat /\ \A i \in 1..n : s[i] \in Nat /\ s[i] \in Minutes(rows)
      /\ \A m \in Minutes(rows) : \E i \in 1..n : s[i] = m
      /\ \A i, j \in 1..n : i < j <=> s[i] < s[j]
  BY <1>4, GroupsList
<1>6. MaxTime \in Nat /\ policy \in {"BASELINE", "ADAPTIVE", "ADMISSION"}
  BY <1>2, ReplayAssumption, DailyAssumption
<1>7. CASE UNCHANGED <<vars, task, script>>
  <2>1. UNCHANGED <<task, rows, policy, minute, book, limit>>
    BY <1>7 DEF script, vars, memory
  <2>2. Books(b, rows, Timeline(rows))'
    BY <1>3, <2>1, BooksStay
  <2>3. QED
    BY <1>2, <1>3, <2>1, <2>2 DEF Backtests
<1>8. ASSUME Trade, UNCHANGED vars PROVE Backtests'
  <2> DEFINE later == {t \in Minutes(rows) : t > minute}
  <2>1. /\ later # {} /\ minute' = Min(later)
        /\ book' = Traded(rows, Timeline(rows), Min(later), book)
        /\ UNCHANGED <<rows, policy, limit>>
    BY <1>8 DEF Trade, vars, memory
  <2>2. later \subseteq Nat /\ later \subseteq Minutes(rows)
    BY <1>4, MinutesOf
  <2>3. Min(later) \in later /\ \A t \in later : Min(later) <= t
    <3> HIDE DEF later
    <3>1. PICK x \in later : \A y \in later : x <= y
      BY <2>1, <2>2, LeastExists
    <3>2. QED
      BY <3>1 DEF Min
  <2>4. Min(later) \in Minutes(rows) /\ Min(later) \in Nat /\ Min(later) > minute
    BY <2>2, <2>3
  <2>5. Min(later) <= MaxTime
    BY <1>4, <2>4 DEF Minutes
  <2>6. PICK m \in 0..n : book = b[m] /\ \A i \in 1..n : s[i] <= minute <=> i <= m
    BY <1>2, <1>3, <1>6, <2>4, <2>5
  <2>7. PICK i \in 1..n : s[i] = Min(later)
    BY <1>5, <2>4
  <2>8. i = m + 1
    <3>1. i > m
      BY <1>2, <1>5, <2>4, <2>6, <2>7
    <3>2. ASSUME i # m + 1 PROVE FALSE
      <4>1. m + 1 \in 1..n /\ m + 1 < i
        BY <1>5, <2>6, <2>7, <3>1, <3>2
      <4>2. s[m + 1] < s[i]
        BY <1>5, <4>1
      <4>3. ~(s[m + 1] <= minute)
        BY <2>6, <4>1
      <4>4. s[m + 1] \in later
        BY <1>2, <1>5, <4>1, <4>3
      <4>5. s[i] <= s[m + 1]
        <5> HIDE DEF later
        <5>1. QED
          BY <2>3, <2>7, <4>4
      <4>6. s[i] \in Nat /\ s[m + 1] \in Nat
        BY <1>5, <4>1
      <4>7. QED
        BY <4>2, <4>5, <4>6
    <3>3. QED
      BY <3>2
  <2> HIDE DEF later, s, n
  <2>9. book' = b[m + 1]
    <3>1. m + 1 \in 1..n /\ (m + 1) - 1 = m
      BY <1>5, <2>6, <2>7, <2>8
    <3>2. b[m + 1] = Traded(rows, Timeline(rows), s[m + 1], b[(m + 1) - 1])
      BY <1>3, <3>1 DEF Books, s, n
    <3>3. QED
      BY <2>1, <2>6, <2>7, <2>8, <3>1, <3>2
  <2>10. \A j \in 1..n : s[j] <= minute' <=> j <= m + 1
    <3> SUFFICES ASSUME NEW j \in 1..n PROVE s[j] <= minute' <=> j <= m + 1
      OBVIOUS
    <3>1. i < j <=> s[i] < s[j]
      BY <1>5
    <3>2. s[j] \in Nat /\ s[i] \in Nat /\ minute' = s[i]
      BY <1>5, <2>1, <2>7
    <3>3. QED
      BY <1>5, <2>6, <2>8, <3>1, <3>2
  <2>11. m + 1 \in 0..n /\ minute' \in Nat
    BY <1>5, <2>1, <2>4, <2>6, <2>7, <2>8
  <2>12. Books(b, rows, Timeline(rows))' /\ s' = s /\ n' = n
    BY <1>3, <2>1, BooksStay DEF s, n
  <2>13. rows' \in Databases /\ policy' \in Policies
    BY <1>2, <2>1
  <2>14. (\E k \in 0..n : book = b[k] /\ \A j \in 1..n : s[j] <= minute <=> j <= k)'
    BY <2>9, <2>10, <2>11, <2>12
  <2>15. QED
    BY <2>11, <2>12, <2>13, <2>14 DEF Backtests, s, n
<1>9. ASSUME Report, UNCHANGED vars PROVE Backtests'
  <2> DEFINE t == Max({e.settled : e \in rows})
  <2>1. /\ \A x \in Minutes(rows) : x <= minute
        /\ minute <= MaxTime /\ minute' = MaxTime + 1 /\ book' = SettleDue(book, t)
        /\ UNCHANGED <<rows, policy, limit>>
    BY <1>9 DEF Report, vars, memory
  <2>2. PICK m \in 0..n : book = b[m] /\ \A i \in 1..n : s[i] <= minute <=> i <= m
    BY <1>2, <1>3, <1>6, <2>1
  <2>3. m = n
    <3>1. ASSUME m # n PROVE FALSE
      <4>1. n \in 1..n /\ ~(n <= m)
        BY <1>5, <2>2, <3>1
      <4>2. s[n] <= minute
        BY <1>5, <2>1, <4>1
      <4>3. QED
        BY <2>2, <4>1, <4>2
    <3>2. QED
      BY <3>1
  <2> HIDE DEF t, s, n
  <2>4. IsBook(b[n]) /\ b[n].open \subseteq rows
    <3>1. n \in 0..n
      BY <1>5
    <3>2. QED
      BY <1>3, <1>4, <1>6, <3>1, BooksKeep DEF n, s
  <2>5. book'.trades = b[n].trades
    <3>1. book' = SettleDue(b[n], t)
      BY <2>1, <2>2, <2>3
    <3> DEFINE a == b[n]
    <3>2. IsBook(a) /\ a.open \subseteq rows /\ book' = SettleDue(a, t)
      BY <2>4, <3>1
    <3> HIDE DEF a
    <3>3. SettleDue(a, t).trades = a.trades
      BY <1>4, <3>2, SettleKeeps
    <3>4. QED
      BY <3>2, <3>3 DEF a
  <2>6. Books(b, rows, Timeline(rows))' /\ n' = n
    BY <1>3, <2>1, BooksStay DEF s, n
  <2>7. rows' \in Databases /\ policy' \in Policies /\ minute' \in Nat
    BY <1>2, <1>6, <2>1
  <2>8. (minute = MaxTime + 1 /\ book.trades = b[n].trades)'
    BY <2>1, <2>5, <2>6
  <2>9. QED
    BY <2>6, <2>7, <2>8 DEF Backtests, s, n
<1>10. QED
  BY <1>1, <1>7, <1>8, <1>9 DEF ReplayNext, Monitor, History, Backtest

\* A row that ended otherwise, and a row that was never made.
LEMMA OtherRows ==
  ASSUME NEW S \in Databases, NEW e \in S
  PROVE  LET other == [e EXCEPT !.won = ~@]
             R == (S \ {e}) \cup {other}
         IN  /\ Rows(R) /\ SameUntil(S, R, e, other, e.settled)
             /\ Rows(S \ {e}) /\ SameUntil(S, S \ {e}, e, e, e.opened)
<1> DEFINE other == [e EXCEPT !.won = ~@]
           R == (S \ {e}) \cup {other}
           Q == S \ {e}
<1>1. Rows(S) /\ S \subseteq BacktestRow /\ e.opened < e.settled
  BY DatabaseRows
<1>2. e \in BacktestRow /\ Event(e)
  BY <1>1 DEF Rows
<1>3. /\ other.key = e.key /\ other.opened = e.opened /\ other.expires = e.expires
      /\ other.settled = e.settled /\ other.dec = e.dec /\ other.ord = e.ord
      /\ other.won = ~e.won /\ e.won \in BOOLEAN
  BY <1>2 DEF BacktestRow
<1> HIDE DEF other
<1>4. Event(other)
  BY <1>2, <1>3 DEF Event
<1>5. other # e /\ other \notin S
  <2>1. other # e
    BY <1>3
  <2>2. QED
    BY <1>1, <1>3, <2>1 DEF Rows
<1>6. Rows(Q)
  BY <1>1, FS_Subset DEF Rows
<1>7. Rows(R)
  <2>1. IsFiniteSet(R)
    BY <1>6, FS_AddElement DEF Rows
  <2>2. \A x \in R : Event(x)
    BY <1>1, <1>4 DEF Rows
  <2>3. \A x, y \in R : x.key = y.key /\ x.opened = y.opened => x = y
    BY <1>1, <1>3 DEF Rows
  <2>4. QED
    BY <2>1, <2>2, <2>3 DEF Rows
<1>8. \A x \in S : x.settled \in Nat /\ x.opened \in Nat
  BY <1>1 DEF Rows, Event
<1>9. SameUntil(S, R, e, other, e.settled)
  <2>1. StandsFor(other, e)
    BY <1>3 DEF StandsFor
  <2>2. Earlier(S, e.settled) = Earlier(R, e.settled)
    <3>1. ~(e.settled < e.settled) /\ ~(other.settled < e.settled)
      BY <1>3, <1>8
    <3>2. QED
      BY <3>1 DEF Earlier
  <2>3. ASSUME NEW t \in Nat PROVE Group(R, t) = Twins(e, other, Group(S, t))
    <3>1. \A x : x \in Group(R, t) <=> (x \in S /\ x # e /\ x.opened = t) \/ (x = other /\ e.opened = t)
      BY <1>3 DEF Group
    <3>2. \A x : x \in Twins(e, other, Group(S, t))
                   <=> \E y \in S : y.opened = t /\ x = IF y = e THEN other ELSE y
      BY DEF Group, Twins, Twin
    <3>3. \A x : (\E y \in S : y.opened = t /\ x = IF y = e THEN other ELSE y)
                   <=> (x \in S /\ x # e /\ x.opened = t) \/ (x = other /\ e.opened = t)
      BY <1>5
    <3> DEFINE A == Group(R, t)
               B == Twins(e, other, Group(S, t))
    <3>4. \A x : x \in A <=> x \in B
      BY <3>1, <3>2, <3>3
    <3> HIDE DEF A, B
    <3>5. A \subseteq B /\ B \subseteq A
      BY <3>4
    <3>6. QED
      BY <3>5 DEF A, B
  <2>4. QED
    BY <1>3, <1>5, <1>8, <2>1, <2>2, <2>3 DEF SameUntil
<1>10. SameUntil(S, Q, e, e, e.opened)
  <2>1. StandsFor(e, e)
    BY DEF StandsFor
  <2>2. Earlier(S, e.opened) = Earlier(Q, e.opened)
    <3>1. ~(e.settled < e.opened)
      BY <1>1, <1>8
    <3>2. QED
      BY <3>1 DEF Earlier
  <2>3. ASSUME NEW t \in Nat, t < e.opened PROVE Group(Q, t) = Twins(e, e, Group(S, t))
    <3>1. e.opened # t
      BY <1>8, <2>3
    <3>2. \A x : Twin(e, e, x) = x
      BY DEF Twin
    <3>3. Group(Q, t) = Group(S, t)
      BY <3>1 DEF Group
    <3>4. QED
      BY <3>2, <3>3 DEF Twins
  <2>4. QED
    BY <1>1, <1>8, <2>1, <2>2, <2>3 DEF SameUntil
<1>11. QED
  BY <1>6, <1>7, <1>9, <1>10 DEF other

\* A backtest does not look ahead: no order depends on a result that came after
\* it was opened, and none on an observation made after it.
THEOREM BacktestsAreCausal == ReplaySpec => []ReplayIsCausal
<1>1. Backtests => ReplayIsCausal
  <2> SUFFICES ASSUME Backtests, task = "backtest", minute > MaxTime, NEW e \in rows
               PROVE  LET orders == {<<x.key, x.opened>> : x \in book.trades}
                          other == [e EXCEPT !.won = ~@]
                      IN  /\ Until(Booked((rows \ {e}) \cup {other}), e.settled) = Until(orders, e.settled)
                          /\ Until(Booked(rows \ {e}), e.opened) = Until(orders, e.opened)
    BY Zenon DEF ReplayIsCausal
  <2> DEFINE other == [e EXCEPT !.won = ~@]
             R == (rows \ {e}) \cup {other}
             Q == rows \ {e}
             s == Groups(rows)
             n == Len(s)
  <2>1. /\ rows \in Databases /\ policy \in Policies /\ minute \in Nat
        /\ \E b :
             /\ Books(b, rows, Timeline(rows))
             /\ \/ \E m \in 0..n : /\ book = b[m] /\ \A i \in 1..n : s[i] <= minute <=> i <= m
                \/ minute = MaxTime + 1 /\ book.trades = b[n].trades
    BY DEF Backtests
  <2>2. MaxTime \in Nat /\ policy \in {"BASELINE", "ADAPTIVE", "ADMISSION"}
    BY <2>1, ReplayAssumption, DailyAssumption
  <2>3. Rows(rows) /\ \A x \in rows : x.opened \in 1..MaxTime
    BY <2>1, DatabaseRows
  <2>4. /\ n \in Nat /\ \A i \in 1..n : s[i] \in Nat /\ s[i] <= minute
    <3>1. n \in Nat /\ \A i \in 1..n : s[i] \in Nat /\ s[i] \in Minutes(rows)
      BY <2>3, GroupsList
    <3>2. \A t \in Minutes(rows) : t \in 1..MaxTime
      BY <2>3 DEF Minutes
    <3>3. QED
      BY <2>1, <2>2, <3>1, <3>2
  <2>5. PICK b : Books(b, rows, Timeline(rows)) /\ book.trades = b[n].trades
    <3>1. ASSUME NEW m \in 0..n, \A i \in 1..n : s[i] <= minute <=> i <= m PROVE m = n
      <4>1. m # n => n \in 1..n /\ ~(n <= m)
        BY <2>4
      <4>2. QED
        BY <2>4, <3>1, <4>1
    <3> HIDE DEF s, n
    <3>2. QED
      BY <2>1, <3>1
  <2>6. /\ Rows(R) /\ SameUntil(rows, R, e, other, e.settled)
        /\ Rows(Q) /\ SameUntil(rows, Q, e, e, e.opened)
    BY <2>1, OtherRows
  <2>7. e.settled \in Nat /\ e.opened \in Nat
    BY <2>3 DEF Rows, Event
  <2> HIDE DEF R, Q, other
  <2>8. PICK c : Books(c, R, Timeline(R)) /\ Run(R, Timeline(R)) = c[Len(Groups(R))]
    BY <2>6, RunIs
  <2>9. PICK d : Books(d, Q, Timeline(Q)) /\ Run(Q, Timeline(Q)) = d[Len(Groups(Q))]
    BY <2>6, RunIs
  <2>10. Until({<<x.key, x.opened>> : x \in c[Len(Groups(R))].trades}, e.settled)
            = Until({<<x.key, x.opened>> : x \in b[n].trades}, e.settled)
    BY <2>2, <2>3, <2>5, <2>6, <2>7, <2>8, RunsAlike
  <2>11. Until({<<x.key, x.opened>> : x \in d[Len(Groups(Q))].trades}, e.opened)
            = Until({<<x.key, x.opened>> : x \in b[n].trades}, e.opened)
    BY <2>2, <2>3, <2>5, <2>6, <2>7, <2>9, RunsAlike
  <2>12. /\ Booked(R) = {<<x.key, x.opened>> : x \in c[Len(Groups(R))].trades}
         /\ Booked(Q) = {<<x.key, x.opened>> : x \in d[Len(Groups(Q))].trades}
    BY <2>8, <2>9 DEF Booked
  <2>13. QED
    BY <2>5, <2>10, <2>11, <2>12 DEF R, Q, other
<1>2. QED
  BY <1>1, InitBacktests, StepBacktests, PTL DEF ReplaySpec
-----------------------------------------------------------------------------
(* The selection kept up to date is the independent one.                    *)
Later(S, t) == {f \in S : f.opened >= t}

LEMMA FirstIs ==
  ASSUME NEW S, OneProfile(S), S # {}
  PROVE  First(S) \in S /\ \A f \in S : First(S).opened <= f.opened
<1> DEFINE T == {e.opened : e \in S}
<1>1. T \subseteq Nat /\ T # {}
  BY ProfileRows
<1>2. PICK t \in T : \A u \in T : t <= u
  <2> HIDE DEF T
  <2>1. QED
    BY <1>1, LeastExists
<1>3. PICK e \in S : e.opened = t
  OBVIOUS
<1>4. \A f \in S : e.opened <= f.opened
  BY <1>2, <1>3
<1>5. ASSUME NEW f \in S PROVE e = f \/ OpenedBefore(e, f)
  <2>1. e.opened \in Nat /\ f.opened \in Nat /\ e.opened <= f.opened
    BY <1>4, ProfileRows
  <2>2. e.opened = f.opened => e = f
    BY ProfileRows
  <2>3. QED
    BY <2>1, <2>2 DEF OpenedBefore
<1>6. First(S) \in S /\ \A f \in S : First(S) = f \/ OpenedBefore(First(S), f)
  <2>1. \E x \in S : \A f \in S : x = f \/ OpenedBefore(x, f)
    BY <1>5
  <2>2. QED
    BY <2>1 DEF First
<1>7. ASSUME NEW f \in S PROVE First(S).opened <= f.opened
  <2>1. First(S) = f \/ First(S).opened < f.opened
    BY <1>6, ProfileRows
  <2>2. First(S).opened \in Nat /\ f.opened \in Nat
    BY <1>6, ProfileRows
  <2>3. QED
    BY <2>1, <2>2
<1>8. QED
  BY <1>6, <1>7

LEMMA LatestIs ==
  ASSUME NEW S, OneProfile(S), S # {}, NEW n \in Nat, \A e \in S : e.opened <= n
  PROVE  Latest(S) \in S /\ \A f \in S : f.opened <= Latest(S).opened
<1> DEFINE T == {e.opened : e \in S}
<1>1. T \subseteq 0..n /\ T # {}
  BY ProfileRows
<1>2. PICK t \in T : \A u \in T : u <= t
  <2> HIDE DEF T
  <2>1. QED
    BY <1>1, GreatestExists
<1>3. PICK e \in S : e.opened = t
  OBVIOUS
<1>4. \A f \in S : f.opened <= e.opened
  BY <1>2, <1>3
<1>5. ASSUME NEW f \in S PROVE e = f \/ OpenedBefore(f, e)
  <2>1. e.opened \in Nat /\ f.opened \in Nat /\ f.opened <= e.opened
    BY <1>4, ProfileRows
  <2>2. e.opened = f.opened => e = f
    BY ProfileRows
  <2>3. QED
    BY <2>1, <2>2 DEF OpenedBefore
<1>6. Latest(S) \in S /\ \A f \in S : Latest(S) = f \/ OpenedBefore(f, Latest(S))
  <2>1. \E x \in S : \A f \in S : x = f \/ OpenedBefore(f, x)
    BY <1>5
  <2>2. QED
    BY <2>1 DEF Latest
<1>7. ASSUME NEW f \in S PROVE f.opened <= Latest(S).opened
  <2>1. Latest(S) = f \/ f.opened < Latest(S).opened
    BY <1>6, ProfileRows
  <2>2. Latest(S).opened \in Nat /\ f.opened \in Nat
    BY <1>6, ProfileRows
  <2>3. QED
    BY <2>1, <2>2
<1>8. QED
  BY <1>6, <1>7

\* One step of the walk over the events from a place on, and the whole walk.
WalkStep(canon, f, S) ==
    IF S = {} THEN [taken |-> {}, meets |-> {}]
    ELSE IF First(S) \in canon THEN [taken |-> {}, meets |-> {First(S)}]
    ELSE [f[Later(S \ {First(S)}, First(S).expires)] EXCEPT !.taken = @ \cup {First(S)}]

IsWalk(f, canon, D) == f = [S \in D |-> WalkStep(canon, f, S)]

\* There is such a walk, for each step leaves fewer events.
LEMMA WalkExists ==
  ASSUME NEW pool, OneProfile(pool), NEW canon
  PROVE  \E f : IsWalk(f, canon, SUBSET pool)
<1> DEFINE Dom(n) == {T \in SUBSET pool : Cardinality(T) <= n}
           bad == {n \in Nat : ~\E f : IsWalk(f, canon, Dom(n))}
<1>0. \A T \in SUBSET pool : IsFiniteSet(T) /\ Cardinality(T) \in Nat /\ Cardinality(T) <= Cardinality(pool) /\ OneProfile(T)
  BY FS_Subset, FS_CardinalityType, SomeOfProfile DEF OneProfile, Rows
<1>1. ASSUME NEW T \in SUBSET pool, T # {}
      PROVE  /\ Later(T \ {First(T)}, First(T).expires) \in SUBSET pool
             /\ Cardinality(Later(T \ {First(T)}, First(T).expires)) < Cardinality(T)
  <2> DEFINE L == Later(T \ {First(T)}, First(T).expires)
  <2>1. L \subseteq T /\ L # T
    BY <1>0, <1>1, FirstIs DEF Later
  <2> HIDE DEF L
  <2>2. L \in SUBSET pool /\ Cardinality(L) <= Cardinality(T) /\ Cardinality(L) # Cardinality(T)
    BY <1>0, <2>1, FS_Subset
  <2>3. QED
    BY <1>0, <2>2 DEF L
<1>2. ASSUME bad # {} PROVE FALSE
  <2>1. PICK n \in bad : \A m \in bad : n <= m
    <3>1. bad \subseteq Nat
      OBVIOUS
    <3> HIDE DEF bad
    <3>2. QED
      BY <1>2, <3>1, LeastExists
  <2>2. n \in Nat /\ ~\E f : IsWalk(f, canon, Dom(n))
    BY <2>1
  <2>3. CASE n = 0
    <3> DEFINE f == [S \in Dom(n) |-> [taken |-> {}, meets |-> {}]]
    <3>1. \A S \in Dom(n) : S = {}
      <4>1. ASSUME NEW S \in Dom(n) PROVE S = {}
        <5>1. IsFiniteSet(S) /\ Cardinality(S) = 0
          BY <1>0, <2>3
        <5>2. QED
          BY <5>1, FS_EmptySet
      <4>2. QED
        BY <4>1
    <3>2. \A S \in Dom(n) : f[S] = WalkStep(canon, f, S)
      BY <3>1 DEF WalkStep
    <3>3. f = [S \in Dom(n) |-> f[S]]
      OBVIOUS
    <3> HIDE DEF f
    <3>4. IsWalk(f, canon, Dom(n))
      BY <3>2, <3>3 DEF IsWalk
    <3>5. QED
      BY <2>2, <3>4
  <2>4. CASE n # 0
    <3>1. n - 1 \in Nat /\ n - 1 \notin bad
      <4>1. n - 1 \in Nat /\ ~(n <= n - 1)
        BY <2>2, <2>4
      <4>2. QED
        BY <2>1, <4>1
    <3>2. PICK g : IsWalk(g, canon, Dom(n - 1))
      BY <3>1
    <3> DEFINE f == [S \in Dom(n) |-> WalkStep(canon, g, S)]
    <3>3. \A S \in Dom(n - 1) : g[S] = WalkStep(canon, g, S)
      BY <3>2, Zenon DEF IsWalk
    <3>4. \A S \in Dom(n - 1) : S \in Dom(n)
      BY <1>0, <2>2
    <3>5. \A S \in Dom(n - 1) : f[S] = g[S]
      BY <3>3, <3>4
    <3>6. ASSUME NEW S \in Dom(n) PROVE f[S] = WalkStep(canon, f, S)
      <4>1. f[S] = WalkStep(canon, g, S)
        OBVIOUS
      <4>2. CASE S = {}
        BY <4>1, <4>2 DEF WalkStep
      <4>3. CASE S # {}
        <5> DEFINE L == Later(S \ {First(S)}, First(S).expires)
        <5>1. L \in Dom(n - 1)
          <6>1. S \in SUBSET pool /\ Cardinality(S) <= n
            OBVIOUS
          <6>2. L \in SUBSET pool /\ Cardinality(L) < Cardinality(S)
            BY <1>1, <4>3, <6>1
          <6> HIDE DEF L
          <6>3. QED
            BY <1>0, <2>2, <6>1, <6>2
        <5>2. f[L] = g[L]
          BY <3>5, <5>1
        <5> HIDE DEF f, L
        <5>3. QED
          BY <4>1, <5>2 DEF WalkStep, L
      <4>4. QED
        BY <4>2, <4>3
    <3>7. f = [S \in Dom(n) |-> f[S]]
      OBVIOUS
    <3> HIDE DEF f
    <3>8. IsWalk(f, canon, Dom(n))
      BY <3>6, <3>7 DEF IsWalk
    <3>9. QED
      BY <2>2, <3>8
  <2>5. QED
    BY <2>3, <2>4
<1>3. Cardinality(pool) \in Nat
  BY <1>0
<1>4. Dom(Cardinality(pool)) = SUBSET pool
  BY <1>0
<1>5. PICK f : IsWalk(f, canon, Dom(Cardinality(pool)))
  BY <1>2, <1>3
<1>6. QED
  BY <1>4, <1>5

LEMMA TakenIs ==
  ASSUME NEW pool, OneProfile(pool), NEW sel, NEW from
  PROVE  \E f : IsWalk(f, sel.canon, SUBSET pool) /\ Taken(sel, from, pool) = f[Later(pool, from)]
<1> DEFINE f == CHOOSE g : IsWalk(g, sel.canon, SUBSET pool)
<1>1. IsWalk(f, sel.canon, SUBSET pool)
  BY WalkExists
<1>2. Taken(sel, from, pool) = f[Later(pool, from)]
  BY Zenon DEF Taken, IsWalk, WalkStep, Later
<1> HIDE DEF f
<1>3. QED
  BY <1>1, <1>2

\* What a walk ends with: what it took, and what stands from where it met the selection.
WalkEnd(f, canon, S) ==
    f[S].taken \cup {x \in canon : \E m \in f[S].meets : x = m \/ OpenedBefore(m, x)}

WalkSelects(f, canon, S) ==
    /\ f[S] = [taken |-> f[S].taken, meets |-> f[S].meets]
    /\ AreIndependent(WalkEnd(f, canon, S), S)

LEMMA WalkValue ==
  ASSUME NEW pool, NEW canon, NEW f, IsWalk(f, canon, SUBSET pool), NEW S \in SUBSET pool
  PROVE  f[S] = WalkStep(canon, f, S)
<1>1. f = [T \in SUBSET pool |-> WalkStep(canon, f, T)]
  BY DEF IsWalk
<1>2. \A T \in SUBSET pool : [U \in SUBSET pool |-> WalkStep(canon, f, U)][T] = WalkStep(canon, f, T)
  OBVIOUS
<1>3. QED
  BY <1>1, <1>2, Zenon

LEMMA WalkSteps ==
  ASSUME NEW pool, NEW canon, OneProfile(canon \cup pool),
         NEW f, IsWalk(f, canon, SUBSET pool),
         \A m \in pool \cap canon :
             AreIndependent(Later(canon, m.opened), Later(pool, m.opened)),
         NEW t \in Nat, Later(pool, t) # {},
         LET m == First(Later(pool, t))
         IN  m \notin canon => WalkSelects(f, canon, Later(pool, m.expires))
  PROVE  WalkSelects(f, canon, Later(pool, t))
<1> DEFINE S == Later(pool, t)
           m == First(S)
           L == Later(pool, m.expires)
<1>1. S \in SUBSET pool /\ OneProfile(S) /\ OneProfile(pool)
  BY SomeOfProfile DEF Later
<1>2. m \in S /\ m \in pool /\ \A x \in S : m.opened <= x.opened
  BY <1>1, FirstIs
<1>3. \A x \in canon \cup pool : x.opened \in Nat /\ x.expires \in Nat /\ x.opened < x.expires
  BY ProfileRows
<1>4. \A x, y \in canon \cup pool : (x.opened = y.opened => x = y) /\ (OpenedBefore(x, y) <=> x.opened < y.opened)
  BY ProfileRows
<1>5. f[S] = WalkStep(canon, f, S)
  BY <1>1, WalkValue
<1>6. CASE m \in canon
  <2>1. f[S] = [taken |-> {}, meets |-> {m}]
    BY <1>5, <1>6 DEF WalkStep
  <2>2. WalkEnd(f, canon, S) = {x \in canon : x = m \/ OpenedBefore(m, x)}
    <3> HIDE DEF S, m
    <3>1. QED
      BY <2>1 DEF WalkEnd
  <2>3. \A x \in canon : (x = m \/ OpenedBefore(m, x)) <=> x.opened >= m.opened
    <3> HIDE DEF m
    <3>1. QED
      BY <1>2, <1>3, <1>4, <1>6
  <2>4. WalkEnd(f, canon, S) = Later(canon, m.opened)
    BY <2>2, <2>3 DEF Later
  <2>5. S = Later(pool, m.opened)
    <3> DEFINE o == m.opened
    <3>1. o \in Nat /\ o >= t /\ \A x \in pool : x.opened \in Nat
      BY <1>2, <1>3 DEF Later
    <3>2. \A x \in S : o <= x.opened
      BY <1>2
    <3> HIDE DEF m, o
    <3>3. \A x \in pool : x.opened >= t <=> x.opened >= o
      BY <3>1, <3>2 DEF Later
    <3>4. S = Later(pool, o)
      BY <3>3 DEF Later
    <3>5. QED
      BY <3>4 DEF o
  <2>6. AreIndependent(Later(canon, m.opened), Later(pool, m.opened))
    BY <1>2, <1>6
  <2>7. f[S] = [taken |-> f[S].taken, meets |-> f[S].meets]
    BY <2>1
  <2> HIDE DEF S, m
  <2>8. QED
    BY <2>4, <2>5, <2>6, <2>7, Zenon DEF S, WalkSelects
<1>7. CASE m \notin canon
  <2>1. L = Later(S \ {m}, m.expires)
    <3> DEFINE x == m.expires
    <3>1. x \in Nat /\ x >= t /\ ~(m.opened >= x)
      BY <1>2, <1>3 DEF Later
    <3> HIDE DEF m, x
    <3>2. \A y \in pool : y.opened >= x <=> y \in S \ {m} /\ y.opened >= x
      BY <1>3, <3>1 DEF Later
    <3>3. Later(pool, x) = Later(S \ {m}, x)
      BY <1>1, <3>2 DEF Later
    <3>4. QED
      BY <3>3 DEF x
  <2>2. f[S] = [f[L] EXCEPT !.taken = @ \cup {m}]
    BY <1>2, <1>5, <1>7, <2>1 DEF WalkStep
  <2>3. WalkSelects(f, canon, L)
    BY <1>7
  <2>4. L = {e \in S : e.opened >= m.opened + 1 /\ e.opened >= m.expires}
    <3> DEFINE x == m.expires
               o == m.opened
    <3>1. x \in Nat /\ o \in Nat /\ x >= t /\ x >= o + 1
      BY <1>2, <1>3 DEF Later
    <3> HIDE DEF m, x, o
    <3>2. Later(pool, x) = {e \in S : e.opened >= o + 1 /\ e.opened >= x}
      BY <1>3, <3>1 DEF Later
    <3>3. QED
      BY <3>2 DEF x, o
  <2>5. {e \in S : e.opened < m.opened + 1} = {m}
    <3>1. \A e \in S : e.opened \in Nat /\ m.opened \in Nat /\ m.opened <= e.opened /\ (e.opened = m.opened => e = m)
      BY <1>1, <1>2, <1>3, <1>4
    <3> HIDE DEF S, m
    <3>2. QED
      BY <1>2, <3>1
  <2>6. AreIndependent({m}, {m}) /\ m.opened + 1 \in Nat /\ m.expires \in Nat
    <3>1. m.opened \in Nat /\ m.expires \in Nat
      BY <1>2, <1>3
    <3> HIDE DEF m
    <3>2. QED
      BY <3>1 DEF AreIndependent
  <2> HIDE DEF S, m, L
  <2>7. f[S] = [taken |-> f[L].taken \cup {m}, meets |-> f[L].meets]
    BY <2>2, <2>3 DEF WalkSelects
  <2>8. WalkEnd(f, canon, S) = {m} \cup WalkEnd(f, canon, L)
    BY <2>7 DEF WalkEnd
  <2>9. AreIndependent(WalkEnd(f, canon, L), {e \in S : e.opened >= m.opened + 1 /\ e.opened >= m.expires})
    BY <2>3, <2>4, Zenon DEF WalkSelects
  <2>10. AreIndependent({m} \cup WalkEnd(f, canon, L), S)
    <3> DEFINE N == WalkEnd(f, canon, L)
               n == m.opened + 1
               x == m.expires
               B == {m}
    <3>1. AreIndependent(B, {e \in S : e.opened < n})
      BY <2>5, <2>6, Zenon
    <3>2. AreIndependent(N, {e \in S : e.opened >= n /\ e.opened >= x})
      BY <2>9
    <3>3. n \in Nat /\ x \in Nat
      BY <2>6
    <3>4. B # {} /\ \E b \in B : b.expires = x /\ \A g \in B : g.opened <= b.opened
      <4>1. m.opened \in Nat
        BY <1>2, <1>3
      <4>2. QED
        BY <4>1
    <3> HIDE DEF N, n, x, B
    <3>5. AreIndependent(B \cup N, S)
      BY <1>1, <3>1, <3>2, <3>3, <3>4, IndependentJoin
    <3>6. QED
      BY <3>5 DEF B, N
  <2>11. f[S] = [taken |-> f[S].taken, meets |-> f[S].meets]
    BY <2>7
  <2>12. QED
    BY <2>8, <2>10, <2>11, Zenon DEF WalkSelects, S
<1>8. QED
  BY <1>6, <1>7

\* From wherever it starts, a walk selects what is independent of the rows from there on.
LEMMA WalkRepairs ==
  ASSUME NEW pool, NEW canon, OneProfile(canon \cup pool),
         NEW f, IsWalk(f, canon, SUBSET pool),
         \A m \in pool \cap canon :
             AreIndependent(Later(canon, m.opened), Later(pool, m.opened)),
         NEW t \in Nat
  PROVE  WalkSelects(f, canon, Later(pool, t))
<1> DEFINE size(u) == Cardinality(Later(pool, u))
           bad == {u \in Nat : ~WalkSelects(f, canon, Later(pool, u))}
           sizes == {size(u) : u \in bad}
<1>0. OneProfile(pool)
  BY SomeOfProfile
<1>1. \A u \in Nat : IsFiniteSet(Later(pool, u)) /\ size(u) \in Nat
  BY <1>0, FS_Subset, FS_CardinalityType DEF OneProfile, Rows, Later
<1>2. ASSUME bad # {} PROVE FALSE
  <2>1. PICK n \in sizes : \A m \in sizes : n <= m
    <3>1. sizes \subseteq Nat /\ sizes # {}
      BY <1>1, <1>2
    <3> HIDE DEF sizes
    <3>2. QED
      BY <3>1, LeastExists
  <2>2. PICK u \in bad : size(u) = n
    OBVIOUS
  <2>3. \A v \in Nat : size(v) < size(u) => WalkSelects(f, canon, Later(pool, v))
    <3>1. ASSUME NEW v \in Nat, size(v) < size(u), v \in bad PROVE FALSE
      <4>1. size(v) \in sizes /\ size(u) \in Nat /\ size(v) \in Nat /\ ~(n <= size(v))
        BY <1>1, <2>2, <3>1
      <4>2. QED
        BY <2>1, <4>1
    <3>2. QED
      BY <3>1
  <2>4. CASE Later(pool, u) = {}
    <3>1. {} \in SUBSET pool
      OBVIOUS
    <3>2. f[{}] = [taken |-> {}, meets |-> {}]
      BY <3>1, WalkValue DEF WalkStep
    <3>3. WalkEnd(f, canon, {}) = {}
      BY <3>2 DEF WalkEnd
    <3>4. WalkSelects(f, canon, {})
      BY <3>2, <3>3 DEF WalkSelects, AreIndependent
    <3>5. QED
      BY <2>2, <2>4, <3>4
  <2>5. CASE Later(pool, u) # {}
    <3> DEFINE m == First(Later(pool, u))
    <3>1. m \in Later(pool, u) /\ m \in pool /\ m.expires \in Nat /\ m.opened \in Nat /\ m.opened < m.expires /\ m.opened >= u /\ u \in Nat
      <4>1. OneProfile(Later(pool, u))
        BY <1>0, SomeOfProfile DEF Later
      <4>2. m \in Later(pool, u)
        BY <2>5, <4>1, FirstIs
      <4>3. QED
        BY <1>0, <2>2, <4>2, ProfileRows DEF Later
    <3>2. size(m.expires) < size(u)
      <4> DEFINE x == m.expires
                 A == Later(pool, x)
                 B == Later(pool, u)
      <4>1. x \in Nat /\ x >= u /\ ~(m.opened >= x) /\ m \in B /\ \A e \in pool : e.opened \in Nat
        BY <1>0, <3>1, ProfileRows
      <4> HIDE DEF m, x
      <4>2. A \subseteq B /\ m \in B /\ m \notin A
        BY <3>1, <4>1 DEF Later
      <4>3. IsFiniteSet(B) /\ IsFiniteSet(A) /\ Cardinality(A) \in Nat /\ Cardinality(B) \in Nat
        BY <1>1, <3>1, <4>1
      <4> HIDE DEF A, B
      <4>4. A # B
        BY <4>2
      <4>5. Cardinality(A) <= Cardinality(B) /\ Cardinality(A) # Cardinality(B)
        BY <4>2, <4>3, <4>4, FS_Subset
      <4>6. Cardinality(A) < Cardinality(B)
        BY <4>3, <4>5
      <4>7. QED
        BY <4>6 DEF A, B, x
    <3>3. WalkSelects(f, canon, Later(pool, m.expires))
      BY <2>3, <3>1, <3>2
    <3>4. WalkSelects(f, canon, Later(pool, u))
      BY <2>5, <3>1, <3>3, WalkSteps
    <3>5. QED
      BY <2>2, <3>4
  <2>6. QED
    BY <2>4, <2>5
<1>3. QED
  BY <1>2

\* A selection of the rows of S.
Selects(sel, S) ==
    /\ sel = [all |-> S, canon |-> sel.canon]
    /\ AreIndependent(sel.canon, S)

LEMMA RepairSelects ==
  ASSUME NEW all, NEW canon, NEW e, OneProfile(all \cup canon \cup {e}), e \notin canon,
         AreIndependent({f \in canon : f.opened < e.opened}, {f \in all : f.opened < e.opened}),
         \A m \in canon : m.opened > e.opened =>
             AreIndependent(Later(canon, m.opened), Later(all, m.opened))
  PROVE  Selects(Repair([all |-> all, canon |-> canon], e), all)
<1> DEFINE sel    == [all |-> all, canon |-> canon]
           before == {f \in sel.canon : OpenedBefore(f, e)}
           from   == IF before = {} THEN e.opened ELSE Latest(before).expires
           pool   == {f \in sel.all : f = e \/ OpenedBefore(e, f)}
           run    == Taken(sel, from, pool)
           stands == {f \in sel.canon : \E m \in run.meets : f = m \/ OpenedBefore(m, f)}
           new    == before \cup run.taken \cup stands
<1>1. Repair(sel, e) = [all |-> all, canon |-> new]
  <2>1. Repair(sel, e) = [sel EXCEPT !.canon = new]
    BY Zenon DEF Repair
  <2> HIDE DEF new
  <2>2. QED
    BY <2>1
<1>2. \A x \in all \cup canon \cup {e} : x.opened \in Nat /\ x.expires \in Nat /\ x.opened < x.expires
  BY ProfileRows
<1>3. \A x, y \in all \cup canon \cup {e} : (x.opened = y.opened => x = y) /\ (OpenedBefore(x, y) <=> x.opened < y.opened)
  BY ProfileRows
<1>4. before = {f \in canon : f.opened < e.opened}
  BY <1>3
<1>5. pool = Later(all, e.opened)
  <2>1. \A x \in all : (x = e \/ OpenedBefore(e, x)) <=> x.opened >= e.opened
    BY <1>2, <1>3
  <2>2. QED
    BY <2>1 DEF Later
<1>6. OneProfile(canon \cup pool) /\ OneProfile(pool) /\ OneProfile(before) /\ OneProfile(all)
  <2>1. canon \cup pool \subseteq all \cup canon \cup {e} /\ pool \subseteq all \cup canon \cup {e}
        /\ before \subseteq all \cup canon \cup {e}
    OBVIOUS
  <2>2. QED
    BY <2>1, SomeOfProfile
<1>7. /\ from \in Nat
      /\ before = {} => from = e.opened
      /\ before # {} => \E b \in before : b.expires = from /\ \A f \in before : f.opened <= b.opened
  <2>1. CASE before = {}
    BY <1>2, <2>1
  <2>2. CASE before # {}
    <3>1. e.opened \in Nat /\ \A x \in before : x.opened <= e.opened
      BY <1>2, <1>3
    <3>2. from = Latest(before).expires
      BY <2>2
    <3>3. before \subseteq all \cup canon \cup {e}
      OBVIOUS
    <3> HIDE DEF before, from
    <3>4. Latest(before) \in before /\ \A f \in before : f.opened <= Latest(before).opened
      BY <1>6, <2>2, <3>1, LatestIs
    <3>5. QED
      BY <1>2, <2>2, <3>2, <3>3, <3>4
  <2>3. QED
    BY <2>1, <2>2
<1>8. PICK g : IsWalk(g, sel.canon, SUBSET pool) /\ run = g[Later(pool, from)]
  <2> HIDE DEF sel, pool, from
  <2>1. QED
    BY <1>6, TakenIs
<1>9. \A m \in pool \cap canon : AreIndependent(Later(canon, m.opened), Later(pool, m.opened))
  <2> SUFFICES ASSUME NEW m \in pool \cap canon
               PROVE  AreIndependent(Later(canon, m.opened), Later(pool, m.opened))
    OBVIOUS
  <2>1. m \in all /\ m.opened >= e.opened /\ m # e /\ m.opened \in Nat /\ e.opened \in Nat
    <3> HIDE DEF pool
    <3>1. QED
      BY <1>2, <1>5 DEF Later
  <2>2. m.opened > e.opened
    BY <1>3, <2>1
  <2>3. Later(pool, m.opened) = Later(all, m.opened)
    <3>1. \A x \in all : x.opened >= m.opened => x.opened >= e.opened
      BY <1>2, <2>1
    <3> HIDE DEF pool
    <3>2. QED
      BY <1>5, <3>1 DEF Later
  <2>4. QED
    BY <2>2, <2>3
<1>10. WalkSelects(g, canon, Later(pool, from))
  <2>1. IsWalk(g, canon, SUBSET pool)
    BY <1>8
  <2> HIDE DEF pool, from
  <2>2. QED
    BY <1>6, <1>7, <1>9, <2>1, WalkRepairs
<1>11. new = before \cup WalkEnd(g, canon, Later(pool, from))
  <2>1. stands = {x \in canon : \E m \in run.meets : x = m \/ OpenedBefore(m, x)}
    OBVIOUS
  <2> HIDE DEF pool, from, before, run, stands
  <2>2. QED
    BY <1>8, <2>1 DEF WalkEnd
<1>12. Later(pool, from) = {x \in all : x.opened >= e.opened /\ x.opened >= from}
  <2> HIDE DEF pool, from
  <2>1. QED
    BY <1>5 DEF Later
<1>13. AreIndependent(before \cup WalkEnd(g, canon, Later(pool, from)), all)
  <2> DEFINE N == WalkEnd(g, canon, Later(pool, from))
  <2>1. AreIndependent(N, {x \in all : x.opened >= e.opened /\ x.opened >= from})
    <3> HIDE DEF pool, from
    <3>1. QED
      BY <1>10, <1>12, Zenon DEF WalkSelects
  <2>2. AreIndependent(before, {x \in all : x.opened < e.opened})
    BY <1>4, Zenon
  <2>3. e.opened \in Nat
    BY <1>2
  <2> HIDE DEF N, before, from, pool
  <2>4. AreIndependent(before \cup N, all)
    BY <1>6, <1>7, <2>1, <2>2, <2>3, IndependentJoin
  <2>5. QED
    BY <2>4 DEF N
<1> HIDE DEF new
<1>14. Repair(sel, e).canon = new /\ Repair(sel, e) = [all |-> all, canon |-> Repair(sel, e).canon]
  BY <1>1
<1>15. AreIndependent(Repair(sel, e).canon, all)
  BY <1>11, <1>13, <1>14, Zenon
<1>16. QED
  BY <1>14, <1>15, Zenon DEF Selects, sel

\* A row that settles, wherever it opened, leaves the selection the independent one.
LEMMA InsertSelects ==
  ASSUME NEW sel, NEW S, Selects(sel, S), NEW e, e \notin S, OneProfile(S \cup {e})
  PROVE  Selects(Insert(sel, e), S \cup {e})
<1> DEFINE all == S \cup {e}
           canon == sel.canon
<1>1. canon \subseteq S /\ AreIndependent(canon, S)
  BY DEF Selects, AreIndependent
<1>2. Insert(sel, e) = Repair([all |-> all, canon |-> canon], e)
  <2>1. [sel EXCEPT !.all = @ \cup {e}] = [all |-> all, canon |-> canon]
    BY DEF Selects
  <2>2. QED
    BY <2>1 DEF Insert
<1>3. all \cup canon \cup {e} = all /\ e \notin canon
  BY <1>1
<1>4. \A x \in all : x.opened \in Nat /\ x.expires \in Nat /\ x.opened < x.expires
  BY ProfileRows
<1>5. OneProfile(S)
  BY SomeOfProfile
<1>6. AreIndependent({f \in canon : f.opened < e.opened}, {f \in all : f.opened < e.opened})
  <2>1. {f \in all : f.opened < e.opened} = {f \in S : f.opened < e.opened}
    <3>1. e.opened \in Nat
      BY <1>4
    <3>2. ~(e.opened < e.opened)
      BY <3>1
    <3>3. QED
      BY <3>2
  <2>2. e.opened \in Nat
    BY <1>4
  <2> HIDE DEF all, canon
  <2>3. QED
    BY <1>1, <1>5, <2>1, <2>2, IndependentBefore
<1>7. ASSUME NEW m \in canon, m.opened > e.opened
      PROVE  AreIndependent(Later(canon, m.opened), Later(all, m.opened))
  <2>1. Later(all, m.opened) = Later(S, m.opened)
    BY <1>1, <1>4, <1>7 DEF Later
  <2>2. m.opened \in Nat /\ \A f \in canon : f.opened < m.opened => f.expires <= m.opened
    BY <1>1, <1>4 DEF AreIndependent
  <2> HIDE DEF all, canon
  <2>3. AreIndependent(Later(canon, m.opened), Later(S, m.opened))
    BY <1>1, <1>5, <2>2, IndependentFrom DEF Later
  <2>4. QED
    BY <2>1, <2>3
<1> HIDE DEF all, canon
<1>8. Selects(Repair([all |-> all, canon |-> canon], e), all)
  <2>1. OneProfile(all \cup canon \cup {e})
    BY <1>3, Zenon DEF all
  <2>2. QED
    BY <1>3, <1>6, <1>7, <2>1, RepairSelects
<1>9. QED
  BY <1>2, <1>8 DEF all

\* So does a row that leaves the window.
LEMMA RetireSelects ==
  ASSUME NEW sel, NEW S, Selects(sel, S), NEW e \in S, OneProfile(S)
  PROVE  Selects(Retire(sel, e), S \ {e})
<1> DEFINE all == S \ {e}
           canon == sel.canon \ {e}
           less == [all |-> sel.all \ {e}, canon |-> sel.canon \ {e}]
<1>1. sel.canon \subseteq S /\ AreIndependent(sel.canon, S) /\ less = [all |-> all, canon |-> canon]
  <2>1. sel.all = S
    BY DEF Selects
  <2>2. QED
    BY <2>1 DEF Selects, AreIndependent
<1>2. \A x \in S : x.opened \in Nat /\ x.expires \in Nat /\ x.opened < x.expires
  BY ProfileRows
<1>3. CASE e \notin sel.canon
  <2>1. Retire(sel, e) = less
    BY <1>3 DEF Retire
  <2>2. canon = sel.canon
    BY <1>3
  <2>3. AreIndependent(canon, all)
    BY <1>1, <1>3, <2>2 DEF AreIndependent
  <2> HIDE DEF all, canon, less
  <2>4. QED
    BY <1>1, <2>1, <2>3 DEF Selects, all
<1>4. CASE e \in sel.canon
  <2>1. Retire(sel, e) = Repair([all |-> all, canon |-> canon], e)
    <3>1. Retire(sel, e) = Repair(less, e)
      BY <1>4 DEF Retire
    <3>2. QED
      BY <1>1, <3>1
  <2>2. all \cup canon \cup {e} = S /\ e \notin canon
    BY <1>1
  <2>3. AreIndependent({f \in canon : f.opened < e.opened}, {f \in all : f.opened < e.opened})
    <3>1. e.opened \in Nat
      BY <1>2
    <3>2. ~(e.opened < e.opened)
      BY <3>1
    <3>3. {f \in all : f.opened < e.opened} = {f \in S : f.opened < e.opened}
          /\ {f \in canon : f.opened < e.opened} = {f \in sel.canon : f.opened < e.opened}
      BY <3>2
    <3> HIDE DEF all, canon
    <3>4. QED
      BY <1>1, <3>1, <3>3, IndependentBefore
  <2>4. ASSUME NEW m \in canon, m.opened > e.opened
        PROVE  AreIndependent(Later(canon, m.opened), Later(all, m.opened))
    <3>1. Later(all, m.opened) = Later(S, m.opened) /\ Later(canon, m.opened) = Later(sel.canon, m.opened)
      <4>1. e.opened \in Nat /\ m.opened \in Nat /\ ~(e.opened >= m.opened)
        BY <1>1, <1>2, <2>4
      <4>2. QED
        BY <4>1 DEF Later
    <3>2. m.opened \in Nat /\ \A f \in sel.canon : f.opened < m.opened => f.expires <= m.opened
      BY <1>1, <1>2 DEF AreIndependent
    <3> HIDE DEF all, canon
    <3>3. AreIndependent(Later(sel.canon, m.opened), Later(S, m.opened))
      BY <1>1, <3>2, IndependentFrom DEF Later
    <3>4. QED
      BY <3>1, <3>3
  <2> HIDE DEF all, canon, less
  <2>5. Selects(Repair([all |-> all, canon |-> canon], e), all)
    <3>1. OneProfile(all \cup canon \cup {e})
      BY <2>2, Zenon
    <3>2. QED
      BY <2>2, <2>3, <2>4, <3>1, RepairSelects
  <2>6. QED
    BY <2>1, <2>5 DEF all
<1>5. QED
  BY <1>3, <1>4
-----------------------------------------------------------------------------
(* The replay of a profile, event by event.                                 *)
Up(s, i) == {s[j] : j \in 1..i}

Trace(b, s) == b[0] = NoReplay /\ \A i \in 1..Len(s) : b[i] = ReplayStep(b[i - 1], s[i])

TraceIs(b, s, i) ==
    /\ b[i] = [sel |-> b[i].sel, state |-> b[i].state, any |-> (i > 0)]
    /\ Selects(b[i].sel, Up(s, i))

TraceMoves(b, s, i) ==
    IF s[i] \in b[i].sel.canon
    THEN b[i].state = Classify(TailOf(Causal(b[i].sel.canon), Full),
                               IF i = 1 THEN "NONE" ELSE b[i - 1].state.status)
    ELSE b[i].state = b[i - 1].state /\ i # 1

\* The rows of a sequence, one more, and none twice.
LEMMA UpIs ==
  ASSUME NEW S, Rows(S), NEW s, InOrder(s, S)
  PROVE  /\ Len(s) \in Nat /\ DOMAIN s = 1..Len(s) /\ \A i \in 1..Len(s) : s[i] \in S
         /\ Up(s, 0) = {} /\ Up(s, Len(s)) = S
         /\ \A i \in 1..Len(s) : Up(s, i) = Up(s, i - 1) \cup {s[i]} /\ s[i] \notin Up(s, i - 1)
         /\ \A i \in 0..Len(s) : Up(s, i) \subseteq S
         /\ \A i, j \in 1..Len(s) : s[i] = s[j] => i = j
         /\ \A i \in 0..Len(s), j \in 1..Len(s) : s[j] \in Up(s, i) <=> j <= i
<1>1. Len(s) \in Nat /\ DOMAIN s = 1..Len(s) /\ \A i \in 1..Len(s) : s[i] \in S
  BY LenProperties, ElementOfSeq DEF InOrder
<1>2. \A e \in S : ~CausallyBefore(e, e)
  BY DEF CausallyBefore, Rows, Event
<1>3. ASSUME NEW i \in 1..Len(s), NEW j \in 1..Len(s), s[i] = s[j] PROVE i = j
  <2>1. ~(i < j) /\ ~(j < i)
    BY <1>1, <1>2, <1>3 DEF InOrder
  <2>2. QED
    BY <1>1, <2>1
<1>4. Up(s, 0) = {}
  BY DEF Up
<1>5. Up(s, Len(s)) = S
  BY <1>1 DEF Up, InOrder
<1>6. \A i \in 0..Len(s), j \in 1..Len(s) : s[j] \in Up(s, i) <=> j <= i
  <2> SUFFICES ASSUME NEW i \in 0..Len(s), NEW j \in 1..Len(s) PROVE s[j] \in Up(s, i) <=> j <= i
    OBVIOUS
  <2>1. ASSUME j <= i PROVE s[j] \in Up(s, i)
    BY <1>1, <2>1 DEF Up
  <2>2. ASSUME s[j] \in Up(s, i) PROVE j <= i
    <3>1. PICK h \in 1..i : s[j] = s[h]
      BY <2>2 DEF Up
    <3>2. h \in 1..Len(s)
      BY <1>1
    <3>3. QED
      BY <1>3, <3>1, <3>2
  <2>3. QED
    BY <2>1, <2>2
<1>7. ASSUME NEW i \in 1..Len(s) PROVE Up(s, i) = Up(s, i - 1) \cup {s[i]} /\ s[i] \notin Up(s, i - 1)
  <2>1. i - 1 \in 0..Len(s) /\ 1..i = (1..(i - 1)) \cup {i}
    BY <1>1
  <2>2. QED
    BY <1>6, <2>1 DEF Up
<1>8. \A i \in 0..Len(s) : Up(s, i) \subseteq S
  BY <1>1 DEF Up
<1>9. QED
  BY <1>1, <1>3, <1>4, <1>5, <1>6, <1>7, <1>8

\* A row that is not among the independent ones changes nothing.
LEMMA IndependentWithout ==
  ASSUME NEW S, NEW e \in S, OneProfile(S), NEW K, AreIndependent(K, S), e \notin K
  PROVE  AreIndependent(K, S \ {e})
BY DEF AreIndependent

LEMMA TraceStep ==
  ASSUME NEW S, OneProfile(S), NEW s, InOrder(s, S), NEW i \in 1..Len(s),
         NEW b, TraceIs(b, s, i - 1), b[i] = ReplayStep(b[i - 1], s[i])
  PROVE  /\ TraceIs(b, s, i) /\ TraceMoves(b, s, i)
         /\ s[i] \notin b[i].sel.canon => b[i].sel.canon = b[i - 1].sel.canon
<1> DEFINE r == b[i - 1]
           sel == Insert(r.sel, s[i])
           U == Up(s, i)
           V == Up(s, i - 1)
           e == s[i]
<1>1. Rows(S) /\ Len(s) \in Nat
  BY UpIs DEF OneProfile
<1>2. U = V \cup {e} /\ e \notin V /\ U \subseteq S /\ e \in S /\ V \subseteq S
  <2>1. i \in 0..Len(s) /\ i - 1 \in 0..Len(s)
    BY <1>1
  <2>2. QED
    BY <1>1, <2>1, UpIs
<1>3. OneProfile(U) /\ OneProfile(V)
  BY <1>2, SomeOfProfile
<1>4. Selects(r.sel, V) /\ r = [sel |-> r.sel, state |-> r.state, any |-> (i - 1 > 0)]
  BY DEF TraceIs
<1>5. Selects(sel, U)
  <2> HIDE DEF r, U, V, e
  <2>1. Selects(Insert(r.sel, e), V \cup {e})
    BY <1>2, <1>3, <1>4, InsertSelects
  <2>2. QED
    BY <1>2, <2>1 DEF e
<1>6. e \notin sel.canon => sel.canon = r.sel.canon
  <2> SUFFICES ASSUME e \notin sel.canon PROVE sel.canon = r.sel.canon
    OBVIOUS
  <2> HIDE DEF r, U, V, e, sel
  <2>1. AreIndependent(sel.canon, U) /\ AreIndependent(r.sel.canon, V) /\ e \in U /\ U \ {e} = V
    BY <1>2, <1>4, <1>5 DEF Selects
  <2>2. AreIndependent(sel.canon, V)
    <3>1. AreIndependent(sel.canon, U \ {e})
      BY <1>3, <2>1, IndependentWithout
    <3>2. QED
      BY <2>1, <3>1
  <2>3. QED
    BY <1>3, <2>1, <2>2, IndependentOnce
<1>7. e \in sel.canon => sel.canon # r.sel.canon
  BY <1>2, <1>4 DEF Selects, AreIndependent
<1>8. b[i] = Selected(r, sel)
  BY DEF ReplayStep
<1>9. CASE e \notin sel.canon
  <2>1. sel.canon = r.sel.canon
    BY <1>6, <1>9
  <2>2. i # 1
    <3>1. ASSUME i = 1 PROVE FALSE
      <4>1. V = {}
        BY <1>1, <3>1, UpIs
      <4> HIDE DEF V, r, e, sel, U
      <4>2. r.sel.canon = {} /\ U = {e}
        BY <1>2, <1>4, <4>1 DEF Selects, AreIndependent
      <4>3. AreIndependent(sel.canon, {e})
        BY <1>5, <4>2 DEF Selects
      <4>4. QED
        BY <2>1, <4>2, <4>3 DEF AreIndependent
    <3>2. QED
      BY <3>1
  <2>3. (i - 1 > 0) = (i > 0)
    BY <2>2
  <2> HIDE DEF r, sel
  <2>4. b[i] = [r EXCEPT !.sel = sel]
    BY <1>8, <2>1 DEF Selected
  <2>5. b[i] = [sel |-> sel, state |-> r.state, any |-> (i > 0)]
    <3> DEFINE x == i - 1 > 0
    <3>1. r = [sel |-> r.sel, state |-> r.state, any |-> x]
      BY <1>4
    <3> HIDE DEF x
    <3>2. b[i] = [sel |-> sel, state |-> r.state, any |-> x]
      BY <2>4, <3>1
    <3>3. x = (i > 0)
      BY <2>3 DEF x
    <3>4. QED
      BY <3>2, <3>3, Zenon
  <2>6. b[i].sel = sel /\ b[i].state = r.state /\ b[i] = [sel |-> b[i].sel, state |-> b[i].state, any |-> (i > 0)]
    <3> DEFINE x == i > 0
    <3>1. b[i] = [sel |-> sel, state |-> r.state, any |-> x]
      BY <2>5
    <3> HIDE DEF x
    <3>2. b[i].sel = sel /\ b[i].state = r.state /\ b[i] = [sel |-> b[i].sel, state |-> b[i].state, any |-> x]
      BY <3>1
    <3>3. QED
      BY <3>2 DEF x
  <2>7. TraceIs(b, s, i)
    BY <1>5, <2>6, Zenon DEF TraceIs
  <2>8. TraceMoves(b, s, i)
    BY <1>9, <2>2, <2>6, Zenon DEF TraceMoves, r
  <2>9. QED
    BY <2>1, <2>6, <2>7, <2>8, Zenon DEF r
<1>10. CASE e \in sel.canon
  <2> DEFINE prev == IF i = 1 THEN "NONE" ELSE r.state.status
             st == Classify(TailOf(Causal(sel.canon), Full), prev)
  <2>1. OneProfile(sel.canon)
    <3> HIDE DEF sel, U
    <3>1. QED
      BY <1>3, <1>5, SomeOfProfile DEF Selects, AreIndependent
  <2>2. BySettlement(sel.canon) = Causal(sel.canon)
    <3> HIDE DEF sel
    <3>1. QED
      BY <2>1, SettlementIsCausal
  <2>3. r.any = (i # 1)
    <3> DEFINE x == i - 1 > 0
    <3>1. r = [sel |-> r.sel, state |-> r.state, any |-> x]
      BY <1>4
    <3>2. x = (i # 1)
      OBVIOUS
    <3> HIDE DEF x, r
    <3>3. r.any = x
      BY <3>1
    <3>4. QED
      BY <3>2, <3>3, Zenon
  <2>4. (IF r.any THEN r.state.status ELSE "NONE") = prev
    <3> HIDE DEF r
    <3>1. CASE i = 1
      BY <2>3, <3>1, Zenon
    <3>2. CASE i # 1
      BY <2>3, <3>2, Zenon
    <3>3. QED
      BY <3>1, <3>2
  <2> HIDE DEF sel, r, prev
  <2>5. b[i] = [sel |-> sel, any |-> TRUE, state |-> Classify(TailOf(BySettlement(sel.canon), Full), prev)]
    <3>1. sel.canon # r.sel.canon
      BY <1>7, <1>10
    <3>2. QED
      BY <1>8, <2>4, <3>1, Zenon DEF Selected
  <2> HIDE DEF st
  <2>6. b[i] = [sel |-> sel, any |-> TRUE, state |-> st]
    BY <2>2, <2>5, Zenon DEF st
  <2>7. b[i].sel = sel /\ b[i].state = st /\ b[i] = [sel |-> b[i].sel, state |-> b[i].state, any |-> TRUE]
    BY <2>6
  <2>8. (i > 0) = TRUE
    OBVIOUS
  <2>9. TraceIs(b, s, i)
    BY <1>5, <2>7, <2>8, Zenon DEF TraceIs
  <2>10. TraceMoves(b, s, i)
    BY <1>10, <2>7, Zenon DEF TraceMoves, st, prev, r
  <2>11. e \in b[i].sel.canon
    BY <1>10, <2>7
  <2>12. QED
    BY <2>9, <2>10, <2>11
<1>11. QED
  BY <1>9, <1>10

LEMMA TraceHolds ==
  ASSUME NEW S, OneProfile(S), NEW s, InOrder(s, S), NEW b, Trace(b, s)
  PROVE  /\ \A i \in 0..Len(s) : TraceIs(b, s, i)
         /\ \A i \in 1..Len(s) : TraceMoves(b, s, i) /\ (s[i] \notin b[i].sel.canon => b[i].sel.canon = b[i - 1].sel.canon)
<1> DEFINE bad == {i \in 0..Len(s) : ~TraceIs(b, s, i)}
<1>0. Rows(S) /\ Len(s) \in Nat /\ Up(s, 0) = {}
  BY UpIs DEF OneProfile
<1>1. TraceIs(b, s, 0)
  <2>1. b[0] = [sel |-> NoSelection, state |-> Empty, any |-> FALSE]
    BY DEF Trace, NoReplay
  <2>2. (0 > 0) = FALSE
    OBVIOUS
  <2>3. b[0].sel = NoSelection /\ b[0] = [sel |-> b[0].sel, state |-> b[0].state, any |-> FALSE]
    BY <2>1
  <2>4. Selects(NoSelection, {})
    BY DEF Selects, NoSelection, AreIndependent
  <2>5. QED
    BY <1>0, <2>2, <2>3, <2>4, Zenon DEF TraceIs
<1>2. ASSUME bad # {} PROVE FALSE
  <2>1. PICK i \in bad : \A j \in bad : i <= j
    <3>1. bad \subseteq Nat
      BY <1>0
    <3> HIDE DEF bad
    <3>2. QED
      BY <1>2, <3>1, LeastExists
  <2>2. i \in 0..Len(s) /\ ~TraceIs(b, s, i)
    BY <2>1
  <2>3. i # 0
    BY <1>1, <2>2
  <2>4. i \in 1..Len(s) /\ i - 1 \in 0..Len(s) /\ ~(i <= i - 1)
    BY <1>0, <2>2, <2>3
  <2>5. TraceIs(b, s, i - 1)
    <3>1. i - 1 \notin bad
      BY <2>1, <2>4
    <3>2. QED
      BY <2>4, <3>1
  <2>6. b[i] = ReplayStep(b[i - 1], s[i])
    BY <2>4 DEF Trace
  <2>7. TraceIs(b, s, i)
    BY <2>4, <2>5, <2>6, TraceStep
  <2>8. QED
    BY <2>2, <2>7
<1>3. \A i \in 0..Len(s) : TraceIs(b, s, i)
  BY <1>2
<1>4. ASSUME NEW i \in 1..Len(s)
      PROVE  TraceMoves(b, s, i) /\ (s[i] \notin b[i].sel.canon => b[i].sel.canon = b[i - 1].sel.canon)
  <2>1. i - 1 \in 0..Len(s)
    BY <1>0
  <2>2. TraceIs(b, s, i - 1) /\ b[i] = ReplayStep(b[i - 1], s[i])
    BY <1>3, <2>1 DEF Trace
  <2>3. QED
    BY <2>2, TraceStep
<1> HIDE DEF bad
<1>5. QED
  BY <1>3, <1>4

\* A state is that of such a trace.
LEMMA ReplayedIs ==
  ASSUME NEW S, OneProfile(S)
  PROVE  \E b : /\ Trace(b, Causal(S))
                /\ Replayed(S) = b[Len(Causal(S))].state
                /\ FoldLeft(ReplayStep, NoReplay, Causal(S)) = b[Len(Causal(S))]
<1> DEFINE s == Causal(S)
<1>1. InOrder(s, S) /\ Rows(S)
  BY CausalLists DEF OneProfile
<1>2. Len(s) \in Nat /\ DOMAIN s = 1..Len(s)
  <2> HIDE DEF s
  <2>1. QED
    BY <1>1, UpIs
<1>3. PICK b : /\ b[0] = NoReplay /\ \A i \in 1..Len(s) : b[i] = ReplayStep(b[i - 1], s[i])
               /\ FoldLeft(ReplayStep, NoReplay, s) = b[Len(s)]
  <2> HIDE DEF s
  <2>1. QED
    BY <1>2, ReplayFold
<1>4. QED
  BY <1>3 DEF Trace, Replayed

-----------------------------------------------------------------------------
(* What the replay of a profile keeps from a place on after which its rows  *)
(* come in the order of their opening.                                      *)
Rising(s, p) == \A i, j \in 1..Len(s) : p < i /\ i < j => s[i].opened < s[j].opened

LEMMA RisingIs ==
  ASSUME NEW S, OneProfile(S), NEW s, InOrder(s, S), NEW p \in Nat,
         \A i \in 1..(Len(s) - 1) : p < i => ~OpenedBefore(s[i + 1], s[i])
  PROVE  Rising(s, p)
<1>1. Rows(S) /\ Len(s) \in Nat /\ \A i \in 1..Len(s) : s[i] \in S
  BY UpIs DEF OneProfile
<1>2. \A i, j \in 1..Len(s) : s[i] = s[j] => i = j
  BY <1>1, UpIs
<1>3. ASSUME NEW i \in 1..Len(s), p < i PROVE \A j \in 1..Len(s) : i < j => s[i].opened < s[j].opened
  <2> DEFINE bad == {j \in 1..Len(s) : i < j /\ ~(s[i].opened < s[j].opened)}
  <2>1. ASSUME bad # {} PROVE FALSE
    <3>1. PICK j \in bad : \A h \in bad : j <= h
      <4>1. bad \subseteq Nat
        BY <1>1
      <4> HIDE DEF bad
      <4>2. QED
        BY <2>1, <4>1, LeastExists
    <3>2. j \in 1..Len(s) /\ i < j /\ ~(s[i].opened < s[j].opened)
      BY <3>1
    <3> DEFINE h == j - 1
               x == s[h]
               y == s[j]
               z == s[i]
    <3>3. h \in 1..(Len(s) - 1) /\ h \in 1..Len(s) /\ h + 1 = j /\ p < h /\ i <= h /\ ~(j <= h) /\ i \in Int
      BY <1>1, <1>3, <3>2
    <3>4. ~OpenedBefore(s[h + 1], s[h])
      BY <3>3
    <3>5. ~OpenedBefore(y, x)
      BY <3>3, <3>4
    <3>6. x \in S /\ y \in S /\ z \in S /\ x # y
      <4>1. h # j
        BY <3>3
      <4>2. QED
        BY <1>1, <1>2, <3>2, <3>3, <4>1
    <3>7. x.opened \in Nat /\ y.opened \in Nat /\ z.opened \in Nat /\ (OpenedBefore(y, x) <=> y.opened < x.opened) /\ x.opened # y.opened
      <4> HIDE DEF x, y, z
      <4>1. QED
        BY <3>6, ProfileRows
    <3>8. z.opened <= x.opened
      <4>1. CASE h = i
        BY <3>7, <4>1
      <4>2. CASE h # i
        <5>1. i < h
          BY <3>3, <4>2
        <5>2. h \notin bad
          BY <3>1, <3>3
        <5>3. QED
          BY <3>3, <3>7, <5>1, <5>2
      <4>3. QED
        BY <4>1, <4>2
    <3>9. ~(z.opened < y.opened)
      BY <3>2
    <3> HIDE DEF x, y, z
    <3>10. QED
      BY <3>5, <3>7, <3>8, <3>9
  <2>2. QED
    BY <2>1
<1>4. QED
  BY <1>3 DEF Rising

\* A row stays independent, or does not become it.
LEMMA TraceKeeps ==
  ASSUME NEW S, OneProfile(S), NEW s, InOrder(s, S), NEW b, Trace(b, s),
         NEW p \in Nat, Rising(s, p), NEW i \in 1..Len(s), NEW j \in 1..Len(s), p < i, i <= j
  PROVE  s[i] \in b[j].sel.canon <=> s[i] \in b[i].sel.canon
<1> DEFINE t == s[i].opened + 1
           U == Up(s, i)
           V == Up(s, j)
           K == b[i].sel.canon
           L == b[j].sel.canon
           e == s[i]
<1>1. Rows(S) /\ Len(s) \in Nat /\ i \in 0..Len(s) /\ j \in 0..Len(s) /\ \A h \in 1..Len(s) : s[h] \in S
  <2>1. Rows(S)
    BY DEF OneProfile
  <2>2. QED
    BY <2>1, UpIs
<1>2. OneProfile(U) /\ OneProfile(V) /\ U \subseteq S /\ V \subseteq S /\ e \in U /\ e \in V
  <2>1. U \subseteq S /\ V \subseteq S
    BY <1>1, UpIs
  <2>2. QED
    BY <1>1, <2>1, SomeOfProfile, UpIs
<1>3. AreIndependent(K, U) /\ AreIndependent(L, V)
  BY <1>1, TraceHolds DEF TraceIs, Selects
<1>4. t \in Nat /\ \A x \in S : x.opened \in Nat
  BY <1>1, ProfileRows
<1>5. {x \in U : x.opened < t} = {x \in V : x.opened < t}
  <2>1. ASSUME NEW h \in 1..Len(s), h <= j, s[h].opened < t PROVE h <= i
    <3>1. ~(i < h)
      <4>1. ASSUME i < h PROVE FALSE
        <5>1. s[i].opened < s[h].opened
          BY <4>1 DEF Rising
        <5>2. s[i].opened \in Nat /\ s[h].opened \in Nat
          BY <1>1, <1>4
        <5>3. QED
          BY <2>1, <5>1, <5>2
      <4>2. QED
        BY <4>1
    <3>2. QED
      BY <3>1
  <2> HIDE DEF t
  <2>2. \A x : x \in V /\ x.opened < t => x \in U
    <3>1. \A h \in 1..j : h \in 1..Len(s)
      BY <1>1
    <3>2. QED
      BY <2>1, <3>1 DEF Up
  <2>3. \A x : x \in U => x \in V
    BY <1>1 DEF Up
  <2>4. QED
    BY <2>2, <2>3
<1> HIDE DEF U, V, K, L
<1>6. AreIndependent({x \in K : x.opened < t}, {x \in U : x.opened < t})
  BY <1>2, <1>3, <1>4, IndependentBefore
<1>7. AreIndependent({x \in L : x.opened < t}, {x \in V : x.opened < t})
  BY <1>2, <1>3, <1>4, IndependentBefore
<1>8. OneProfile({x \in U : x.opened < t})
  BY <1>2, SomeOfProfile
<1>9. {x \in K : x.opened < t} = {x \in L : x.opened < t}
  BY <1>5, <1>6, <1>7, <1>8, IndependentOnce
<1>10. e.opened < t
  BY <1>1, <1>4
<1>11. QED
  BY <1>9, <1>10 DEF K, L

-----------------------------------------------------------------------------
(* The ends of sequences.                                                   *)
EndsWith(c, u) ==
    /\ Len(u) \in Nat /\ Len(c) \in Nat /\ Len(u) <= Len(c)
    /\ \A i \in 1..Len(u) : c[Len(c) - Len(u) + i] = u[i]

LEMMA TailValues ==
  ASSUME NEW S, NEW c \in Seq(S), NEW n \in Nat
  PROVE  LET m == IF Len(c) > n THEN n ELSE Len(c)
         IN  /\ TailOf(c, n) \in Seq(S) /\ Len(TailOf(c, n)) = m /\ DOMAIN TailOf(c, n) = 1..m
             /\ \A i \in 1..m : TailOf(c, n)[i] = c[Len(c) - m + i]
<1> DEFINE m == IF Len(c) > n THEN n ELSE Len(c)
           a == IF Len(c) > n THEN Len(c) - n + 1 ELSE 1
<1>1. Len(c) \in Nat /\ m \in Nat /\ a = Len(c) - m + 1 /\ m <= Len(c) /\ a \in 1..(Len(c) + 1)
  OBVIOUS
<1>2. TailOf(c, n) = SubSeq(c, a, Len(c))
  BY DEF TailOf
<1> HIDE DEF m, a
<1>3. /\ SubSeq(c, a, Len(c)) \in Seq(S) /\ Len(SubSeq(c, a, Len(c))) = m
      /\ \A i \in 1..m : SubSeq(c, a, Len(c))[i] = c[a + i - 1]
  <2>1. \A i \in a..Len(c) : i \in 1..Len(c) /\ c[i] \in S
    BY <1>1
  <2>2. QED
    BY <1>1, <2>1, SubSeqProperties
<1>4. \A i \in 1..m : a + i - 1 = Len(c) - m + i
  BY <1>1
<1>5. DOMAIN SubSeq(c, a, Len(c)) = 1..m
  BY <1>3, LenProperties
<1>6. QED
  BY <1>2, <1>3, <1>4, <1>5 DEF m

LEMMA TailSame ==
  ASSUME NEW S, NEW c \in Seq(S), NEW d \in Seq(S), NEW u, EndsWith(c, u), EndsWith(d, u), NEW n \in Nat,
         Len(u) >= n \/ (Len(c) = Len(u) /\ Len(d) = Len(u))
  PROVE  TailOf(c, n) = TailOf(d, n)
<1> DEFINE k == IF Len(c) > n THEN n ELSE Len(c)
           m == IF Len(d) > n THEN n ELSE Len(d)
<1>0. Len(c) \in Nat /\ Len(d) \in Nat /\ Len(u) \in Nat /\ Len(u) <= Len(c) /\ Len(u) <= Len(d)
  BY DEF EndsWith
<1>1. k = m /\ k \in Nat /\ k <= Len(u)
  BY <1>0
<1>2. /\ TailOf(c, n) \in Seq(S) /\ Len(TailOf(c, n)) = k /\ \A i \in 1..k : TailOf(c, n)[i] = c[Len(c) - k + i]
      /\ TailOf(d, n) \in Seq(S) /\ Len(TailOf(d, n)) = m /\ \A i \in 1..m : TailOf(d, n)[i] = d[Len(d) - m + i]
  BY TailValues
<1> HIDE DEF k, m
<1>3. ASSUME NEW i \in 1..k PROVE c[Len(c) - k + i] = d[Len(d) - k + i]
  <2> DEFINE h == Len(u) - k + i
  <2>1. h \in 1..Len(u) /\ Len(c) - Len(u) + h = Len(c) - k + i /\ Len(d) - Len(u) + h = Len(d) - k + i
    BY <1>0, <1>1
  <2> HIDE DEF h
  <2>2. c[Len(c) - Len(u) + h] = u[h] /\ d[Len(d) - Len(u) + h] = u[h]
    BY <2>1 DEF EndsWith
  <2>3. QED
    BY <2>1, <2>2
<1> DEFINE x == TailOf(c, n)
           y == TailOf(d, n)
<1>4. x \in Seq(S) /\ y \in Seq(S) /\ Len(x) = Len(y) /\ \A i \in 1..Len(x) : x[i] = y[i]
  BY <1>1, <1>2, <1>3
<1> HIDE DEF x, y
<1>5. x = y
  BY <1>4, SeqEqual
<1>6. QED
  BY <1>5 DEF x, y
\* Rows that all the others come before are listed last, in their order.
LEMMA CausalSuffix ==
  ASSUME NEW A, Rows(A), NEW U, U \subseteq A, \A x \in A \ U, u \in U : CausallyBefore(x, u)
  PROVE  /\ EndsWith(Causal(A), Causal(U)) /\ Len(Causal(U)) = Cardinality(U)
         /\ \A i \in 1..Len(Causal(A)) : Causal(A)[i] \in U <=> i > Len(Causal(A)) - Len(Causal(U))
<1> DEFINE P == A \ U
           c == Causal(A)
           q == Causal(P)
           k == Cardinality(P)
           n == Cardinality(U)
<1>1. Rows(P) /\ Rows(U)
  BY FS_Subset DEF Rows
<1>2. IsFiniteSet(A) /\ IsFiniteSet(P) /\ IsFiniteSet(U) /\ k \in Nat /\ n \in Nat /\ Cardinality(A) = k + n
  <2>1. IsFiniteSet(A) /\ IsFiniteSet(P) /\ IsFiniteSet(U) /\ k \in Nat /\ n \in Nat
    BY <1>1, FS_CardinalityType DEF Rows
  <2>2. A = P \cup U /\ P \cap U = {}
    OBVIOUS
  <2> HIDE DEF P
  <2>3. Cardinality(P \cup U) = Cardinality(P) + Cardinality(U) - Cardinality(P \cap U)
    BY <2>1, FS_Union
  <2>4. Cardinality({}) = 0
    BY FS_EmptySet
  <2>5. Cardinality(A) = k + n - Cardinality({})
    BY <2>2, <2>3, Zenon
  <2> HIDE DEF k, n
  <2>6. QED
    BY <2>1, <2>4, <2>5
<1>3. InOrder(c, A) /\ InOrder(q, P)
  BY <1>1, CausalLists
<1>4. Lists(c, A, CausalOrder(A)) /\ Lists(q, P, CausalOrder(P)) /\ StrictOrder(CausalOrder(A), A) /\ StrictOrder(CausalOrder(P), P)
  BY <1>1, <1>3, InOrderIs, RowOrders
<1>5. ComesFirst(P, CausalOrder(P), A, CausalOrder(A))
  <2>1. ASSUME NEW e \in P, NEW f \in A PROVE <<f, e>> \in CausalOrder(A) <=> f \in P /\ <<f, e>> \in CausalOrder(P)
    <3>1. <<f, e>> \in CausalOrder(A) <=> CausallyBefore(f, e)
      BY DEF CausalOrder
    <3>2. f \in P => (<<f, e>> \in CausalOrder(P) <=> CausallyBefore(f, e))
      BY DEF CausalOrder
    <3>3. f \notin P => ~CausallyBefore(f, e)
      <4>1. f \notin P => CausallyBefore(e, f)
        OBVIOUS
      <4>2. /\ e.key \in Nat /\ e.opened \in Nat /\ e.settled \in Nat
            /\ f.key \in Nat /\ f.opened \in Nat /\ f.settled \in Nat
        BY DEF Rows, Event
      <4>3. QED
        BY <4>1, <4>2 DEF CausallyBefore
    <3>4. QED
      BY <3>1, <3>2, <3>3
  <2>2. QED
    BY <2>1 DEF ComesFirst
<1> HIDE DEF P, c, q
<1>6. StartsWith(c, q, P)
  BY <1>2, <1>4, <1>5, PrefixLists
<1>7. Len(q) = k /\ Len(c) = k + n /\ \A i \in 1..(k + n) : c[i] \in A /\ (c[i] \in P <=> i <= k)
  <2>1. Len(q) = k /\ Len(c) = k + n /\ \A i \in 1..Len(c) : c[i] \in A
    BY <1>2, <1>4, ElementOfSeq DEF Lists
  <2>2. QED
    BY <1>6, <2>1 DEF StartsWith
<1>8. \A i \in 1..(k + n) : c[i] \in U <=> i > k
  <2>1. \A x \in A : x \in U <=> x \notin P
    BY DEF P
  <2>2. QED
    BY <1>2, <1>7, <2>1
<1> DEFINE v == [i \in 1..n |-> c[k + i]]
<1>9. \A i \in 1..n : k + i \in 1..(k + n) /\ c[k + i] \in U
  BY <1>2, <1>8
<1>10. v \in [1..n -> U] /\ \A i \in 1..n : v[i] = c[k + i]
  BY <1>9
<1> HIDE DEF v
<1>11. v \in Seq(U) /\ Len(v) = n
  BY <1>2, <1>10
<1>12. InOrder(v, U)
  <2>1. ASSUME NEW e \in U PROVE \E i \in 1..Len(v) : v[i] = e
    <3>1. PICK i \in 1..(k + n) : c[i] = e
      BY <1>3, <1>7 DEF InOrder
    <3>2. i > k /\ i - k \in 1..n /\ k + (i - k) = i
      BY <1>2, <1>8, <3>1
    <3>3. v[i - k] = e
      BY <1>10, <3>1, <3>2
    <3>4. QED
      BY <1>11, <3>2, <3>3
  <2>2. ASSUME NEW i \in 1..n, NEW j \in 1..n PROVE i < j <=> CausallyBefore(v[i], v[j])
    <3>1. k + i \in 1..Len(c) /\ k + j \in 1..Len(c)
      BY <1>7, <1>9
    <3>2. k + i < k + j <=> CausallyBefore(c[k + i], c[k + j])
      BY <1>3, <3>1 DEF InOrder
    <3>3. QED
      BY <1>2, <1>10, <3>2
  <2>3. QED
    BY <1>11, <2>1, <2>2 DEF InOrder
<1>13. v = Causal(U)
  BY <1>1, <1>12, CausalLists
<1>14. /\ EndsWith(c, v) /\ Len(v) = n
       /\ \A i \in 1..Len(c) : c[i] \in U <=> i > Len(c) - Len(v)
  <2>1. Len(c) - Len(v) = k
    BY <1>2, <1>7, <1>11
  <2>2. QED
    BY <1>2, <1>7, <1>8, <1>10, <1>11, <2>1 DEF EndsWith
<1>15. QED
  BY <1>13, <1>14, Zenon DEF c

\* What a list in order starts with is in order.
LEMMA CausalUp ==
  ASSUME NEW K, Rows(K), NEW s, InOrder(s, K), NEW k \in 0..Len(s)
  PROVE  SubSeq(s, 1, k) = Causal(Up(s, k)) /\ Len(SubSeq(s, 1, k)) = k /\ SubSeq(s, 1, k) \in Seq(K)
<1> DEFINE U == Up(s, k)
           v == SubSeq(s, 1, k)
<1>1. /\ Len(s) \in Nat /\ U \subseteq K /\ \A i \in 1..Len(s) : s[i] \in K
      /\ \A i, j \in 1..Len(s) : s[i] = s[j] => i = j
  BY UpIs
<1>2. k \in Nat /\ k <= Len(s)
  BY <1>1
<1>3. /\ v \in Seq(K) /\ Len(v) = k /\ \A i \in 1..k : v[i] = s[i] /\ i \in 1..Len(s) /\ s[i] \in U
  <2>1. \A i \in 1..k : i \in 1..Len(s) /\ s[i] \in K /\ s[i] \in U
    BY <1>1, <1>2 DEF Up
  <2>2. v \in Seq(K) /\ Len(v) = k /\ \A i \in 1..k : v[i] = s[1 + i - 1]
    BY <1>2, <2>1, SubSeqProperties
  <2>3. \A i \in 1..k : 1 + i - 1 = i
    BY <1>2
  <2>4. QED
    BY <2>1, <2>2, <2>3
<1>4. Rows(U)
  BY <1>1, FS_Subset DEF Rows
<1>5. \A e \in U : \E i \in 1..k : s[i] = e
  BY DEF Up
<1> HIDE DEF U, v
<1>6. v \in Seq(U)
  <2>1. \A i \in 1..Len(v) : v[i] \in U
    BY <1>3
  <2>2. v \in [1..Len(v) -> U]
    BY <1>3, <2>1
  <2>3. QED
    BY <1>2, <1>3, <2>2
<1>7. Cardinality(U) = k
  <2> DEFINE f == [i \in 1..k |-> s[i]]
  <2>1. f \in Bijection(1..k, U)
    BY <1>1, <1>3, <1>5 DEF Bijection, Injection, Surjection, IsInjective
  <2>2. IsFiniteSet(1..k) /\ Cardinality(1..k) = k
    BY <1>2, FS_Interval
  <2> HIDE DEF f
  <2>3. QED
    BY <2>1, <2>2, FS_Bijection DEF ExistsBijection
<1>8. InOrder(v, U)
  <2>1. \A e \in U : \E i \in 1..Len(v) : v[i] = e
    BY <1>3, <1>5
  <2>2. \A i, j \in 1..Len(v) : i < j <=> CausallyBefore(v[i], v[j])
    BY <1>3 DEF InOrder
  <2>3. QED
    BY <1>3, <1>6, <1>7, <2>1, <2>2 DEF InOrder
<1>9. v = Causal(U)
  BY <1>4, <1>8, CausalLists
<1>10. QED
  BY <1>3, <1>9, Zenon DEF v, U
-----------------------------------------------------------------------------
(* The state after the last rows, from the independent rows alone.          *)

\* A list of some of the rows of another list.
Among(q, s, K) ==
    /\ Len(q) \in Nat
    /\ \A k \in 1..Len(q) : q[k] \in K /\ \E a \in 1..Len(s) : s[a] = q[k]
    /\ \A a, c \in 1..Len(s), k, l \in 1..Len(q) : s[a] = q[k] /\ s[c] = q[l] => (a < c <=> k < l)
    /\ \A a \in 1..Len(s) : s[a] \in K => \E k \in 1..Len(q) : s[a] = q[k]

LEMMA SelectedPlaces ==
  ASSUME NEW S, Rows(S), NEW s, InOrder(s, S), NEW K, K \subseteq S
  PROVE  Rows(K) /\ InOrder(Causal(K), K) /\ Among(Causal(K), s, K)
<1> DEFINE q == Causal(K)
<1>1. Rows(K)
  BY FS_Subset DEF Rows
<1>2. InOrder(q, K)
  BY <1>1, CausalLists
<1> HIDE DEF q
<1>3. Len(q) \in Nat /\ \A k \in 1..Len(q) : q[k] \in K
  BY <1>1, <1>2, UpIs
<1>4. \A k \in 1..Len(q) : \E a \in 1..Len(s) : s[a] = q[k]
  BY <1>3 DEF InOrder
<1>5. \A a, c \in 1..Len(s), k, l \in 1..Len(q) : s[a] = q[k] /\ s[c] = q[l] => (a < c <=> k < l)
  <2>1. ASSUME NEW a \in 1..Len(s), NEW c \in 1..Len(s), NEW k \in 1..Len(q), NEW l \in 1..Len(q), s[a] = q[k], s[c] = q[l]
        PROVE  a < c <=> k < l
    <3>1. a < c <=> CausallyBefore(s[a], s[c])
      BY DEF InOrder
    <3>2. k < l <=> CausallyBefore(q[k], q[l])
      BY <1>2 DEF InOrder
    <3>3. QED
      BY <2>1, <3>1, <3>2
  <2>2. QED
    BY <2>1
<1>6. \A a \in 1..Len(s) : s[a] \in K => \E k \in 1..Len(q) : s[a] = q[k]
  BY <1>2 DEF InOrder
<1>7. Among(q, s, K)
  BY <1>3, <1>4, <1>5, <1>6 DEF Among
<1>8. QED
  BY <1>1, <1>2, <1>7 DEF q

\* Enough of the selected rows up to the one at k come after p.
TailKnown(s, q, p, k) ==
    p = 0 \/ (k >= Full /\ \E g \in 1..Len(s) : p < g /\ s[g] = q[k - Full + 1])

LEMMA TailAt ==
  ASSUME NEW S, OneProfile(S), NEW s, InOrder(s, S), NEW b, Trace(b, s),
         NEW p \in Nat, Rising(s, p), NEW K, K = b[Len(s)].sel.canon,
         NEW a \in 1..Len(s), p < a, NEW k \in 1..Len(Causal(K)), s[a] = Causal(K)[k],
         TailKnown(s, Causal(K), p, k)
  PROVE  TailOf(Causal(b[a].sel.canon), Full) = TailOf(SubSeq(Causal(K), 1, k), Full)
<1> DEFINE q == Causal(K)
           n == Len(s)
           A == b[a].sel.canon
           B == Up(q, k)
           U == {x \in K : \E i \in 1..n : p < i /\ i <= a /\ s[i] = x}
<1>1. Rows(S) /\ n \in Nat /\ (\A i \in 1..n : s[i] \in S) /\ n \in 1..n /\ a \in 0..n /\ n \in 0..n
  <2>1. Rows(S)
    BY DEF OneProfile
  <2>2. n \in Nat /\ \A i \in 1..n : s[i] \in S
    BY <2>1, UpIs
  <2>3. QED
    BY <2>1, <2>2
<1>2. K \subseteq S /\ A \subseteq Up(s, a) /\ Up(s, a) \subseteq S
  <2>1. TraceIs(b, s, a) /\ TraceIs(b, s, n)
    BY <1>1, TraceHolds
  <2>2. A \subseteq Up(s, a) /\ K \subseteq Up(s, n)
    BY <2>1 DEF TraceIs, Selects, AreIndependent
  <2>3. QED
    BY <1>1, <2>2, UpIs
<1>3. Rows(K) /\ InOrder(q, K) /\ Among(q, s, K)
  BY <1>1, <1>2, SelectedPlaces
<1>4. TailKnown(s, q, p, k) /\ s[a] = q[k] /\ k \in 1..Len(q)
  OBVIOUS
<1>5. Full \in Nat /\ Full >= 1
  BY ConfigAssumption
<1> HIDE DEF q
<1>6. Len(q) \in Nat /\ k \in 0..Len(q) /\ B \subseteq K
  BY <1>3, <1>4, UpIs
<1>7. \A i \in 1..n : p < i /\ i <= a => (s[i] \in A <=> s[i] \in K)
  <2> SUFFICES ASSUME NEW i \in 1..n, p < i, i <= a PROVE s[i] \in A <=> s[i] \in K
    OBVIOUS
  <2>1. i <= n
    BY <1>1
  <2>2. s[i] \in b[n].sel.canon <=> s[i] \in b[i].sel.canon
    BY <1>1, <2>1, TraceKeeps
  <2>3. s[i] \in b[a].sel.canon <=> s[i] \in b[i].sel.canon
    BY <1>1, TraceKeeps
  <2>4. QED
    BY <2>2, <2>3
<1>8. U \subseteq A
  BY <1>7
<1>9. U \subseteq B
  <2> SUFFICES ASSUME NEW i \in 1..n, i <= a, s[i] \in K PROVE s[i] \in B
    OBVIOUS
  <2>1. PICK l \in 1..Len(q) : s[i] = q[l]
    BY <1>3 DEF Among
  <2>2. ~(a < i)
    BY <1>1
  <2>3. ~(k < l)
    BY <1>3, <1>4, <2>1, <2>2 DEF Among
  <2>4. l \in 1..k
    BY <1>6, <2>3
  <2>5. QED
    BY <2>1, <2>4 DEF Up
<1>10. ASSUME NEW x \in A \ U PROVE \E i \in 1..n : i <= p /\ s[i] = x
  <2>1. PICK i \in 1..a : s[i] = x
    BY <1>2 DEF Up
  <2>2. i \in 1..n /\ i <= a
    BY <1>1
  <2>3. ~(p < i)
    BY <1>7, <1>10, <2>1, <2>2
  <2>4. i <= p
    BY <2>3
  <2>5. QED
    BY <2>1, <2>2, <2>4
<1>11. ASSUME NEW x \in B \ U PROVE \E i \in 1..n : i <= p /\ s[i] = x
  <2>1. PICK l \in 1..k : q[l] = x
    BY DEF Up
  <2>2. l \in 1..Len(q) /\ ~(k < l)
    BY <1>6
  <2>3. PICK i \in 1..n : s[i] = q[l]
    BY <1>3, <2>2 DEF Among
  <2>4. ~(a < i)
    BY <1>3, <1>4, <2>2, <2>3 DEF Among
  <2>5. x \in K /\ i <= a
    BY <1>1, <1>6, <2>4
  <2>6. ~(p < i)
    BY <1>11, <2>1, <2>3, <2>5
  <2>7. i <= p
    BY <2>6
  <2>8. QED
    BY <2>1, <2>3, <2>7
<1>12. ASSUME NEW u \in U PROVE \E i \in 1..n : p < i /\ s[i] = u
  OBVIOUS
<1>13. ASSUME NEW i \in 1..n, NEW j \in 1..n, i <= p, p < j PROVE CausallyBefore(s[i], s[j])
  BY <1>13 DEF InOrder
<1>14. (\A x \in A \ U, u \in U : CausallyBefore(x, u)) /\ (\A x \in B \ U, u \in U : CausallyBefore(x, u))
  BY <1>10, <1>11, <1>12, <1>13
<1>15. Rows(A) /\ Rows(B)
  BY <1>1, <1>2, <1>3, <1>6, FS_Subset DEF Rows
<1>16. B = Up(q, k)
  OBVIOUS
<1>17. SubSeq(q, 1, k) = Causal(B) /\ Len(SubSeq(q, 1, k)) = k /\ SubSeq(q, 1, k) \in Seq(K)
  BY <1>3, <1>6, CausalUp, Zenon
<1> HIDE DEF A, B, U
<1>18. CASE p = 0
  <2>1. A = U /\ B = U
    <3>1. \A i \in 1..n : ~(i <= 0)
      BY <1>1
    <3>2. QED
      BY <1>8, <1>9, <1>10, <1>11, <1>18, <3>1
  <2>2. QED
    BY <1>17, <2>1, Zenon DEF A, q
<1>19. CASE p # 0
  <2>1. PICK g \in 1..n : p < g /\ s[g] = q[k - Full + 1]
    BY <1>4, <1>19 DEF TailKnown
  <2> DEFINE l == k - Full + 1
             c == Causal(A)
             d == Causal(B)
             u == Causal(U)
  <2>2. l \in 1..k /\ l \in 1..Len(q) /\ ~(k < l)
    BY <1>4, <1>5, <1>6, <1>19 DEF TailKnown
  <2>3. q[l] \in U
    <3>1. ~(a < g)
      BY <1>3, <1>4, <2>1, <2>2 DEF Among
    <3>2. g <= a
      BY <1>1, <3>1
    <3>3. q[l] \in K
      BY <1>3, <2>2 DEF Among
    <3>4. QED
      BY <2>1, <3>2, <3>3 DEF U
  <2>4. EndsWith(c, u)
    BY <1>8, <1>14, <1>15, CausalSuffix
  <2>5. EndsWith(d, u) /\ \A i \in 1..Len(d) : d[i] \in U <=> i > Len(d) - Len(u)
    BY <1>9, <1>14, <1>15, CausalSuffix
  <2>6. Len(d) = k /\ d[l] = q[l]
    <3>1. k \in Nat /\ k <= Len(q) /\ \A i \in 1..k : i \in 1..Len(q) /\ q[i] \in K
      BY <1>3, <1>6 DEF Among
    <3>2. \A i \in 1..k : SubSeq(q, 1, k)[i] = q[1 + i - 1]
      BY <3>1, SubSeqProperties
    <3>3. 1 + l - 1 = l
      BY <2>2
    <3> HIDE DEF l
    <3>4. QED
      BY <1>17, <2>2, <3>2, <3>3
  <2>7. Len(u) >= Full
    <3>1. l > k - Len(u)
      BY <2>2, <2>3, <2>5, <2>6
    <3>2. Len(u) \in Nat /\ k \in Nat
      BY <1>6, <2>5 DEF EndsWith
    <3>3. QED
      BY <1>5, <3>1, <3>2
  <2>8. c \in Seq(S) /\ d \in Seq(S)
    <3>1. c \in Seq(A) /\ d \in Seq(B)
      BY <1>15, CausalLists DEF InOrder
    <3>2. A \subseteq S /\ B \subseteq S
      BY <1>2, <1>6 DEF A
    <3> HIDE DEF c, d
    <3>3. QED
      BY <3>1, <3>2
  <2> HIDE DEF c, d, u
  <2>9. TailOf(c, Full) = TailOf(d, Full)
    BY <1>5, <2>4, <2>5, <2>7, <2>8, TailSame
  <2>10. QED
    BY <1>17, <2>9, Zenon DEF c, d, A, q
<1>20. QED
  BY <1>18, <1>19

\* Nothing moves until the next of them.
LEMMA TraceStays ==
  ASSUME NEW S, OneProfile(S), NEW s, InOrder(s, S), NEW b, Trace(b, s),
         NEW p \in Nat, Rising(s, p), NEW a \in 1..Len(s), p < a, NEW c \in 1..Len(s), a <= c,
         \A i \in 1..Len(s) : a < i /\ i <= c => s[i] \notin b[Len(s)].sel.canon
  PROVE  b[c].state = b[a].state
<1> DEFINE n == Len(s)
           bad == {i \in 1..n : a <= i /\ i <= c /\ b[i].state # b[a].state}
<1>1. n \in Nat /\ n \in 1..n
  <2>1. n \in Nat
    BY UpIs DEF OneProfile
  <2>2. QED
    BY <2>1
<1>2. ASSUME bad # {} PROVE FALSE
  <2>1. PICK i \in bad : \A j \in bad : i <= j
    <3>1. bad \subseteq Nat
      BY <1>1
    <3> HIDE DEF bad
    <3>2. QED
      BY <1>2, <3>1, LeastExists
  <2>2. i \in 1..n /\ a <= i /\ i <= c /\ b[i].state # b[a].state
    BY <2>1
  <2>3. a < i /\ i - 1 \in 1..n /\ a <= i - 1 /\ i - 1 <= c /\ ~(i <= i - 1) /\ p < i /\ i <= n
    <3>1. a # i
      BY <2>2
    <3>2. QED
      BY <1>1, <2>2, <3>1
  <2>4. b[i - 1].state = b[a].state
    <3>1. i - 1 \notin bad
      BY <2>1, <2>3
    <3>2. QED
      BY <2>3, <3>1
  <2>5. s[i] \notin b[n].sel.canon
    BY <2>2, <2>3
  <2>6. s[i] \notin b[i].sel.canon
    BY <1>1, <2>2, <2>3, <2>5, TraceKeeps
  <2>7. TraceMoves(b, s, i)
    BY <2>2, TraceHolds
  <2>8. b[i].state = b[i - 1].state
    BY <2>6, <2>7 DEF TraceMoves
  <2>9. QED
    BY <2>2, <2>4, <2>8
<1>3. QED
  BY <1>1, <1>2

\* The status before decides only what a profile is when it is not PAUSED, and
\* then only by being PAUSED.
LEMMA Pausing ==
  ASSUME NEW S, NEW c \in Seq(S), NEW x, NEW y
  PROVE  /\ Classify(c, x).status = "PAUSED" <=> Classify(c, y).status = "PAUSED"
         /\ (x = "PAUSED" <=> y = "PAUSED") => Classify(c, x).status = Classify(c, y).status
<1> DEFINE n12 == TailOf(c, Warmup)
           n20 == TailOf(c, Full)
           mature == Len(n12) >= Warmup
           full   == Len(n20) >= Full
           winning == Wins(n12) >= ActiveWins /\ (full => Pnl(n20) >= 0)
           paused == Wins(n12) <= PausedMaxWins /\ full /\ Pnl(n20) < 0
           verdict(z) == CASE ~mature -> "WARMUP"
                        [] mature /\ paused -> "PAUSED"
                        [] mature /\ winning /\ z # "PAUSED" -> "ACTIVE"
                        [] OTHER -> "WATCH"
<1>1. Classify(c, x).status = verdict(x) /\ Classify(c, y).status = verdict(y)
  BY DEF Classify, Classified
<1>2. Wins(n12) \in Nat
  <2>1. Len(n12) \in Nat
    <3>1. n12 \in Seq(S)
      BY TailValues, ConfigAssumption
    <3> HIDE DEF n12
    <3>2. QED
      BY <3>1
  <2> HIDE DEF n12
  <2> DEFINE W == {i \in 1..Len(n12) : n12[i].won}
  <2>2. IsFiniteSet(1..Len(n12))
    BY <2>1, FS_Interval
  <2>3. W \subseteq 1..Len(n12)
    OBVIOUS
  <2> HIDE DEF W
  <2>4. Cardinality(W) \in Nat
    BY <2>2, <2>3, FS_Subset, FS_CardinalityType
  <2>5. QED
    BY <2>4 DEF Wins, W
<1>3. paused /\ winning => FALSE
  <2>1. ActiveWins \in Nat /\ PausedMaxWins \in Nat /\ PausedMaxWins < ActiveWins
    BY ConfigAssumption
  <2> HIDE DEF n12, n20
  <2>2. QED
    BY <1>2, <2>1
<1> HIDE DEF mature, winning, paused
<1>4. CASE ~mature
  <2>1. verdict(x) = "WARMUP" /\ verdict(y) = "WARMUP"
    BY <1>4
  <2>2. QED
    BY <1>1, <2>1
<1>5. CASE mature /\ paused
  <2>1. verdict(x) = "PAUSED" /\ verdict(y) = "PAUSED"
    BY <1>3, <1>5
  <2>2. QED
    BY <1>1, <2>1
<1>6. CASE mature /\ ~paused /\ winning
  <2>1. /\ verdict(x) = (IF x # "PAUSED" THEN "ACTIVE" ELSE "WATCH")
        /\ verdict(y) = (IF y # "PAUSED" THEN "ACTIVE" ELSE "WATCH")
    BY <1>6
  <2>2. QED
    BY <1>1, <2>1
<1>7. CASE mature /\ ~paused /\ ~winning
  <2>1. verdict(x) = "WATCH" /\ verdict(y) = "WATCH"
    BY <1>7
  <2>2. QED
    BY <1>1, <2>1
<1>8. QED
  BY <1>4, <1>5, <1>6, <1>7

StatusIs(st, q, f) ==
    st = [i \in (f - 1)..Len(q) |->
             IF i < f THEN "NONE" ELSE Classify(TailOf(SubSeq(q, 1, i), Full), st[i - 1]).status]

LEMMA StatusExists ==
  ASSUME NEW q, Len(q) \in Nat, NEW f \in Nat, 1 <= f, f <= Len(q)
  PROVE  \E st : StatusIs(st, q, f)
<1> DEFINE value(g, i) == IF i < f THEN "NONE" ELSE Classify(TailOf(SubSeq(q, 1, i), Full), g[i - 1]).status
           IsUpTo(g, n) == g = [i \in (f - 1)..n |-> value(g, i)]
           bad == {n \in (f - 1)..Len(q) : ~\E g : IsUpTo(g, n)}
<1>1. ASSUME bad # {} PROVE FALSE
  <2>1. PICK n \in bad : \A m \in bad : n <= m
    <3>1. bad \subseteq Nat
      OBVIOUS
    <3> HIDE DEF bad
    <3>2. QED
      BY <1>1, <3>1, LeastExists
  <2>2. n \in (f - 1)..Len(q) /\ ~\E g : IsUpTo(g, n)
    BY <2>1
  <2>3. CASE n = f - 1
    <3> DEFINE g == [i \in (f - 1)..n |-> "NONE"]
    <3>1. \A i \in (f - 1)..n : value(g, i) = "NONE"
      BY <2>3
    <3>2. g = [i \in (f - 1)..n |-> value(g, i)]
      BY <3>1
    <3> HIDE DEF g, value
    <3>3. QED
      BY <2>2, <3>2
  <2>4. CASE n # f - 1
    <3>1. n - 1 \in (f - 1)..Len(q) /\ ~(n <= n - 1) /\ n \in Nat
      BY <2>2, <2>4
    <3>2. n - 1 \notin bad
      BY <2>1, <3>1
    <3> HIDE DEF value
    <3>3. PICK h : IsUpTo(h, n - 1)
      BY <3>1, <3>2
    <3> DEFINE g == [i \in (f - 1)..n |-> value(h, i)]
    <3>4. \A i \in (f - 1)..(n - 1) : h[i] = value(h, i)
      BY <3>3, Zenon
    <3>5. \A i \in (f - 1)..(n - 1) : g[i] = h[i]
      BY <3>1, <3>4
    <3>6. \A i \in (f - 1)..n : value(g, i) = value(h, i)
      <4> SUFFICES ASSUME NEW i \in (f - 1)..n PROVE value(g, i) = value(h, i)
        OBVIOUS
      <4>1. CASE i < f
        BY <4>1 DEF value
      <4>2. CASE ~(i < f)
        <5>1. i - 1 \in (f - 1)..(n - 1)
          BY <3>1, <4>2
        <5>2. g[i - 1] = h[i - 1]
          BY <3>5, <5>1
        <5> HIDE DEF g
        <5>3. QED
          BY <5>2 DEF value
      <4>3. QED
        BY <4>1, <4>2
    <3>7. g = [i \in (f - 1)..n |-> value(g, i)]
      BY <3>6
    <3> HIDE DEF g
    <3>8. QED
      BY <2>2, <3>7
  <2>5. QED
    BY <2>3, <2>4
<1>2. Len(q) \in (f - 1)..Len(q)
  OBVIOUS
<1>3. PICK g : IsUpTo(g, Len(q))
  BY <1>1, <1>2
<1>4. QED
  BY <1>3 DEF StatusIs

LEMMA TailStateIs ==
  ASSUME NEW q, Len(q) \in Nat, Len(q) # 0
  PROVE  LET f == FirstTransition(Len(q))
         IN  \E st : /\ StatusIs(st, q, f)
                     /\ TailState(q) = Classify(TailOf(SubSeq(q, 1, Len(q)), Full), st[Len(q) - 1])
<1> DEFINE f == FirstTransition(Len(q))
           st == CHOOSE g : StatusIs(g, q, f)
<1>1. f \in Nat /\ 1 <= f /\ f <= Len(q)
  BY ConfigAssumption DEF FirstTransition
<1>2. StatusIs(st, q, f)
  <2> HIDE DEF f
  <2>1. \E g : StatusIs(g, q, f)
    BY <1>1, StatusExists
  <2>2. QED
    BY <2>1
<1>3. TailState(q) = Classify(TailOf(SubSeq(q, 1, Len(q)), Full), st[Len(q) - 1])
  BY Zenon DEF TailState, StatusIs
<1> HIDE DEF st
<1>4. QED
  BY <1>2, <1>3
\* After p the rows rise, and the last selected ones come after p.
TailRises(s, q, p) ==
    /\ p \in Nat /\ Rising(s, p)
    /\ \/ p = 0
       \/ /\ Len(q) > Full + 2
          /\ \A l \in (Len(q) - Full - 1)..Len(q) : \E g \in 1..Len(s) : p < g /\ s[g] = q[l]

\* A state is computed at the k-th of the selected rows.
Transits(b, s, q, k, p) ==
    \E a \in 1..Len(s) :
       /\ s[a] = q[k] /\ p < a
       /\ b[a].state = Classify(TailOf(SubSeq(q, 1, k), Full),
                                IF a = 1 THEN "NONE" ELSE b[a - 1].state.status)

LEMMA TransitionAt ==
  ASSUME NEW S, OneProfile(S), NEW s, InOrder(s, S), NEW b, Trace(b, s),
         NEW K, K = b[Len(s)].sel.canon, K \subseteq S, NEW p, TailRises(s, Causal(K), p),
         NEW k \in FirstTransition(Len(Causal(K)))..Len(Causal(K))
  PROVE  Transits(b, s, Causal(K), k, p)
<1> DEFINE q == Causal(K)
           n == Len(s)
<1>1. Rows(S) /\ n \in Nat /\ (\A i \in 1..n : s[i] \in S)
  <2>1. Rows(S)
    BY DEF OneProfile
  <2>2. QED
    BY <2>1, UpIs
<1>2. Rows(K) /\ InOrder(q, K) /\ Among(q, s, K)
  BY <1>1, SelectedPlaces
<1>3. TailRises(s, q, p) /\ k \in FirstTransition(Len(q))..Len(q)
  OBVIOUS
<1>4. Full \in Nat /\ Full >= 2
  BY ConfigAssumption
<1> HIDE DEF q
<1>5. Len(q) \in Nat /\ k \in 1..Len(q) /\ p \in Nat /\ Rising(s, p)
  BY <1>2, <1>3, <1>4 DEF Among, FirstTransition, TailRises
<1>6. PICK a \in 1..n : s[a] = q[k] /\ p < a
  <2>1. CASE p = 0
    <3>1. PICK a \in 1..n : s[a] = q[k]
      BY <1>2, <1>5 DEF Among
    <3>2. p < a
      BY <1>1, <2>1
    <3>3. QED
      BY <3>1, <3>2
  <2>2. CASE p # 0
    <3>1. k \in (Len(q) - Full - 1)..Len(q)
      BY <1>3, <1>4, <1>5, <2>2 DEF TailRises, FirstTransition
    <3>2. QED
      BY <1>3, <2>2, <3>1 DEF TailRises
  <2>3. QED
    BY <2>1, <2>2
<1>7. TailKnown(s, q, p, k)
  <2>1. CASE p # 0
    <3>1. Len(q) > Full + 2
      BY <1>3, <2>1 DEF TailRises
    <3>2. k >= Full /\ k - Full + 1 \in (Len(q) - Full - 1)..Len(q)
      BY <1>3, <1>4, <1>5, <3>1 DEF FirstTransition
    <3>3. QED
      BY <1>3, <2>1, <3>2 DEF TailRises, TailKnown
  <2>2. QED
    BY <2>1 DEF TailKnown
<1>8. s[a] \in b[a].sel.canon
  <2>1. n \in 1..n /\ a <= n
    BY <1>1
  <2>2. s[a] \in K
    BY <1>2, <1>5, <1>6 DEF Among
  <2>3. s[a] \in b[n].sel.canon <=> s[a] \in b[a].sel.canon
    BY <1>5, <1>6, <2>1, TraceKeeps
  <2>4. QED
    BY <2>2, <2>3
<1>9. TraceMoves(b, s, a)
  BY TraceHolds
<1>10. TailOf(Causal(b[a].sel.canon), Full) = TailOf(SubSeq(q, 1, k), Full)
  BY <1>5, <1>6, <1>7, TailAt DEF q
<1>11. b[a].state = Classify(TailOf(SubSeq(q, 1, k), Full), IF a = 1 THEN "NONE" ELSE b[a - 1].state.status)
  BY <1>8, <1>9, <1>10, Zenon DEF TraceMoves
<1>12. QED
  BY <1>6, <1>11, Zenon DEF q, Transits

LEMMA BetweenSelected ==
  ASSUME NEW S, OneProfile(S), NEW s, InOrder(s, S), NEW b, Trace(b, s),
         NEW K, K = b[Len(s)].sel.canon, K \subseteq S, NEW p \in Nat, Rising(s, p),
         NEW k \in 1..Len(Causal(K)), NEW a \in 1..Len(s), s[a] = Causal(K)[k], p < a
  PROVE  /\ \A c \in 1..Len(s) : k + 1 \in 1..Len(Causal(K)) /\ s[c] = Causal(K)[k + 1] =>
               a < c /\ c - 1 \in 1..Len(s) /\ b[c - 1].state = b[a].state
         /\ k = Len(Causal(K)) => b[Len(s)].state = b[a].state
<1> DEFINE q == Causal(K)
           n == Len(s)
<1>1. Rows(S) /\ n \in Nat /\ n \in 1..n
  <2>1. Rows(S)
    BY DEF OneProfile
  <2>2. n \in Nat
    BY <2>1, UpIs
  <2>3. a \in 1..n
    OBVIOUS
  <2> HIDE DEF q, n
  <2>4. QED
    BY <2>1, <2>2, <2>3
<1>2. Among(q, s, K)
  BY <1>1, SelectedPlaces
<1>3. k \in 1..Len(q) /\ s[a] = q[k]
  OBVIOUS
<1> HIDE DEF q
<1>4. Len(q) \in Nat
  BY <1>2 DEF Among
<1>5. ASSUME NEW c \in 1..n, k + 1 \in 1..Len(q), s[c] = q[k + 1]
      PROVE  a < c /\ c - 1 \in 1..n /\ b[c - 1].state = b[a].state
  <2>1. a < c
    <3>1. k < k + 1
      BY <1>3, <1>4
    <3>2. QED
      BY <1>2, <1>3, <1>5, <3>1 DEF Among
  <2>2. c - 1 \in 1..n /\ a <= c - 1
    BY <1>1, <2>1
  <2>3. ASSUME NEW i \in 1..n, a < i, i <= c - 1 PROVE s[i] \notin b[n].sel.canon
    <3>1. i < c
      BY <1>1, <2>3
    <3>2. ASSUME s[i] \in K PROVE FALSE
      <4>1. PICK l \in 1..Len(q) : s[i] = q[l]
        BY <1>2, <3>2 DEF Among
      <4>2. k < l /\ l < k + 1
        BY <1>2, <1>3, <1>5, <2>3, <3>1, <4>1 DEF Among
      <4>3. QED
        BY <1>3, <1>4, <4>2
    <3>3. QED
      BY <3>2
  <2> DEFINE d == c - 1
  <2>4. d \in 1..n /\ a <= d /\ \A i \in 1..n : a < i /\ i <= d => s[i] \notin b[n].sel.canon
    BY <2>2, <2>3
  <2> HIDE DEF d
  <2>5. b[d].state = b[a].state
    BY <2>4, TraceStays
  <2>6. QED
    BY <2>1, <2>2, <2>5 DEF d
<1>6. ASSUME k = Len(q) PROVE b[n].state = b[a].state
  <2>1. ASSUME NEW i \in 1..n, a < i PROVE s[i] \notin b[n].sel.canon
    <3>1. ASSUME s[i] \in K PROVE FALSE
      <4>1. PICK l \in 1..Len(q) : s[i] = q[l]
        BY <1>2, <3>1 DEF Among
      <4>2. k < l
        BY <1>2, <1>3, <2>1, <4>1 DEF Among
      <4>3. QED
        BY <1>4, <1>6, <4>1, <4>2
    <3>2. QED
      BY <3>1
  <2>2. a <= n
    BY <1>1
  <2>3. QED
    BY <1>1, <2>1, <2>2, TraceStays
<1>7. QED
  BY <1>5, <1>6 DEF q
\* The state of a profile is what the last transitions say.
LEMMA ReplayedTail ==
  ASSUME NEW S, OneProfile(S), NEW s, InOrder(s, S), NEW b, Trace(b, s),
         NEW K, K = b[Len(s)].sel.canon, K \subseteq S, NEW p, TailRises(s, Causal(K), p),
         Len(Causal(K)) # 0
  PROVE  b[Len(s)].state = TailState(Causal(K))
<1> DEFINE q == Causal(K)
           n == Len(s)
           m == Len(q)
           f == FirstTransition(m)
           tail(k) == TailOf(SubSeq(q, 1, k), Full)
           before(a) == IF a = 1 THEN "NONE" ELSE b[a - 1].state.status
<1>1. Rows(S) /\ n \in Nat /\ \A i, j \in 1..n : s[i] = s[j] => i = j
  <2>1. Rows(S)
    BY DEF OneProfile
  <2>2. QED
    BY <2>1, UpIs
<1>2. Rows(K) /\ InOrder(q, K) /\ Among(q, s, K)
  BY <1>1, SelectedPlaces
<1>3. Full \in Nat /\ Full >= 2
  BY ConfigAssumption
<1>4. m \in Nat /\ m # 0 /\ f \in 1..m /\ (f = 1 \/ f = m - 2)
  <2>1. m \in Nat /\ m # 0
    BY <1>2 DEF Among
  <2> HIDE DEF q, m
  <2>2. QED
    BY <1>3, <2>1 DEF FirstTransition
<1>5. PICK st : StatusIs(st, q, f) /\ TailState(q) = Classify(tail(m), st[m - 1])
  <2> HIDE DEF q
  <2>1. QED
    BY <1>4, TailStateIs
<1>6. /\ st[f - 1] = "NONE"
      /\ \A k \in f..m : st[k] = Classify(tail(k), st[k - 1]).status
  <2> HIDE DEF q, tail
  <2>1. st = [i \in (f - 1)..m |-> IF i < f THEN "NONE" ELSE Classify(tail(i), st[i - 1]).status]
    BY <1>5, Zenon DEF StatusIs, tail
  <2> HIDE DEF m, f
  <2>2. ASSUME NEW i \in (f - 1)..m PROVE st[i] = IF i < f THEN "NONE" ELSE Classify(tail(i), st[i - 1]).status
    BY <2>1, Zenon
  <2>3. f - 1 \in (f - 1)..m /\ f - 1 < f /\ \A k \in f..m : k \in (f - 1)..m /\ ~(k < f)
    BY <1>4
  <2>4. QED
    BY <2>2, <2>3
<1>7. ASSUME NEW k \in f..m
      PROVE  \E a \in 1..n : s[a] = q[k] /\ p < a /\ b[a].state = Classify(tail(k), before(a))
  <2>1. Transits(b, s, Causal(K), k, p)
    BY TransitionAt
  <2>2. QED
    BY <2>1, Zenon DEF Transits
<1>8. \A k \in f..m : SubSeq(q, 1, k) \in Seq(K) /\ k \in 1..m
  <2> HIDE DEF q
  <2>1. ASSUME NEW k \in f..m PROVE SubSeq(q, 1, k) \in Seq(K) /\ k \in 1..m
    <3>1. k \in 0..m /\ k \in 1..m
      BY <1>4
    <3>2. QED
      BY <1>2, <3>1, CausalUp
  <2>2. QED
    BY <2>1
<1>9. TailRises(s, q, p)
  OBVIOUS
<1>10. p \in Nat /\ Rising(s, p) /\ (m <= Full + 2 => p = 0)
  <2> HIDE DEF q
  <2>1. QED
    BY <1>3, <1>4, <1>9 DEF TailRises
\* What comes after one of them, and after the last.
<1>11. ASSUME NEW k \in 1..m, NEW a \in 1..n, s[a] = q[k], p < a
       PROVE  /\ \A c \in 1..n : k + 1 \in 1..m /\ s[c] = q[k + 1] => a < c /\ b[c - 1].state = b[a].state
              /\ k = m => b[n].state = b[a].state
  BY <1>10, <1>11, BetweenSelected
<1> HIDE DEF q, m, f, tail, before
\* The first of all rows is the first of them.
<1>12. ASSUME f = 1, m <= Full + 2, NEW a \in 1..n, s[a] = q[1] PROVE a = 1
  <2>1. 1 \in 1..n /\ n \in 1..n /\ 1 <= n /\ p < 1
    BY <1>1, <1>10, <1>12
  <2>2. s[1] \in b[1].sel.canon
    <3>1. TraceMoves(b, s, 1)
      BY <2>1, TraceHolds
    <3>2. QED
      BY <3>1 DEF TraceMoves
  <2>3. s[1] \in K
    BY <1>10, <2>1, <2>2, TraceKeeps DEF n
  <2>4. PICK l \in 1..Len(q) : s[1] = q[l]
    BY <1>2, <2>1, <2>3 DEF Among
  <2>5. ~(1 < a)
    <3>1. 1 \in 1..Len(q) /\ ~(l < 1)
      BY <1>4, <2>4 DEF m
    <3>2. 1 < a <=> l < 1
      BY <1>2, <1>12, <2>1, <2>4, <3>1 DEF Among
    <3>3. QED
      BY <3>1, <3>2
  <2>6. QED
    BY <1>1, <1>12, <2>5
\* Whether it is paused agrees, from the first of them on.
<1>13. ASSUME NEW k \in f..m, NEW a \in 1..n, s[a] = q[k] PROVE b[a].state.status = "PAUSED" <=> st[k] = "PAUSED"
  <2>1. PICK c \in 1..n : s[c] = q[k] /\ p < c /\ b[c].state = Classify(tail(k), before(c))
    BY <1>7
  <2>2. c = a
    BY <1>1, <1>13, <2>1
  <2>3. st[k] = Classify(tail(k), st[k - 1]).status
    BY <1>6
  <2>4. tail(k) \in Seq(K)
    BY <1>3, <1>8, TailValues DEF tail
  <2>5. QED
    BY <1>3, <2>1, <2>2, <2>3, <2>4, Pausing
\* What was before it agrees, but for the first of them.
<1>14. ASSUME NEW k \in f..m, NEW a \in 1..n, s[a] = q[k], k # f
       PROVE  a # 1 /\ before(a) = b[a - 1].state.status
              /\ \E c \in 1..n : s[c] = q[k - 1] /\ p < c /\ b[c].state = Classify(tail(k - 1), before(c)) /\ b[a - 1].state = b[c].state
  <2>1. k - 1 \in f..m /\ k - 1 \in 1..m /\ (k - 1) + 1 = k /\ k \in 1..m
    BY <1>4, <1>14
  <2>2. PICK c \in 1..n : s[c] = q[k - 1] /\ p < c /\ b[c].state = Classify(tail(k - 1), before(c))
    BY <1>7, <2>1
  <2>3. c < a /\ b[a - 1].state = b[c].state
    BY <1>11, <1>14, <2>1, <2>2
  <2>4. a # 1
    BY <1>1, <2>3
  <2>5. QED
    BY <2>2, <2>3, <2>4 DEF before
<1>15. ASSUME NEW k \in f..m, NEW a \in 1..n, s[a] = q[k], k # f \/ (f = 1 /\ m <= Full + 2)
       PROVE  before(a) = "PAUSED" <=> st[k - 1] = "PAUSED"
  <2>1. CASE k # f
    <3>1. PICK c \in 1..n : s[c] = q[k - 1] /\ before(a) = b[c].state.status
      BY <1>14, <1>15, <2>1
    <3>2. k - 1 \in f..m
      BY <1>4, <2>1
    <3>3. QED
      BY <1>13, <3>1, <3>2
  <2>2. CASE k = f
    <3>1. a = 1
      BY <1>12, <1>15, <2>2
    <3>2. before(a) = "NONE"
      BY <3>1 DEF before
    <3>3. QED
      BY <1>6, <2>2, <3>2
  <2>3. QED
    BY <2>1, <2>2
<1>16. ASSUME NEW k \in f..m, NEW a \in 1..n, s[a] = q[k], k # f \/ (f = 1 /\ m <= Full + 2)
       PROVE  b[a].state.status = st[k]
  <2>1. PICK c \in 1..n : s[c] = q[k] /\ p < c /\ b[c].state = Classify(tail(k), before(c))
    BY <1>7
  <2>2. c = a
    BY <1>1, <1>16, <2>1
  <2>3. st[k] = Classify(tail(k), st[k - 1]).status
    BY <1>6
  <2>4. tail(k) \in Seq(K)
    BY <1>3, <1>8, TailValues DEF tail
  <2>5. before(a) = "PAUSED" <=> st[k - 1] = "PAUSED"
    BY <1>15, <1>16
  <2>6. QED
    BY <2>1, <2>2, <2>3, <2>4, <2>5, Pausing
<1>17. m \in f..m /\ m \in 1..m
  BY <1>4
<1>18. PICK a \in 1..n : s[a] = q[m] /\ p < a /\ b[a].state = Classify(tail(m), before(a))
  BY <1>7, <1>17
<1>19. b[n].state = b[a].state
  BY <1>11, <1>17, <1>18
<1>20. before(a) = st[m - 1]
  <2>1. CASE m = f
    <3>1. f = 1 /\ m <= Full + 2
      BY <1>3, <1>4, <2>1
    <3>2. before(a) = "NONE"
      BY <1>12, <1>18, <2>1, <3>1 DEF before
    <3>3. QED
      BY <1>6, <2>1, <3>2
  <2>2. CASE m # f
    <3>1. PICK c \in 1..n : s[c] = q[m - 1] /\ before(a) = b[c].state.status
      BY <1>14, <1>17, <1>18, <2>2
    <3>2. m - 1 \in f..m /\ (m - 1 # f \/ (f = 1 /\ m <= Full + 2))
      BY <1>3, <1>4, <2>2
    <3>3. QED
      BY <1>16, <3>1, <3>2
  <2>3. QED
    BY <2>1, <2>2
<1>21. b[n].state = TailState(q)
  BY <1>5, <1>18, <1>19, <1>20
<1>22. QED
  BY <1>21 DEF q, n

-----------------------------------------------------------------------------
(* The chain of a window whose rows come in the order of their opening.     *)
LEMMA SuccessorIs ==
  ASSUME NEW index, Len(index) \in Nat, NEW i \in Nat
  PROVE  LET later == {j \in (i + 1)..Len(index) : index[j].opened >= index[i].expires}
         IN  IF later = {} THEN Successor(index, i) = 0
             ELSE Successor(index, i) \in later /\ \A h \in later : Successor(index, i) <= h
<1> DEFINE later == {j \in (i + 1)..Len(index) : index[j].opened >= index[i].expires}
<1>1. later \subseteq Nat
  OBVIOUS
<1>2. Successor(index, i) = IF later = {} THEN 0 ELSE CHOOSE j \in later : \A h \in later : j <= h
  BY DEF Successor
<1> HIDE DEF later
<1>3. later # {} => \E j \in later : \A h \in later : j <= h
  BY <1>1, LeastExists
<1>4. IF later = {} THEN Successor(index, i) = 0
      ELSE Successor(index, i) \in later /\ \A h \in later : Successor(index, i) <= h
  BY <1>2, <1>3
<1>5. QED
  BY <1>4 DEF later

ChainFrom(f, index, i) == IF i = 0 THEN <<>> ELSE <<index[i]>> \o f[Successor(index, i)]

IsChain(f, index, D) == f = [i \in D |-> ChainFrom(f, index, i)]

LEMMA ChainExists ==
  ASSUME NEW index, Len(index) \in Nat
  PROVE  \E f : IsChain(f, index, 0..Len(index))
<1> DEFINE m == Len(index)
           Dom(n) == {i \in 0..m : i = 0 \/ m - i < n}
           bad == {n \in Nat : ~\E f : IsChain(f, index, Dom(n))}
<1>1. ASSUME NEW n \in Nat, n # 0, NEW i \in Dom(n), i # 0 PROVE Successor(index, i) \in Dom(n - 1)
  <2> DEFINE later == {j \in (i + 1)..m : index[j].opened >= index[i].expires}
  <2>1. Successor(index, i) = 0 \/ Successor(index, i) \in later
    <3>1. i \in Nat
      OBVIOUS
    <3>2. QED
      BY <3>1, SuccessorIs
  <2>2. ASSUME NEW j \in later PROVE j \in Dom(n - 1)
    BY <1>1
  <2>3. 0 \in Dom(n - 1)
    OBVIOUS
  <2> HIDE DEF later, Dom
  <2>4. QED
    BY <2>1, <2>2, <2>3
<1>2. ASSUME bad # {} PROVE FALSE
  <2>1. PICK n \in bad : \A h \in bad : n <= h
    <3>1. bad \subseteq Nat
      OBVIOUS
    <3> HIDE DEF bad
    <3>2. QED
      BY <1>2, <3>1, LeastExists
  <2>2. n \in Nat /\ ~\E f : IsChain(f, index, Dom(n))
    BY <2>1
  <2>3. CASE n = 0
    <3> DEFINE f == [i \in Dom(n) |-> <<>>]
    <3>1. \A i \in Dom(n) : i = 0
      BY <2>3
    <3>2. \A i \in Dom(n) : f[i] = ChainFrom(f, index, i)
      BY <3>1 DEF ChainFrom
    <3>3. f = [i \in Dom(n) |-> f[i]]
      OBVIOUS
    <3> HIDE DEF f, Dom
    <3>4. IsChain(f, index, Dom(n))
      BY <3>2, <3>3 DEF IsChain
    <3>5. QED
      BY <2>2, <3>4
  <2>4. CASE n # 0
    <3>1. n - 1 \in Nat /\ n - 1 \notin bad
      <4>1. n - 1 \in Nat /\ ~(n <= n - 1)
        BY <2>2, <2>4
      <4>2. QED
        BY <2>1, <4>1
    <3>2. PICK g : IsChain(g, index, Dom(n - 1))
      BY <3>1
    <3> DEFINE f == [i \in Dom(n) |-> ChainFrom(g, index, i)]
    <3>3. \A i \in Dom(n - 1) : g[i] = ChainFrom(g, index, i)
      BY <3>2, Zenon DEF IsChain
    <3>4. \A i \in Dom(n - 1) : i \in Dom(n)
      BY <2>2
    <3> HIDE DEF Dom
    <3>5. \A i \in Dom(n - 1) : f[i] = g[i]
      BY <3>3, <3>4
    <3>6. ASSUME NEW i \in Dom(n) PROVE f[i] = ChainFrom(f, index, i)
      <4>1. f[i] = ChainFrom(g, index, i)
        OBVIOUS
      <4> HIDE DEF f
      <4>2. CASE i = 0
        BY <4>1, <4>2 DEF ChainFrom
      <4>3. CASE i # 0
        <5>1. f[Successor(index, i)] = g[Successor(index, i)]
          BY <1>1, <2>2, <2>4, <3>5, <4>3
        <5>2. QED
          BY <4>1, <5>1 DEF ChainFrom
      <4>4. QED
        BY <4>2, <4>3
    <3>7. f = [i \in Dom(n) |-> f[i]]
      OBVIOUS
    <3> HIDE DEF f
    <3>8. IsChain(f, index, Dom(n))
      BY <3>6, <3>7 DEF IsChain
    <3>9. QED
      BY <2>2, <3>8
  <2>5. QED
    BY <2>3, <2>4
<1>3. m \in Nat /\ Dom(m) = 0..m
  OBVIOUS
<1>4. PICK f : IsChain(f, index, Dom(m))
  BY <1>2, <1>3
<1>5. QED
  BY <1>3, <1>4

LEMMA ChainIs ==
  ASSUME NEW index, Len(index) \in Nat, NEW start \in 0..Len(index)
  PROVE  \E f : /\ Chain(index, start) = f[start] /\ f[0] = <<>>
                /\ \A i \in 1..Len(index) : f[i] = <<index[i]>> \o f[Successor(index, i)]
<1> DEFINE f == CHOOSE g : IsChain(g, index, 0..Len(index))
<1>1. IsChain(f, index, 0..Len(index))
  BY ChainExists
<1>2. Chain(index, start) = f[start]
  BY Zenon DEF Chain, IsChain, ChainFrom
<1> HIDE DEF f
<1>3. \A i \in 0..Len(index) : f[i] = ChainFrom(f, index, i)
  BY <1>1, Zenon DEF IsChain
<1>4. f[0] = <<>>
  <2>1. f[0] = ChainFrom(f, index, 0)
    BY <1>3
  <2>2. QED
    BY <2>1, Zenon DEF ChainFrom
<1>5. ASSUME NEW i \in 1..Len(index) PROVE f[i] = <<index[i]>> \o f[Successor(index, i)]
  <2>1. i \in 0..Len(index) /\ i # 0
    OBVIOUS
  <2>2. f[i] = ChainFrom(f, index, i)
    BY <1>3, <2>1
  <2>3. QED
    BY <2>1, <2>2, Zenon DEF ChainFrom
<1>6. QED
  BY <1>2, <1>4, <1>5
LEMMA CausalEmpty == Causal({}) = <<>>
<1>1. Rows({})
  BY FS_EmptySet DEF Rows
<1>2. InOrder(<<>>, {})
  <2>1. <<>> \in Seq({}) /\ Len(<<>>) = 0
    OBVIOUS
  <2>2. Cardinality({}) = 0
    BY FS_EmptySet
  <2>3. QED
    BY <2>1, <2>2 DEF InOrder
<1>3. QED
  BY <1>1, <1>2, CausalLists

\* A row that comes before the others is listed first.
LEMMA CausalCons ==
  ASSUME NEW U, NEW x, x \notin U, Rows({x} \cup U), \A u \in U : CausallyBefore(x, u)
  PROVE  Causal({x} \cup U) = <<x>> \o Causal(U)
<1> DEFINE A == {x} \cup U
           c == Causal(U)
           v == <<x>> \o c
<1>1. Rows(U)
  BY FS_Subset DEF Rows
<1>2. InOrder(c, U)
  BY <1>1, CausalLists
<1>3. Cardinality(A) = Cardinality(U) + 1
  <2>1. IsFiniteSet(U)
    BY <1>1 DEF Rows
  <2>2. Cardinality(U \cup {x}) = Cardinality(U) + 1
    BY <2>1, FS_AddElement
  <2>3. A = U \cup {x}
    OBVIOUS
  <2>4. QED
    BY <2>2, <2>3
<1> HIDE DEF c
<1>4. c \in Seq(U) /\ Len(c) \in Nat /\ Len(c) = Cardinality(U) /\ \A i \in 1..Len(c) : c[i] \in U
  <2>1. c \in Seq(U) /\ Len(c) = Cardinality(U)
    BY <1>2 DEF InOrder
  <2>2. QED
    BY <2>1
<1>5. v \in Seq(A) /\ Len(v) = 1 + Len(c) /\ v[1] = x /\ \A i \in 1..Len(c) : v[1 + i] = c[i]
  <2>1. c \in Seq(A) /\ <<x>> \in Seq(A) /\ Len(<<x>>) = 1
    BY <1>4
  <2>2. QED
    BY <1>4, <2>1, ConcatProperties
<1>6. \A i \in 1..Len(v) : v[i] \in A /\ (i # 1 => i - 1 \in 1..Len(c) /\ v[i] = c[i - 1])
  <2>1. \A i \in 1..Len(v) : i # 1 => i - 1 \in 1..Len(c) /\ 1 + (i - 1) = i
    BY <1>4, <1>5
  <2>2. QED
    BY <1>4, <1>5, <2>1
<1> HIDE DEF v
<1>7. \A e \in A : \E i \in 1..Len(v) : v[i] = e
  <2> SUFFICES ASSUME NEW e \in A PROVE \E i \in 1..Len(v) : v[i] = e
    OBVIOUS
  <2>1. CASE e = x
    BY <1>4, <1>5, <2>1
  <2>2. CASE e \in U
    <3>1. PICK i \in 1..Len(c) : c[i] = e
      BY <1>2, <2>2 DEF InOrder
    <3>2. 1 + i \in 1..Len(v)
      BY <1>4, <1>5
    <3>3. QED
      BY <1>5, <3>1, <3>2
  <2>3. QED
    BY <2>1, <2>2
<1>8. \A e \in A : e.key \in Nat /\ e.opened \in Nat /\ e.settled \in Nat
  BY DEF Rows, Event
<1>9. ASSUME NEW i \in 1..Len(v), NEW j \in 1..Len(v) PROVE i < j <=> CausallyBefore(v[i], v[j])
  <2>1. CASE i = 1 /\ j = 1
    BY <1>5, <1>8, <2>1 DEF CausallyBefore
  <2>2. CASE i = 1 /\ j # 1
    <3>1. CausallyBefore(v[i], v[j]) /\ i < j
      BY <1>4, <1>5, <1>6, <2>2
    <3>2. QED
      BY <3>1
  <2>3. CASE i # 1 /\ j = 1
    <3>1. CausallyBefore(v[j], v[i]) /\ ~(i < j)
      BY <1>4, <1>5, <1>6, <2>3
    <3>2. v[i] \in A /\ v[j] \in A
      BY <1>6
    <3> DEFINE y == v[i]
               z == v[j]
    <3>3. ~CausallyBefore(y, z)
      <4>1. CausallyBefore(z, y) /\ y \in A /\ z \in A
        BY <3>1, <3>2
      <4> HIDE DEF y, z
      <4>2. QED
        BY <1>8, <4>1 DEF CausallyBefore
    <3>4. QED
      BY <3>1, <3>3
  <2>4. CASE i # 1 /\ j # 1
    <3>1. i - 1 < j - 1 <=> CausallyBefore(c[i - 1], c[j - 1])
      BY <1>2, <1>6, <2>4 DEF InOrder
    <3>2. i - 1 < j - 1 <=> i < j
      BY <1>5, <1>4
    <3>3. QED
      BY <1>6, <2>4, <3>1, <3>2
  <2>5. QED
    BY <2>1, <2>2, <2>3, <2>4
<1>10. InOrder(v, A)
  BY <1>3, <1>4, <1>5, <1>7, <1>9 DEF InOrder
<1>11. v = Causal(A)
  BY <1>10, CausalLists
<1>12. QED
  BY <1>11 DEF v, c

\* The rows of a list from a place on.
From(v, i) == {v[j] : j \in i..Len(v)}

ChainsFrom(f, v, n, i) == \E K : AreIndependent(K, From(v, i)) /\ f[n + i] = Causal(K)

LEMMA ChainStep ==
  ASSUME NEW S, OneProfile(S), NEW v, InOrder(v, S), Rising(v, 0), NEW n \in Nat,
         NEW index, Len(index) = n + Len(v), \A j \in 1..Len(v) : index[n + j] = v[j],
         NEW f, f[0] = <<>>, NEW i \in 1..Len(v),
         f[n + i] = <<index[n + i]>> \o f[Successor(index, n + i)],
         \A j \in 1..Len(v) : i < j => ChainsFrom(f, v, n, j)
  PROVE  ChainsFrom(f, v, n, i)
<1> DEFINE x == v[i]
           T == From(v, i)
           late == {e \in T : e.opened >= x.expires}
           s == Successor(index, n + i)
           later == {j \in (n + i + 1)..Len(index) : index[j].opened >= index[n + i].expires}
<1>1. Rows(S) /\ Len(v) \in Nat /\ (\A j \in 1..Len(v) : v[j] \in S) /\ T \subseteq S
  <2>1. Rows(S)
    BY DEF OneProfile
  <2>2. Len(v) \in Nat /\ \A j \in 1..Len(v) : v[j] \in S
    BY <2>1, UpIs
  <2>3. QED
    BY <2>1, <2>2 DEF From
<1>2. OneProfile(T) /\ x \in T /\ x \in S
  BY <1>1, SomeOfProfile DEF From
<1>3. \A e \in S : e.opened \in Nat /\ e.expires \in Nat /\ e.opened < e.expires
  BY ProfileRows
<1>4. IF later = {} THEN s = 0 ELSE s \in later /\ \A h \in later : s <= h
  <2>1. n + i \in Nat /\ Len(index) \in Nat
    BY <1>1
  <2>2. QED
    BY <2>1, SuccessorIs
<1>5. \A j \in 1..Len(v) : n + j \in later <=> i < j /\ v[j].opened >= x.expires
  <2>1. \A j \in 1..Len(v) : n + j \in (n + i + 1)..Len(index) <=> i < j
    BY <1>1
  <2>2. QED
    BY <2>1
<1>6. ASSUME NEW e \in T, e.opened >= x.expires PROVE \E h \in 1..Len(v) : e = v[h] /\ n + h \in later
  <2>1. PICK h \in i..Len(v) : e = v[h]
    BY DEF From
  <2>2. h \in 1..Len(v)
    BY <1>1
  <2>3. h # i
    BY <1>2, <1>3, <1>6, <2>1
  <2>4. QED
    BY <1>1, <1>5, <1>6, <2>1, <2>2, <2>3
<1> HIDE DEF s, later
<1>7. \E N : AreIndependent(N, late) /\ f[s] = Causal(N)
  <2>1. CASE later = {}
    <3>1. late = {}
      BY <1>6, <2>1
    <3>2. f[s] = Causal({})
      BY <1>4, <2>1, CausalEmpty
    <3>3. AreIndependent({}, late)
      BY <3>1 DEF AreIndependent
    <3>4. QED
      BY <3>2, <3>3
  <2>2. CASE later # {}
    <3>1. s \in later /\ \A h \in later : s <= h
      BY <1>4, <2>2
    <3> DEFINE j == s - n
    <3>2. j \in 1..Len(v) /\ i < j /\ n + j = s
      BY <1>1, <3>1 DEF later
    <3> HIDE DEF j
    <3>3. v[j].opened >= x.expires
      BY <1>5, <3>1, <3>2
    <3>4. From(v, j) = late
      <4>1. ASSUME NEW e \in late PROVE e \in From(v, j)
        <5>1. PICK h \in 1..Len(v) : e = v[h] /\ n + h \in later
          BY <1>6
        <5>2. n + j <= n + h
          BY <3>1, <3>2, <5>1
        <5>3. h \in j..Len(v)
          BY <3>2, <5>2
        <5>4. QED
          BY <5>1, <5>3 DEF From
      <4>2. ASSUME NEW h \in j..Len(v) PROVE v[h] \in late
        <5>1. h \in 1..Len(v) /\ h \in i..Len(v) /\ (h = j \/ j < h)
          BY <1>1, <3>2
        <5>2. h = j \/ v[j].opened < v[h].opened
          BY <3>2, <5>1 DEF Rising
        <5>3. v[h].opened \in Nat /\ v[j].opened \in Nat /\ x.expires \in Nat
          BY <1>1, <1>2, <1>3, <3>2, <5>1
        <5>4. v[h].opened >= x.expires
          BY <3>3, <5>2, <5>3
        <5>5. v[h] \in T
          BY <5>1 DEF From
        <5>6. QED
          BY <5>4, <5>5
      <4> HIDE DEF late
      <4>3. QED
        BY <4>1, <4>2 DEF From
    <3>5. PICK N : AreIndependent(N, From(v, j)) /\ f[n + j] = Causal(N)
      BY <3>2 DEF ChainsFrom
    <3>6. QED
      BY <3>2, <3>4, <3>5
  <2>3. QED
    BY <2>1, <2>2
<1>8. PICK N : AreIndependent(N, late) /\ f[s] = Causal(N)
  BY <1>7
<1> DEFINE t == x.opened + 1
           end == x.expires
           B == {x}
<1>9. t \in Nat /\ end \in Nat /\ end >= t
  BY <1>2, <1>3
<1>10. \A e \in T : e.opened < t <=> e = x
  <2>1. ASSUME NEW e \in T, e # x PROVE x.opened < e.opened
    <3>1. PICK h \in i..Len(v) : e = v[h]
      BY DEF From
    <3>2. h \in 1..Len(v) /\ i < h /\ 0 < i
      BY <1>1, <2>1, <3>1
    <3>3. QED
      BY <3>1, <3>2 DEF Rising
  <2>2. QED
    BY <1>1, <1>2, <1>3, <2>1
<1>11. {e \in T : e.opened < t} = B
  BY <1>2, <1>10
<1>12. late = {e \in T : e.opened >= t /\ e.opened >= end}
  BY <1>1, <1>3, <1>9
<1>13. N \subseteq T /\ x \notin N
  <2>1. N \subseteq late
    BY <1>8 DEF AreIndependent
  <2>2. x \notin late
    BY <1>2, <1>3
  <2>3. QED
    BY <2>1, <2>2
<1>14. AreIndependent(B, B)
  BY <1>2, <1>3 DEF AreIndependent
<1>15. AreIndependent(B \cup N, T)
  <2>1. B # {} => \E y \in B : y.expires = end /\ \A g \in B : g.opened <= y.opened
    BY <1>2, <1>3
  <2>2. B # {}
    OBVIOUS
  <2> HIDE DEF B, t, end, T, late, x
  <2>3. AreIndependent(B, {e \in T : e.opened < t}) /\ AreIndependent(N, {e \in T : e.opened >= t /\ e.opened >= end})
    BY <1>8, <1>11, <1>12, <1>14, Zenon
  <2>4. QED
    BY <1>2, <1>9, <2>1, <2>2, <2>3, IndependentJoin
<1>16. Causal({x} \cup N) = <<x>> \o Causal(N)
  <2>1. Rows({x} \cup N)
    BY <1>1, <1>2, <1>13, FS_Subset DEF Rows
  <2>2. ASSUME NEW u \in N PROVE CausallyBefore(x, u)
    <3>1. PICK h \in i..Len(v) : u = v[h]
      BY <1>13 DEF From
    <3>2. h \in 1..Len(v) /\ i < h
      BY <1>1, <1>13, <3>1
    <3>3. QED
      BY <3>1, <3>2 DEF InOrder
  <2> HIDE DEF x
  <2>3. QED
    BY <1>13, <2>1, <2>2, CausalCons
<1>17. f[n + i] = Causal(B \cup N)
  BY <1>8, <1>16 DEF s
<1>18. QED
  BY <1>15, <1>17 DEF ChainsFrom

\* The chain from the start of the window on is the independent selection of it.
LEMMA ChainSelects ==
  ASSUME NEW S, OneProfile(S), NEW v, InOrder(v, S), Rising(v, 0), NEW n \in Nat,
         NEW index, Len(index) = n + Len(v), \A j \in 1..Len(v) : index[n + j] = v[j], Len(v) # 0
  PROVE  \E K : AreIndependent(K, S) /\ Chain(index, n + 1) = Causal(K)
<1>1. Len(v) \in Nat /\ From(v, 1) = S
  <2>1. Len(v) \in Nat
    BY UpIs DEF OneProfile
  <2>2. \A j \in 1..Len(v) : v[j] \in S
    BY UpIs DEF OneProfile
  <2>3. QED
    BY <2>1, <2>2 DEF From, InOrder
<1>2. PICK f : /\ Chain(index, n + 1) = f[n + 1] /\ f[0] = <<>>
               /\ \A i \in 1..Len(index) : f[i] = <<index[i]>> \o f[Successor(index, i)]
  <2>1. Len(index) \in Nat /\ n + 1 \in 0..Len(index)
    BY <1>1
  <2>2. QED
    BY <2>1, ChainIs
<1> DEFINE bad == {i \in 1..Len(v) : ~ChainsFrom(f, v, n, i)}
<1>3. ASSUME bad # {} PROVE FALSE
  <2>1. PICK i \in bad : \A j \in bad : j <= i
    <3>1. bad \subseteq 0..Len(v)
      OBVIOUS
    <3> HIDE DEF bad
    <3>2. QED
      BY <1>1, <1>3, <3>1, GreatestExists
  <2>2. i \in 1..Len(v) /\ ~ChainsFrom(f, v, n, i)
    BY <2>1
  <2>3. \A j \in 1..Len(v) : i < j => ChainsFrom(f, v, n, j)
    <3>1. ASSUME NEW j \in 1..Len(v), i < j, j \in bad PROVE FALSE
      <4>1. j <= i
        BY <2>1, <3>1
      <4>2. QED
        BY <2>2, <3>1, <4>1
    <3>2. QED
      BY <3>1
  <2>4. f[n + i] = <<index[n + i]>> \o f[Successor(index, n + i)]
    <3>1. n + i \in 1..Len(index)
      BY <1>1, <2>2
    <3>2. QED
      BY <1>2, <3>1
  <2>5. QED
    BY <1>2, <2>2, <2>3, <2>4, ChainStep
<1>4. ChainsFrom(f, v, n, 1)
  <2>1. 1 \in 1..Len(v)
    BY <1>1
  <2>2. QED
    BY <1>3, <2>1
<1>5. QED
  BY <1>1, <1>2, <1>4 DEF ChainsFrom

-----------------------------------------------------------------------------
(* The window of a profile: what a tracker holds of the rows S of its       *)
(* window, and that it has their state.                                     *)
Distinct(S) == \A e, f \in S : e.dec = f.dec /\ e.dec # 0 => e = f

IsTracker(t) ==
    t = [events |-> t.events, index |-> t.index, start |-> t.start, exact |-> t.exact,
         replay |-> t.replay, dynamic |-> t.dynamic, state |-> t.state]

Indexed(t) ==
    /\ \E X : t.index \in Seq(X)
    /\ t.start \in Nat \ {0} /\ Len(t.index) = t.start - 1 + Len(t.events)
    /\ \A i \in 1..Len(t.events) : t.index[t.start - 1 + i] = t.events[i]

Slides(t, S) ==
    /\ t.dynamic = <<>> \/ \E d : t.dynamic = <<d>> /\ Selects(d, S)
    /\ Inverted(t) # {} => t.dynamic # <<>>

Follows(t, S) ==
    /\ IsTracker(t) /\ t.events = Causal(S) /\ Indexed(t) /\ Slides(t, S)
    /\ t.exact \in BOOLEAN
    /\ t.exact => t.replay = FoldLeft(ReplayStep, NoReplay, Causal(S)) /\ t.state = Replayed(S)

Right(t, S) == Follows(t, S) /\ t.state = Replayed(S)

\* What follows is known of the list of a profile's rows.
LEMMA ProfileList ==
  ASSUME NEW S, OneProfile(S)
  PROVE  /\ InOrder(Causal(S), S) /\ Rows(S) /\ Causal(S) \in Seq(S) /\ Len(Causal(S)) \in Nat
         /\ Len(Causal(S)) = 0 <=> S = {}
         /\ \A i \in 1..Len(Causal(S)) : Causal(S)[i] \in S
         /\ \A i, j \in 1..Len(Causal(S)) : Causal(S)[i] = Causal(S)[j] => i = j
         /\ \A e \in S : \E i \in 1..Len(Causal(S)) : Causal(S)[i] = e
         /\ DOMAIN Causal(S) = 1..Len(Causal(S))
<1> DEFINE v == Causal(S)
<1>1. Rows(S)
  BY DEF OneProfile
<1>2. InOrder(v, S)
  BY <1>1, CausalLists
<1> HIDE DEF v
<1>3. /\ Len(v) \in Nat /\ (\A i \in 1..Len(v) : v[i] \in S) /\ DOMAIN v = 1..Len(v)
      /\ \A i, j \in 1..Len(v) : v[i] = v[j] => i = j
  BY <1>1, <1>2, UpIs
<1>4. v \in Seq(S) /\ \A e \in S : \E i \in 1..Len(v) : v[i] = e
  BY <1>2 DEF InOrder
<1>5. Len(v) = 0 <=> S = {}
  <2>1. Len(v) = 0 => S = {}
    BY <1>4
  <2>2. S = {} => Len(v) = 0
    <3>1. ASSUME S = {}, Len(v) # 0 PROVE FALSE
      <4>1. 1 \in 1..Len(v)
        BY <1>3, <3>1
      <4>2. v[1] \in S
        BY <1>3, <4>1
      <4>3. QED
        BY <3>1, <4>2
    <3>2. QED
      BY <3>1
  <2>3. QED
    BY <2>1, <2>2
<1>6. QED
  BY <1>1, <1>2, <1>3, <1>4, <1>5 DEF v

\* The independent rows and the place from which they decide.
LEMMA ReplayedBy ==
  ASSUME NEW S, OneProfile(S), S # {}, NEW K, AreIndependent(K, S), NEW p, TailRises(Causal(S), Causal(K), p)
  PROVE  Replayed(S) = TailState(Causal(K))
<1> DEFINE v == Causal(S)
           n == Len(v)
<1>1. PICK b : Trace(b, v) /\ Replayed(S) = b[n].state
  BY ReplayedIs
<1>2. InOrder(v, S) /\ Rows(S) /\ n \in Nat
  BY ProfileList
<1>3. TailRises(v, Causal(K), p)
  OBVIOUS
<1> HIDE DEF v
<1>4. Up(v, n) = S /\ n \in 0..n
  BY <1>2, UpIs
<1>5. AreIndependent(b[n].sel.canon, S)
  BY <1>1, <1>2, <1>4, TraceHolds DEF TraceIs, Selects
<1>6. K = b[n].sel.canon /\ K \subseteq S
  <2> DEFINE L == b[n].sel.canon
  <2>1. AreIndependent(L, S)
    BY <1>5
  <2> HIDE DEF L
  <2>2. K = L
    BY <2>1, IndependentOnce
  <2>3. QED
    BY <2>2 DEF L, AreIndependent
<1>7. Len(Causal(K)) # 0
  <2>1. K # {}
    BY DEF AreIndependent
  <2>2. OneProfile(K)
    BY <1>6, SomeOfProfile
  <2>3. QED
    BY <2>1, <2>2, ProfileList
<1>8. b[n].state = TailState(Causal(K))
  BY <1>1, <1>2, <1>3, <1>6, <1>7, ReplayedTail
<1>9. QED
  BY <1>1, <1>8

\* In the order of opening the chain has the state.
LEMMA ChainState ==
  ASSUME NEW S, OneProfile(S), S # {}, NEW t, Follows(t, S), Inverted(t) = {}
  PROVE  TailState(Chain(t.index, t.start)) = Replayed(S)
<1> DEFINE v == Causal(S)
           n == t.start - 1
           index == t.index
<1>1. v = t.events /\ InOrder(v, S) /\ Len(v) \in Nat /\ Len(v) # 0
  BY ProfileList DEF Follows
<1>2. n \in Nat /\ n + 1 = t.start /\ Len(index) = n + Len(v) /\ \A i \in 1..Len(v) : index[n + i] = v[i]
  BY <1>1 DEF Follows, Indexed
<1> HIDE DEF v, n, index
<1>3. Rising(v, 0)
  <2>1. \A i \in 1..(Len(v) - 1) : ~OpenedBefore(v[i + 1], v[i])
    BY <1>1 DEF Inverted
  <2>2. 0 \in Nat /\ \A i \in 1..(Len(v) - 1) : 0 < i => ~OpenedBefore(v[i + 1], v[i])
    BY <2>1
  <2>3. QED
    BY <1>1, <2>2, RisingIs
<1>4. PICK K : AreIndependent(K, S) /\ Chain(index, n + 1) = Causal(K)
  <2>1. Len(index) = n + Len(v) /\ \A j \in 1..Len(v) : index[n + j] = v[j]
    BY <1>2
  <2>2. n \in Nat /\ Len(v) # 0 /\ InOrder(v, S)
    BY <1>1, <1>2
  <2>3. QED
    BY <1>3, <2>1, <2>2, ChainSelects
<1>5. TailRises(v, Causal(K), 0)
  BY <1>3 DEF TailRises
<1>6. Replayed(S) = TailState(Causal(K))
  BY <1>4, <1>5, ReplayedBy DEF v
<1>7. QED
  BY <1>2, <1>4, <1>6 DEF index

\* Otherwise the sliding selection has it, unless the last rows are out of order.
LEMMA SlidingState ==
  ASSUME NEW S, OneProfile(S), S # {}, NEW t, Follows(t, S), Inverted(t) # {}, ~Uncertain(t)
  PROVE  TailState(BySettlement(t.dynamic[1].canon)) = Replayed(S)
<1> DEFINE v == Causal(S)
           n == Len(v)
           q == BySettlement(t.dynamic[1].canon)
           place(e) == CHOOSE i \in 1..Len(t.events) : t.events[i] = e
           members == {t.events[i] : i \in Inverted(t)} \cup {t.events[i + 1] : i \in Inverted(t)}
           tail == {TailOf(q, Full + 2)[i] : i \in 1..(Full + 2)}
<1>1. v = t.events /\ InOrder(v, S) /\ n \in Nat
  BY ProfileList DEF Follows
<1>2. \A i, j \in 1..n : v[i] = v[j] => i = j
  BY ProfileList
<1>3. PICK d : t.dynamic = <<d>> /\ Selects(d, S)
  BY DEF Follows, Slides
<1> DEFINE K == d.canon
<1>4. t.dynamic[1].canon = K /\ AreIndependent(K, S) /\ K \subseteq S
  BY <1>3 DEF Selects, AreIndependent
<1>5. OneProfile(K) /\ q = Causal(K)
  BY <1>4, SomeOfProfile, SettlementIsCausal
<1>6. q \in Seq(K) /\ Len(q) \in Nat /\ \A i \in 1..Len(q) : q[i] \in K
  <2> DEFINE c == Causal(K)
  <2>1. c \in Seq(K) /\ Len(c) \in Nat /\ \A i \in 1..Len(c) : c[i] \in K
    <3> HIDE DEF K
    <3>1. QED
      BY <1>5, ProfileList
  <2>2. q = c
    BY <1>5
  <2> HIDE DEF q, c, K
  <2>3. QED
    BY <2>1, <2>2
<1>7. ~(Len(q) <= Full + 2) /\ \A m \in members, e \in tail : ~(place(m) >= place(e))
  BY DEF Uncertain
<1>8. Full \in Nat
  BY ConfigAssumption
<1>9. \A i \in Inverted(t) : i \in 1..(n - 1) /\ OpenedBefore(v[i + 1], v[i])
  BY <1>1 DEF Inverted
<1>10. \A i \in 1..(n - 1) : OpenedBefore(v[i + 1], v[i]) => i \in Inverted(t)
  BY <1>1 DEF Inverted
<1>11. \A i \in 1..n : place(v[i]) = i
  <2> SUFFICES ASSUME NEW i \in 1..n PROVE place(v[i]) = i
    OBVIOUS
  <2>1. place(v[i]) \in 1..n /\ v[place(v[i])] = v[i]
    BY <1>1
  <2> HIDE DEF place
  <2>2. QED
    BY <1>2, <2>1
<1> HIDE DEF v, q, place
<1>12. PICK i \in Inverted(t) : \A j \in Inverted(t) : j <= i
  <2>1. Inverted(t) \subseteq 0..n
    BY <1>1, <1>9
  <2>2. QED
    BY <1>1, <2>1, GreatestExists
<1> DEFINE p == i + 1
<1>13. p \in 1..n /\ p \in Nat /\ v[p] \in members
  BY <1>1, <1>9, <1>12
<1>14. Rising(v, p)
  <2>1. \A j \in 1..(n - 1) : p < j => ~OpenedBefore(v[j + 1], v[j])
    <3> SUFFICES ASSUME NEW j \in 1..(n - 1), p < j, OpenedBefore(v[j + 1], v[j]) PROVE FALSE
      OBVIOUS
    <3>1. j <= i
      BY <1>10, <1>12
    <3>2. QED
      BY <1>9, <1>12, <3>1
  <2>2. QED
    BY <1>1, <1>13, <2>1, RisingIs
<1>15. ASSUME NEW l \in (Len(q) - Full - 1)..Len(q) PROVE \E g \in 1..n : p < g /\ v[g] = q[l]
  <2>1. Len(q) > Full + 2 /\ l \in 1..Len(q)
    BY <1>6, <1>7, <1>8
  <2> DEFINE h == l - Len(q) + Full + 2
  <2>2. h \in 1..(Full + 2) /\ Len(q) - (Full + 2) + h = l
    BY <1>6, <1>8, <2>1
  <2>3. TailOf(q, Full + 2)[h] = q[l]
    <3>1. Full + 2 \in Nat /\ Len(q) > Full + 2
      BY <1>8, <2>1
    <3>2. \A x \in 1..(Full + 2) : TailOf(q, Full + 2)[x] = q[Len(q) - (Full + 2) + x]
      BY <1>6, <3>1, TailValues
    <3> HIDE DEF h
    <3>3. QED
      BY <2>2, <3>2
  <2>4. q[l] \in tail
    BY <2>2, <2>3
  <2>5. PICK g \in 1..n : v[g] = q[l]
    <3>1. q[l] \in S
      BY <1>4, <1>6, <2>1
    <3>2. QED
      BY <1>1, <3>1 DEF InOrder
  <2>6. ~(place(v[p]) >= place(v[g]))
    BY <1>7, <1>13, <2>4, <2>5
  <2>7. p < g
    BY <1>1, <1>11, <1>13, <2>6
  <2>8. QED
    BY <2>5, <2>7
<1>16. TailRises(v, q, p)
  BY <1>6, <1>7, <1>8, <1>13, <1>14, <1>15 DEF TailRises
<1> HIDE DEF p, K
<1>17. Replayed(S) = TailState(q)
  BY <1>4, <1>5, <1>16, ReplayedBy DEF v
<1>18. QED
  BY <1>17 DEF q

LEMMA ReplayedNothing == Replayed({}) = Empty
<1>1. OneProfile({})
  BY FS_EmptySet DEF OneProfile, Rows
<1>2. PICK b : Trace(b, Causal({})) /\ Replayed({}) = b[Len(Causal({}))].state
  BY <1>1, ReplayedIs
<1>3. Len(Causal({})) = 0
  BY CausalEmpty
<1>4. b[0] = NoReplay
  BY <1>2 DEF Trace
<1>5. NoReplay.state = Empty
  BY DEF NoReplay
<1>6. QED
  BY <1>2, <1>3, <1>4, <1>5, Zenon

\* Computed again from its rows alone, no decision being named twice.
LEMMA WindowState ==
  ASSUME NEW S, OneProfile(S), S # {}, Distinct(S), NEW v, v = Causal(S)
  PROVE  StateOf(ToSet(v), v[1].key) = Replayed(S)
<1>1. Len(v) \in Nat /\ Len(v) # 0 /\ (\A i \in 1..Len(v) : v[i] \in S) /\ (\A e \in S : \E i \in 1..Len(v) : v[i] = e) /\ DOMAIN v = 1..Len(v)
  BY ProfileList
<1>2. ToSet(v) = S
  BY <1>1 DEF ToSet
<1>3. v[1] \in S
  BY <1>1
<1>4. {e \in Bound(S) : e.key = v[1].key} = S
  BY <1>3 DEF Bound, Distinct, OneProfile
<1>5. v[1].key \in {e.key : e \in S}
  BY <1>3
<1> DEFINE k == v[1].key
           keys == {e.key : e \in S}
<1>6. Rebuild(S) = [j \in keys |-> Replayed({e \in Bound(S) : e.key = j})]
  BY DEF Rebuild
<1>7. k \in keys /\ {e \in Bound(S) : e.key = k} = S
  BY <1>4, <1>5
<1> HIDE DEF k, keys
<1>8. StateOf(S, k) = Replayed(S)
  BY <1>6, <1>7, Zenon DEF StateOf, StateIn
<1>9. QED
  BY <1>2, <1>8, Zenon DEF k

LEMMA FollowsStill ==
  ASSUME NEW S, NEW t, Follows(t, S), NEW x, x = Replayed(S)
  PROVE  Right([t EXCEPT !.state = x], S)
<1> DEFINE r == [t EXCEPT !.state = x]
<1>1. IsTracker(t)
  BY DEF Follows
<1>2. r = [events |-> t.events, index |-> t.index, start |-> t.start, exact |-> t.exact,
           replay |-> t.replay, dynamic |-> t.dynamic, state |-> x]
  BY <1>1 DEF IsTracker
<1> HIDE DEF r
<1>3. /\ r.events = t.events /\ r.index = t.index /\ r.start = t.start /\ r.exact = t.exact
      /\ r.replay = t.replay /\ r.dynamic = t.dynamic /\ r.state = x
  BY <1>2
<1>4. IsTracker(r)
  BY <1>2, <1>3 DEF IsTracker
<1>5. Inverted(r) = Inverted(t)
  BY <1>3 DEF Inverted
<1>6. QED
  BY <1>3, <1>4, <1>5 DEF Right, Follows, Indexed, Slides, r

\* Whichever way the evaluation takes, the answer is the state of the rows.
LEMMA EvaluateIs ==
  ASSUME NEW S, OneProfile(S), Distinct(S), NEW t, Follows(t, S)
  PROVE  Right(Evaluate(t), S)
<1> DEFINE x == IF t.events = <<>> THEN Empty
                ELSE IF Inverted(t) = {} THEN TailState(Chain(t.index, t.start))
                ELSE IF Uncertain(t) THEN StateOf(ToSet(t.events), t.events[1].key)
                ELSE TailState(BySettlement(t.dynamic[1].canon))
<1>1. Evaluate(t) = [t EXCEPT !.state = x]
  BY Zenon DEF Evaluate
<1>2. t.events = Causal(S)
  BY DEF Follows
<1>3. x = Replayed(S)
  <2>1. CASE t.events = <<>>
    <3>1. x = Empty
      BY <2>1
    <3>2. Len(Causal(S)) = 0
      BY <1>2, <2>1
    <3>3. S = {}
      BY <3>2, ProfileList
    <3>4. QED
      BY <3>1, <3>3, ReplayedNothing
  <2>2. CASE t.events # <<>>
    <3>1. S # {}
      BY <1>2, <2>2, CausalEmpty
    <3>2. CASE Inverted(t) = {}
      <4>1. x = TailState(Chain(t.index, t.start))
        BY <2>2, <3>2
      <4>2. QED
        BY <3>1, <3>2, <4>1, ChainState
    <3>3. CASE Inverted(t) # {} /\ Uncertain(t)
      <4>1. x = StateOf(ToSet(t.events), t.events[1].key)
        BY <2>2, <3>3
      <4> DEFINE v == t.events
      <4>2. v = Causal(S)
        BY <1>2
      <4> HIDE DEF v
      <4>3. StateOf(ToSet(v), v[1].key) = Replayed(S)
        BY <3>1, <4>2, WindowState
      <4>4. QED
        BY <4>1, <4>3, Zenon DEF v
    <3>4. CASE Inverted(t) # {} /\ ~Uncertain(t)
      <4>1. x = TailState(BySettlement(t.dynamic[1].canon))
        BY <2>2, <3>4
      <4>2. TailState(BySettlement(t.dynamic[1].canon)) = Replayed(S)
        BY <3>1, <3>4, SlidingState
      <4>3. QED
        BY <4>1, <4>2, Zenon
    <3>5. QED
      BY <3>2, <3>3, <3>4
  <2>3. QED
    BY <2>1, <2>2
<1> HIDE DEF x
<1>4. QED
  BY <1>1, <1>3, FollowsStill

-----------------------------------------------------------------------------
(* Rows that leave a window, and a row that enters it.                      *)

\* The places of the rows settled before an instant, and the other rows.
Old(v, from)    == {i \in 1..Len(v) : \A j \in 1..i : v[j].settled < from}
Recent(S, from) == {x \in S : x.settled >= from}

\* They are the first of the rows in causal order.
OldCome(v, S, from, n, R) ==
    /\ n \in 0..Len(v) /\ (Old(v, from) = {} <=> n = 0) /\ (Old(v, from) = {} <=> R = S)
    /\ \A i \in 1..Len(v) : v[i] \in R <=> i > n
    /\ SubSeq(v, n + 1, Len(v)) = Causal(R) /\ Up(v, n) = S \ R
    /\ Len(Causal(R)) = Len(v) - n

LEMMA OldestFirst ==
  ASSUME NEW S, Rows(S), NEW v, v = Causal(S), NEW from \in Int
  PROVE  OldCome(v, S, from, Cardinality(Old(v, from)), Recent(S, from))
<1> DEFINE old == {i \in 1..Len(v) : \A j \in 1..i : v[j].settled < from}
           n   == Cardinality(old)
           R   == {x \in S : x.settled >= from}
           c   == Causal(R)
           m   == Len(v) - Len(c)
<1>1. InOrder(v, S)
  BY CausalLists
<1>2. Len(v) \in Nat /\ (\A i \in 1..Len(v) : v[i] \in S) /\ Up(v, Len(v)) = S
  BY <1>1, UpIs
<1>3. \A e \in S : e.settled \in Nat
  BY DEF Rows, Event
<1>4. \A x \in S \ R, u \in R : CausallyBefore(x, u)
  BY <1>3 DEF CausallyBefore
<1>5. R \subseteq S /\ Rows(R)
  <2>1. R \subseteq S
    OBVIOUS
  <2>2. QED
    BY <2>1, FS_Subset DEF Rows
<1>6. EndsWith(v, c) /\ \A i \in 1..Len(v) : v[i] \in R <=> i > m
  <2>1. EndsWith(Causal(S), Causal(R)) /\ \A i \in 1..Len(Causal(S)) : Causal(S)[i] \in R <=> i > Len(Causal(S)) - Len(Causal(R))
    <3> HIDE DEF R
    <3>1. QED
      BY <1>4, <1>5, CausalSuffix
  <2>2. QED
    BY <2>1
<1>7. c \in Seq(R)
  BY <1>5, CausalLists DEF InOrder
<1>8. m \in 0..Len(v) /\ Len(c) \in Nat
  BY <1>2, <1>6 DEF EndsWith
<1>9. old = 1..m
  <2>1. \A i \in 1..Len(v) : v[i].settled < from <=> ~(i > m)
    <3>1. \A i \in 1..Len(v) : v[i] \in S /\ v[i].settled \in Nat
      BY <1>2, <1>3
    <3>2. QED
      BY <1>6, <3>1
  <2> HIDE DEF m
  <2>2. ASSUME NEW i \in old PROVE i \in 1..m
    <3>1. i \in 1..Len(v) /\ i \in 1..i
      BY <1>2
    <3>2. v[i].settled < from
      BY <3>1
    <3>3. QED
      BY <1>8, <2>1, <3>1, <3>2
  <2>3. ASSUME NEW i \in 1..m PROVE i \in old
    <3>1. i \in 1..Len(v) /\ \A j \in 1..i : j \in 1..Len(v) /\ ~(j > m)
      BY <1>2, <1>8
    <3>2. QED
      BY <2>1, <3>1
  <2> HIDE DEF old
  <2>4. QED
    BY <2>2, <2>3
<1>10. n = m
  <2>1. m \in Nat
    BY <1>8
  <2> HIDE DEF m, old
  <2>2. Cardinality(1..m) = m
    BY <2>1, FS_Interval
  <2>3. QED
    BY <1>9, <2>2
<1> HIDE DEF old, R, c, m, n
<1>11. old = {} <=> n = 0
  BY <1>8, <1>9, <1>10
<1>12. Up(v, n) = S \ R
  <2>1. \A i \in 1..n : i \in 1..Len(v) /\ ~(i > n)
    BY <1>2, <1>8, <1>10
  <2>2. \A x \in S \ R : \E i \in 1..n : v[i] = x
    <3> SUFFICES ASSUME NEW x \in S \ R PROVE \E i \in 1..n : v[i] = x
      OBVIOUS
    <3>1. PICK i \in 1..Len(v) : v[i] = x
      BY <1>2 DEF Up
    <3>2. ~(i > n)
      BY <1>6, <1>10, <3>1
    <3>3. i \in 1..n
      BY <1>8, <1>10, <3>2
    <3>4. QED
      BY <3>1, <3>3
  <2>3. QED
    BY <1>2, <1>6, <1>10, <2>1, <2>2 DEF Up
<1>13. old = {} <=> R = S
  <2>1. n = 0 => S \ R = {}
    BY <1>12 DEF Up
  <2>2. S \ R = {} => n = 0
    <3>1. ASSUME n # 0, S \ R = {} PROVE FALSE
      <4>1. 1 \in 1..n
        BY <1>8, <1>10, <3>1
      <4>2. v[1] \in Up(v, n)
        BY <4>1 DEF Up
      <4>3. QED
        BY <1>12, <3>1, <4>2
    <3>2. QED
      BY <3>1
  <2>3. QED
    BY <1>5, <1>11, <2>1, <2>2
<1>14. SubSeq(v, n + 1, Len(v)) = c
  <2> DEFINE w == SubSeq(v, n + 1, Len(v))
  <2>1. n + 1 \in 1..(Len(v) + 1) /\ \A i \in (n + 1)..Len(v) : i \in 1..Len(v) /\ v[i] \in S
    BY <1>2, <1>8, <1>10
  <2>2. /\ w \in Seq(S) /\ Len(w) = (IF n + 1 <= Len(v) THEN Len(v) - (n + 1) + 1 ELSE 0)
        /\ \A i \in 1..(Len(v) - (n + 1) + 1) : w[i] = v[n + 1 + i - 1]
    BY <1>2, <1>8, <1>10, <2>1, SubSeqProperties
  <2> HIDE DEF w
  <2>3. Len(w) = Len(c)
    <3>1. n = Len(v) - Len(c) /\ Len(c) \in Nat /\ Len(v) \in Nat /\ Len(c) <= Len(v)
      BY <1>2, <1>6, <1>8, <1>10 DEF m, EndsWith
    <3>2. QED
      BY <2>2, <3>1
  <2>4. ASSUME NEW i \in 1..Len(w) PROVE w[i] = c[i]
    <3>1. n = Len(v) - Len(c) /\ Len(c) \in Nat /\ Len(v) \in Nat /\ Len(c) <= Len(v)
      BY <1>2, <1>6, <1>8, <1>10 DEF m, EndsWith
    <3>2. i \in 1..(Len(v) - (n + 1) + 1) /\ n + 1 + i - 1 = Len(v) - Len(c) + i /\ i \in 1..Len(c)
      BY <2>3, <3>1
    <3>3. w[i] = v[Len(v) - Len(c) + i]
      BY <2>2, <3>2
    <3>4. c[i] = v[Len(v) - Len(c) + i]
      BY <1>6, <3>2 DEF EndsWith
    <3>5. QED
      BY <3>3, <3>4
  <2>5. c \in Seq(S)
    BY <1>5, <1>7
  <2>6. w = c
    BY <2>2, <2>3, <2>4, <2>5, SeqEqual
  <2>7. QED
    BY <2>6 DEF w
<1>15. Len(c) = Len(v) - n
  BY <1>2, <1>8, <1>10 DEF m
<1>16. \A i \in 1..Len(v) : v[i] \in R <=> i > n
  BY <1>6, <1>10
<1>17. n \in 0..Len(v)
  BY <1>8, <1>10
<1>18. QED
  BY <1>11, <1>12, <1>13, <1>14, <1>15, <1>16, <1>17, Zenon DEF OldCome, Old, Recent, old, n, R, c

\* Retired one after the other.
LEMMA RetiresAll ==
  ASSUME NEW S, OneProfile(S), NEW d, Selects(d, S), NEW n \in 0..Len(Causal(S))
  PROVE  Selects(FoldLeft(Retire, d, SubSeq(Causal(S), 1, n)), S \ Up(Causal(S), n))
<1> DEFINE v == Causal(S)
           w == SubSeq(v, 1, n)
<1>1. Rows(S) /\ InOrder(v, S) /\ Len(v) \in Nat /\ \A i \in 1..Len(v) : v[i] \in S
  BY ProfileList
<1>2. n \in Nat /\ n <= Len(v) /\ n \in 0..Len(v)
  BY <1>1
<1> HIDE DEF v
<1>3. w \in Seq(S) /\ Len(w) = n /\ \A i \in 1..n : w[i] = v[i]
  <2>1. \A i \in 1..n : i \in 1..Len(v) /\ v[i] \in S /\ 1 + i - 1 = i
    BY <1>1, <1>2
  <2>2. w \in Seq(S) /\ Len(w) = n /\ \A i \in 1..n : w[i] = v[1 + i - 1]
    BY <1>2, <2>1, SubSeqProperties
  <2> HIDE DEF w
  <2>3. QED
    BY <2>1, <2>2
<1> HIDE DEF w
<1>4. DOMAIN w = 1..Len(w) /\ Len(w) \in Nat
  BY <1>3, LenProperties
<1>5. PICK b : /\ b[0] = d /\ \A i \in 1..Len(w) : b[i] = Retire(b[i - 1], w[i])
               /\ FoldLeft(Retire, d, w) = b[Len(w)]
  BY <1>4, RetireFold
<1> DEFINE bad == {i \in 0..n : ~Selects(b[i], S \ Up(v, i))}
<1>6. ASSUME bad # {} PROVE FALSE
  <2>1. PICK i \in bad : \A j \in bad : i <= j
    <3>1. bad \subseteq Nat
      BY <1>2
    <3> HIDE DEF bad
    <3>2. QED
      BY <1>6, <3>1, LeastExists
  <2>2. i \in 0..n /\ ~Selects(b[i], S \ Up(v, i))
    BY <2>1
  <2>3. i # 0
    <3>1. Up(v, 0) = {}
      BY <1>1, UpIs
    <3>2. ASSUME i = 0 PROVE FALSE
      BY <1>5, <2>2, <3>1, <3>2
    <3>3. QED
      BY <3>2
  <2>4. i \in 1..n /\ i - 1 \in 0..n /\ ~(i <= i - 1) /\ i \in 1..Len(v) /\ i - 1 \in 0..Len(v)
    BY <1>1, <1>2, <2>2, <2>3
  <2>5. Selects(b[i - 1], S \ Up(v, i - 1))
    <3>1. i - 1 \notin bad
      BY <2>1, <2>4
    <3>2. QED
      BY <2>4, <3>1
  <2>6. Up(v, i) = Up(v, i - 1) \cup {v[i]} /\ v[i] \notin Up(v, i - 1)
    BY <1>1, <2>4, UpIs
  <2> DEFINE T == S \ Up(v, i - 1)
             e == v[i]
             r == b[i - 1]
  <2>7. e \in T /\ T \ {e} = S \ Up(v, i) /\ OneProfile(T)
    <3>1. e \in T /\ T \ {e} = S \ Up(v, i) /\ T \subseteq S
      BY <1>1, <2>4, <2>6
    <3> HIDE DEF T
    <3>2. QED
      BY <3>1, SomeOfProfile
  <2>8. b[i] = Retire(r, e)
    BY <1>3, <1>5, <2>4
  <2>9. Selects(r, T)
    BY <2>5
  <2> HIDE DEF T, e, r
  <2>10. Selects(Retire(r, e), T \ {e})
    BY <2>7, <2>9, RetireSelects
  <2>11. QED
    BY <2>2, <2>7, <2>8, <2>10
<1>7. n \in 0..n
  BY <1>2
<1>8. Selects(b[n], S \ Up(v, n))
  BY <1>6, <1>7
<1>9. QED
  BY <1>3, <1>5, <1>8 DEF v, w

\* Inserted one after the other.
LEMMA InsertsAll ==
  ASSUME NEW S, OneProfile(S), NEW v, InOrder(v, S)
  PROVE  Selects(FoldLeft(Insert, NoSelection, v), S)
<1>1. Rows(S) /\ Len(v) \in Nat /\ DOMAIN v = 1..Len(v) /\ Up(v, Len(v)) = S /\ Up(v, 0) = {}
  <2>1. Rows(S)
    BY DEF OneProfile
  <2>2. QED
    BY <2>1, UpIs
<1>2. PICK b : /\ b[0] = NoSelection /\ \A i \in 1..Len(v) : b[i] = Insert(b[i - 1], v[i])
               /\ FoldLeft(Insert, NoSelection, v) = b[Len(v)]
  BY <1>1, InsertFold
<1> DEFINE bad == {i \in 0..Len(v) : ~Selects(b[i], Up(v, i))}
<1>3. ASSUME bad # {} PROVE FALSE
  <2>1. PICK i \in bad : \A j \in bad : i <= j
    <3>1. bad \subseteq Nat
      BY <1>1
    <3> HIDE DEF bad
    <3>2. QED
      BY <1>3, <3>1, LeastExists
  <2>2. i \in 0..Len(v) /\ ~Selects(b[i], Up(v, i))
    BY <2>1
  <2>3. i # 0
    <3>1. Selects(NoSelection, {})
      BY DEF Selects, NoSelection, AreIndependent
    <3>2. ASSUME i = 0 PROVE FALSE
      BY <1>1, <1>2, <2>2, <3>1, <3>2
    <3>3. QED
      BY <3>2
  <2>4. i \in 1..Len(v) /\ i - 1 \in 0..Len(v) /\ ~(i <= i - 1)
    BY <1>1, <2>2, <2>3
  <2>5. Selects(b[i - 1], Up(v, i - 1))
    <3>1. i - 1 \notin bad
      BY <2>1, <2>4
    <3>2. QED
      BY <2>4, <3>1
  <2>6. Up(v, i) = Up(v, i - 1) \cup {v[i]} /\ v[i] \notin Up(v, i - 1) /\ Up(v, i) \subseteq S
    BY <1>1, <2>2, <2>4, UpIs
  <2> DEFINE T == Up(v, i - 1)
             e == v[i]
             r == b[i - 1]
  <2>7. e \notin T /\ OneProfile(T \cup {e}) /\ T \cup {e} = Up(v, i)
    BY <2>6, SomeOfProfile
  <2>8. b[i] = Insert(r, e) /\ Selects(r, T)
    BY <1>2, <2>4, <2>5
  <2> HIDE DEF T, e, r
  <2>9. Selects(Insert(r, e), T \cup {e})
    BY <2>7, <2>8, InsertSelects
  <2>10. QED
    BY <2>2, <2>7, <2>8, <2>9
<1>4. Selects(b[Len(v)], Up(v, Len(v)))
  <2>1. Len(v) \in 0..Len(v)
    BY <1>1
  <2>2. QED
    BY <1>3, <2>1
<1>5. QED
  BY <1>1, <1>2, <1>4

InvertedIn(v) == {i \in 1..(Len(v) - 1) : OpenedBefore(v[i + 1], v[i])}

LEMMA TrackerOfParts ==
  ASSUME NEW ev, NEW ix, NEW st, NEW ex, NEW rp, NEW dy, NEW x, NEW r,
         r = [events |-> ev, index |-> ix, start |-> st, exact |-> ex, replay |-> rp, dynamic |-> dy, state |-> x]
  PROVE  /\ IsTracker(r) /\ Inverted(r) = InvertedIn(ev)
         /\ r.events = ev /\ r.index = ix /\ r.start = st /\ r.exact = ex
         /\ r.replay = rp /\ r.dynamic = dy /\ r.state = x
<1>1. /\ r.events = ev /\ r.index = ix /\ r.start = st /\ r.exact = ex
      /\ r.replay = rp /\ r.dynamic = dy /\ r.state = x
  OBVIOUS
<1>2. IsTracker(r)
  BY <1>1 DEF IsTracker
<1>3. Inverted(r) = InvertedIn(ev)
  BY <1>1, Zenon DEF Inverted, InvertedIn
<1>4. QED
  BY <1>1, <1>2, <1>3

\* Leaving the window.
LEMMA WithoutFirstIs ==
  ASSUME NEW S, OneProfile(S), NEW t, Follows(t, S), NEW n \in 0..Len(Causal(S)),
         NEW R, R \subseteq S, SubSeq(Causal(S), n + 1, Len(Causal(S))) = Causal(R),
         Up(Causal(S), n) = S \ R, Len(Causal(R)) = Len(Causal(S)) - n
  PROVE  Follows(WithoutFirst(t, n), R)
<1> DEFINE v == Causal(S)
           c == Causal(R)
           dy == IF t.dynamic = <<>> THEN t.dynamic
                 ELSE <<FoldLeft(Retire, t.dynamic[1], SubSeq(t.events, 1, n))>>
           r == WithoutFirst(t, n)
<1>1. t.events = v /\ IsTracker(t) /\ Indexed(t) /\ Slides(t, S)
  BY DEF Follows
<1>2. Len(v) \in Nat /\ n \in Nat /\ n <= Len(v) /\ Len(c) = Len(v) - n /\ v \in Seq(S)
  BY ProfileList
<1>3. r = [events |-> c, index |-> t.index, start |-> t.start + n, exact |-> FALSE,
           replay |-> t.replay, dynamic |-> dy, state |-> t.state]
  <2>1. r = [t EXCEPT !.events = c, !.start = @ + n, !.exact = FALSE, !.dynamic = dy]
    <3> HIDE DEF c
    <3>1. SubSeq(t.events, n + 1, Len(t.events)) = c
      BY <1>1 DEF c
    <3>2. QED
      BY <1>1, <3>1 DEF WithoutFirst, IsTracker
  <2> HIDE DEF r, c, dy
  <2>2. QED
    BY <1>1, <2>1 DEF IsTracker
<1>4. dy = <<>> \/ \E d : dy = <<d>> /\ Selects(d, R)
  <2>1. CASE t.dynamic = <<>>
    BY <2>1
  <2>2. CASE t.dynamic # <<>>
    <3>1. PICK d : t.dynamic = <<d>> /\ Selects(d, S)
      BY <1>1, <2>2 DEF Slides
    <3> DEFINE f == FoldLeft(Retire, d, SubSeq(v, 1, n))
    <3>2. dy = <<f>>
      BY <1>1, <2>2, <3>1
    <3>3. S \ Up(v, n) = R
      OBVIOUS
    <3>4. Selects(f, S \ Up(v, n))
      BY <3>1, RetiresAll
    <3> HIDE DEF f, dy, v
    <3>5. QED
      BY <3>2, <3>3, <3>4
  <2>3. QED
    BY <2>1, <2>2
<1>5. dy = <<>> => t.dynamic = <<>>
  OBVIOUS
<1>6. \A i \in 1..Len(c) : c[i] = v[n + i]
  <2>1. \A i \in (n + 1)..Len(v) : i \in 1..Len(v) /\ v[i] \in S
    BY <1>2, ProfileList
  <2>2. n + 1 \in 1..(Len(v) + 1)
    BY <1>2
  <2> HIDE DEF v, c
  <2>3. \A i \in 1..(Len(v) - (n + 1) + 1) : SubSeq(v, n + 1, Len(v))[i] = v[n + 1 + i - 1]
    BY <1>2, <2>1, <2>2, SubSeqProperties
  <2>4. \A i \in 1..Len(c) : i \in 1..(Len(v) - (n + 1) + 1) /\ n + 1 + i - 1 = n + i
    BY <1>2
  <2>5. SubSeq(v, n + 1, Len(v)) = c
    BY DEF v, c
  <2>6. QED
    BY <2>3, <2>4, <2>5
<1> HIDE DEF r, c, dy, v
<1>7. IsTracker(r) /\ Inverted(r) = InvertedIn(c) /\ r.events = c /\ r.index = t.index /\ r.start = t.start + n
      /\ r.exact = FALSE /\ r.dynamic = dy
  BY <1>3, TrackerOfParts
<1>8. InvertedIn(c) # {} => Inverted(t) # {}
  <2> SUFFICES ASSUME NEW i \in InvertedIn(c) PROVE n + i \in Inverted(t)
    OBVIOUS
  <2>1. i \in 1..(Len(c) - 1) /\ OpenedBefore(c[i + 1], c[i])
    BY DEF InvertedIn
  <2>2. c[i] = v[n + i] /\ c[i + 1] = v[n + i + 1] /\ n + i \in 1..(Len(v) - 1)
    <3>1. i \in 1..Len(c) /\ i + 1 \in 1..Len(c) /\ n + (i + 1) = n + i + 1 /\ n + i \in 1..(Len(v) - 1)
      BY <1>2, <2>1
    <3>2. c[i] = v[n + i] /\ c[i + 1] = v[n + (i + 1)]
      BY <1>6, <3>1
    <3>3. QED
      BY <3>1, <3>2
  <2>3. QED
    BY <1>1, <2>1, <2>2 DEF Inverted
<1>9. Slides(r, R)
  BY <1>1, <1>4, <1>5, <1>7, <1>8 DEF Slides
<1>10. Indexed(r)
  <2>1. \E X : r.index \in Seq(X)
    BY <1>1, <1>7 DEF Indexed
  <2> DEFINE a == t.start
             z == a + n
  <2>2. a \in Nat \ {0} /\ Len(t.index) = a - 1 + Len(v) /\ \A i \in 1..Len(v) : t.index[a - 1 + i] = v[i]
    BY <1>1 DEF Indexed
  <2> HIDE DEF a
  <2>3. \A i \in 1..Len(c) : t.index[z - 1 + i] = c[i]
    <3> SUFFICES ASSUME NEW i \in 1..Len(c) PROVE t.index[z - 1 + i] = c[i]
      OBVIOUS
    <3>1. n + i \in 1..Len(v) /\ z - 1 + i = a - 1 + (n + i)
      BY <1>2, <2>2
    <3> HIDE DEF z
    <3>2. QED
      BY <1>6, <2>2, <3>1
  <2>4. z \in Nat \ {0} /\ Len(t.index) = z - 1 + Len(c)
    BY <1>2, <2>2
  <2>5. r.start = z
    BY <1>7 DEF a
  <2> HIDE DEF z
  <2>6. QED
    BY <1>7, <2>1, <2>3, <2>4, <2>5, Zenon DEF Indexed
<1>11. Follows(r, R)
  BY <1>7, <1>9, <1>10 DEF Follows, c
<1>12. QED
  BY <1>11 DEF r

LEMMA TidyFollows ==
  ASSUME NEW S, OneProfile(S), NEW t, Follows(t, S)
  PROVE  Follows(Compact(InOrderAgain(t)), S)
<1> DEFINE u == InOrderAgain(t)
           r == Compact(u)
<1>1. IsTracker(t) /\ Causal(S) \in Seq(S) /\ t.events = Causal(S)
  BY ProfileList DEF Follows
<1>2. Follows(u, S)
  <2>1. CASE Inverted(t) = {}
    <3>1. u = [t EXCEPT !.dynamic = <<>>]
      BY <2>1 DEF InOrderAgain
    <3> HIDE DEF u
    <3>2. u = [events |-> t.events, index |-> t.index, start |-> t.start, exact |-> t.exact,
               replay |-> t.replay, dynamic |-> <<>>, state |-> t.state]
      BY <1>1, <3>1 DEF IsTracker
    <3>3. /\ IsTracker(u) /\ Inverted(u) = InvertedIn(t.events) /\ u.events = t.events /\ u.index = t.index
          /\ u.start = t.start /\ u.exact = t.exact /\ u.replay = t.replay /\ u.dynamic = <<>> /\ u.state = t.state
      BY <3>2, TrackerOfParts
    <3>4. Inverted(u) = {}
      BY <2>1, <3>3 DEF Inverted, InvertedIn
    <3>5. QED
      BY <3>3, <3>4 DEF Follows, Indexed, Slides
  <2>2. CASE Inverted(t) # {}
    BY <2>2 DEF InOrderAgain
  <2>3. QED
    BY <2>1, <2>2
<1> HIDE DEF u
<1>3. IsTracker(u) /\ u.events = Causal(S)
  BY <1>2 DEF Follows
<1>4. CASE r = u
  BY <1>2, <1>4 DEF u
<1>5. CASE r # u
  <2>1. r = [u EXCEPT !.index = u.events, !.start = 1]
    BY <1>5 DEF Compact
  <2> HIDE DEF r
  <2>2. r = [events |-> u.events, index |-> u.events, start |-> 1, exact |-> u.exact,
             replay |-> u.replay, dynamic |-> u.dynamic, state |-> u.state]
    BY <1>3, <2>1 DEF IsTracker
  <2>3. /\ IsTracker(r) /\ Inverted(r) = InvertedIn(u.events) /\ r.events = u.events /\ r.index = u.events
        /\ r.start = 1 /\ r.exact = u.exact /\ r.replay = u.replay /\ r.dynamic = u.dynamic /\ r.state = u.state
    BY <2>2, TrackerOfParts
  <2>4. Inverted(r) = Inverted(u)
    BY <2>3 DEF Inverted, InvertedIn
  <2>5. Indexed(r)
    <3> DEFINE v == Causal(S)
    <3>1. v \in Seq(S) /\ Len(v) \in Nat
      BY ProfileList
    <3>2. u.events = v
      BY <1>3
    <3> HIDE DEF v
    <3>3. \A i \in 1..Len(v) : 1 - 1 + i = i
      OBVIOUS
    <3>4. 1 \in Nat \ {0} /\ Len(v) = 1 - 1 + Len(v)
      BY <3>1
    <3>5. QED
      BY <2>3, <3>1, <3>2, <3>3, <3>4 DEF Indexed
  <2>6. Slides(r, S)
    BY <1>2, <2>3, <2>4 DEF Follows, Slides
  <2>7. Follows(r, S)
    BY <1>2, <2>3, <2>5, <2>6 DEF Follows
  <2>8. QED
    BY <2>7 DEF r, u
<1>6. QED
  BY <1>4, <1>5 DEF u

LEMMA ExpireIs ==
  ASSUME NEW S, OneProfile(S), NEW t, Follows(t, S), NEW from \in Int
  PROVE  /\ Follows(Expire(t, from), Recent(S, from))
         /\ Recent(S, from) = S => Expire(t, from) = t
<1> DEFINE v == Causal(S)
           R == Recent(S, from)
           old == Old(v, from)
           n == Cardinality(old)
<1>1. t.events = v /\ Rows(S)
  BY DEF Follows, OneProfile
<1>2. OldCome(v, S, from, n, R)
  BY <1>1, OldestFirst
<1>3. Expire(t, from) = IF old = {} THEN t ELSE Compact(InOrderAgain(WithoutFirst(t, n)))
  BY <1>1, Zenon DEF Expire, Old
<1>4. R \subseteq S
  BY DEF Recent
<1> HIDE DEF old, n, R
<1>5. Follows(WithoutFirst(t, n), R)
  BY <1>2, <1>4, WithoutFirstIs DEF OldCome
<1>6. OneProfile(R)
  BY <1>4, SomeOfProfile
<1>7. Follows(Compact(InOrderAgain(WithoutFirst(t, n))), R)
  BY <1>5, <1>6, TidyFollows
<1>8. Follows(Expire(t, from), R) /\ (R = S => Expire(t, from) = t)
  BY <1>2, <1>3, <1>7 DEF OldCome, old
<1>9. QED
  BY <1>8 DEF R

\* A row that comes after the others is listed last.
LEMMA CausalAppend ==
  ASSUME NEW S, NEW e, e \notin S, Rows(S \cup {e}), \A x \in S : CausallyBefore(x, e)
  PROVE  Causal(S \cup {e}) = Append(Causal(S), e)
<1> DEFINE A == S \cup {e}
           c == Causal(S)
           v == Append(c, e)
<1>1. Rows(S)
  BY FS_Subset DEF Rows
<1>2. InOrder(c, S)
  BY <1>1, CausalLists
<1>3. Cardinality(A) = Cardinality(S) + 1
  <2>1. IsFiniteSet(S)
    BY <1>1 DEF Rows
  <2>2. QED
    BY <2>1, FS_AddElement
<1> HIDE DEF c
<1>4. c \in Seq(S) /\ Len(c) \in Nat /\ Len(c) = Cardinality(S) /\ \A i \in 1..Len(c) : c[i] \in S
  <2>1. c \in Seq(S) /\ Len(c) = Cardinality(S)
    BY <1>2 DEF InOrder
  <2>2. QED
    BY <2>1
<1>5. v \in Seq(A) /\ Len(v) = Len(c) + 1 /\ v[Len(c) + 1] = e /\ \A i \in 1..Len(c) : v[i] = c[i]
  <2>1. c \in Seq(A) /\ e \in A
    BY <1>4
  <2>2. QED
    BY <2>1, AppendPlaces
<1>6. \A i \in 1..Len(v) : v[i] \in A /\ (i # Len(c) + 1 => i \in 1..Len(c) /\ v[i] = c[i])
  <2>1. \A i \in 1..Len(v) : i # Len(c) + 1 => i \in 1..Len(c)
    BY <1>4, <1>5
  <2>2. QED
    BY <1>4, <1>5, <2>1
<1>7. Len(c) + 1 \in 1..Len(v) /\ \A i \in 1..Len(c) : i \in 1..Len(v)
  BY <1>4, <1>5
<1> HIDE DEF v
<1>8. \A x \in A : \E i \in 1..Len(v) : v[i] = x
  <2> SUFFICES ASSUME NEW x \in A PROVE \E i \in 1..Len(v) : v[i] = x
    OBVIOUS
  <2>1. CASE x = e
    BY <1>5, <1>7, <2>1
  <2>2. CASE x \in S
    <3>1. PICK i \in 1..Len(c) : c[i] = x
      BY <1>2, <2>2 DEF InOrder
    <3>2. QED
      BY <1>5, <1>7, <3>1
  <2>3. QED
    BY <2>1, <2>2
<1>9. \A x \in A : x.key \in Nat /\ x.opened \in Nat /\ x.settled \in Nat
  BY DEF Rows, Event
<1>10. ASSUME NEW i \in 1..Len(v), NEW j \in 1..Len(v) PROVE i < j <=> CausallyBefore(v[i], v[j])
  <2> DEFINE z == Len(c) + 1
  <2>1. CASE i = z /\ j = z
    <3>1. ~CausallyBefore(e, e)
      BY <1>9 DEF CausallyBefore
    <3>2. QED
      BY <1>4, <1>5, <2>1, <3>1
  <2>2. CASE i # z /\ j = z
    <3>1. CausallyBefore(v[i], v[j]) /\ i < j
      BY <1>4, <1>5, <1>6, <2>2
    <3>2. QED
      BY <3>1
  <2>3. CASE i = z /\ j # z
    <3>1. CausallyBefore(v[j], v[i]) /\ ~(i < j)
      BY <1>4, <1>5, <1>6, <2>3
    <3>2. v[i] \in A /\ v[j] \in A
      BY <1>6
    <3> DEFINE x == v[i]
               y == v[j]
    <3>3. ~CausallyBefore(x, y)
      <4>1. CausallyBefore(y, x) /\ y \in A /\ x \in A
        BY <3>1, <3>2
      <4> HIDE DEF x, y
      <4>2. QED
        BY <1>9, <4>1 DEF CausallyBefore
    <3>4. QED
      BY <3>1, <3>3
  <2>4. CASE i # z /\ j # z
    <3>1. i < j <=> CausallyBefore(c[i], c[j])
      BY <1>2, <1>6, <2>4 DEF InOrder
    <3>2. QED
      BY <1>6, <2>4, <3>1
  <2>5. QED
    BY <2>1, <2>2, <2>3, <2>4
<1>11. InOrder(v, A)
  BY <1>3, <1>4, <1>5, <1>8, <1>10 DEF InOrder
<1>12. v = Causal(A)
  BY <1>11, CausalLists
<1>13. QED
  BY <1>12 DEF v, c

\* One more row is one more step of the replay.
ReplayOf(S) == FoldLeft(ReplayStep, NoReplay, Causal(S))

LEMMA ReplayAppend ==
  ASSUME NEW S, NEW e, e \notin S, OneProfile(S \cup {e}), \A x \in S : CausallyBefore(x, e)
  PROVE  /\ ReplayOf(S \cup {e}) = ReplayStep(ReplayOf(S), e)
         /\ Replayed(S) = ReplayOf(S).state /\ Replayed(S \cup {e}) = ReplayOf(S \cup {e}).state
         /\ \E a : ReplayOf(S) = [sel |-> ReplayOf(S).sel, state |-> ReplayOf(S).state, any |-> a]
<1> DEFINE A == S \cup {e}
           v == Causal(S)
           w == Causal(A)
           n == Len(v)
<1>1. OneProfile(S) /\ Rows(A)
  BY SomeOfProfile DEF OneProfile
<1>2. w = Append(v, e) /\ v \in Seq(S) /\ n \in Nat /\ InOrder(v, S)
  BY <1>1, CausalAppend, ProfileList
<1>3. Len(w) = n + 1 /\ w[n + 1] = e /\ \A i \in 1..n : w[i] = v[i]
  <2>1. v \in Seq(A) /\ e \in A
    BY <1>2
  <2> HIDE DEF v, w
  <2>2. QED
    BY <1>2, <2>1, AppendPlaces
<1>4. PICK b : Trace(b, v) /\ Replayed(S) = b[n].state /\ ReplayOf(S) = b[n]
  BY <1>1, ReplayedIs, Zenon DEF ReplayOf
<1>5. PICK c : Trace(c, w) /\ Replayed(A) = c[n + 1].state /\ ReplayOf(A) = c[n + 1]
  <2>1. PICK c : Trace(c, w) /\ Replayed(A) = c[Len(w)].state /\ ReplayOf(A) = c[Len(w)]
    BY ReplayedIs, Zenon DEF ReplayOf
  <2>2. QED
    BY <1>3, <2>1, Zenon
<1> HIDE DEF v, w, n
<1> DEFINE bad == {i \in 0..n : c[i] # b[i]}
<1>6. ASSUME bad # {} PROVE FALSE
  <2>1. PICK i \in bad : \A j \in bad : i <= j
    <3>1. bad \subseteq Nat
      BY <1>2
    <3> HIDE DEF bad
    <3>2. QED
      BY <1>6, <3>1, LeastExists
  <2>2. i \in 0..n /\ c[i] # b[i]
    BY <2>1
  <2>3. i # 0
    BY <1>4, <1>5, <2>2 DEF Trace
  <2>4. i - 1 \in 0..n /\ ~(i <= i - 1) /\ i \in 1..n /\ i \in 1..Len(w)
    BY <1>2, <1>3, <2>2, <2>3
  <2>5. c[i - 1] = b[i - 1]
    <3>1. i - 1 \notin bad
      BY <2>1, <2>4
    <3>2. QED
      BY <2>4, <3>1
  <2>6. b[i] = ReplayStep(b[i - 1], v[i]) /\ c[i] = ReplayStep(c[i - 1], w[i])
    BY <1>4, <1>5, <2>4 DEF Trace, n
  <2>7. w[i] = v[i]
    BY <1>3, <2>4
  <2>8. QED
    BY <2>2, <2>5, <2>6, <2>7
<1>7. c[n] = b[n] /\ n \in 0..n /\ n + 1 \in 1..Len(w) /\ (n + 1) - 1 = n
  BY <1>2, <1>3, <1>6
<1>8. c[n + 1] = ReplayStep(c[(n + 1) - 1], w[n + 1])
  BY <1>5, <1>7 DEF Trace
<1>9. c[n + 1] = ReplayStep(c[n], e)
  BY <1>3, <1>7, <1>8, Zenon
<1>10. TraceIs(b, v, n)
  BY <1>1, <1>2, <1>4, <1>7, TraceHolds DEF n
<1>11. \E a : b[n] = [sel |-> b[n].sel, state |-> b[n].state, any |-> a]
  BY <1>10, Zenon DEF TraceIs
<1>12. QED
  BY <1>4, <1>5, <1>7, <1>9, <1>11, Zenon

\* All a tracker holds of the rows A but what it answers.
Enqueued(r, t, A) ==
    /\ IsTracker(r) /\ r.events = Causal(A) /\ Indexed(r) /\ Slides(r, A)
    /\ r.exact = t.exact /\ r.replay = t.replay /\ r.state = t.state

LEMMA EnqueueFollows ==
  ASSUME NEW S, NEW e, e \notin S, OneProfile(S \cup {e}), \A x \in S : CausallyBefore(x, e),
         NEW t, Follows(t, S)
  PROVE  Enqueued(Slide(Enqueue(t, e), e), t, S \cup {e})
<1> DEFINE A == S \cup {e}
           v == Causal(S)
           w == Append(v, e)
           ix == Append(t.index, e)
           u == Enqueue(t, e)
           dy == IF t.dynamic # <<>> THEN <<Insert(t.dynamic[1], e)>>
                 ELSE IF InvertedIn(w) # {} THEN Sliding(w) ELSE t.dynamic
           r == Slide(u, e)
<1>1. t.events = v /\ IsTracker(t) /\ Indexed(t) /\ Slides(t, S)
  BY DEF Follows
<1>2. OneProfile(S) /\ Rows(A)
  BY SomeOfProfile DEF OneProfile
<1>3. w = Causal(A)
  BY <1>2, CausalAppend
<1>4. v \in Seq(S) /\ Len(v) \in Nat
  BY <1>2, ProfileList
<1> HIDE DEF v
<1>5. Len(w) = Len(v) + 1 /\ w[Len(v) + 1] = e /\ \A i \in 1..Len(v) : w[i] = v[i]
  <2>1. v \in Seq(A) /\ e \in A
    BY <1>4
  <2>2. QED
    BY <2>1, AppendPlaces
<1>6. u = [events |-> w, index |-> ix, start |-> t.start, exact |-> t.exact,
           replay |-> t.replay, dynamic |-> t.dynamic, state |-> t.state]
  <2>1. u = [t EXCEPT !.events = w, !.index = ix]
    BY <1>1 DEF Enqueue, IsTracker
  <2> HIDE DEF u, w, ix
  <2>2. QED
    BY <1>1, <2>1 DEF IsTracker
<1> HIDE DEF u, w, ix
<1>7. /\ IsTracker(u) /\ Inverted(u) = InvertedIn(w) /\ u.events = w /\ u.index = ix /\ u.start = t.start
      /\ u.exact = t.exact /\ u.replay = t.replay /\ u.dynamic = t.dynamic /\ u.state = t.state
  BY <1>6, TrackerOfParts
<1>8. r = [events |-> w, index |-> ix, start |-> t.start, exact |-> t.exact,
           replay |-> t.replay, dynamic |-> dy, state |-> t.state]
  <2>1. r = [u EXCEPT !.dynamic = dy]
    BY <1>7, Zenon DEF Slide, IsTracker
  <2> HIDE DEF r, dy
  <2>2. QED
    BY <1>7, <2>1 DEF IsTracker
<1> HIDE DEF r
<1>9. dy = <<>> \/ \E d : dy = <<d>> /\ Selects(d, A)
  <2>1. CASE t.dynamic # <<>>
    <3>1. PICK d : t.dynamic = <<d>> /\ Selects(d, S)
      BY <1>1, <2>1 DEF Slides
    <3> DEFINE f == Insert(d, e)
    <3>2. dy = <<f>>
      BY <2>1, <3>1
    <3>3. Selects(f, A)
      BY <3>1, InsertSelects
    <3>4. QED
      BY <3>2, <3>3
  <2>2. CASE t.dynamic = <<>> /\ InvertedIn(w) # {}
    <3> DEFINE f == FoldLeft(Insert, NoSelection, w)
    <3>1. dy = <<f>>
      BY <2>2 DEF Sliding
    <3>2. InOrder(w, A)
      BY <1>2, <1>3, CausalLists
    <3>3. Selects(f, A)
      BY <3>2, InsertsAll
    <3> HIDE DEF f, dy
    <3>4. QED
      BY <3>1, <3>3
  <2>3. CASE t.dynamic = <<>> /\ InvertedIn(w) = {}
    BY <2>3
  <2>4. QED
    BY <2>1, <2>2, <2>3
<1>10. InvertedIn(w) # {} => dy # <<>>
  BY DEF Sliding
<1> HIDE DEF dy
<1>11. /\ IsTracker(r) /\ Inverted(r) = InvertedIn(w) /\ r.events = w /\ r.index = ix /\ r.start = t.start
       /\ r.exact = t.exact /\ r.replay = t.replay /\ r.dynamic = dy /\ r.state = t.state
  BY <1>8, TrackerOfParts
<1>12. Slides(r, A)
  BY <1>9, <1>10, <1>11 DEF Slides
<1>13. Indexed(r)
  <2> DEFINE a == t.start
             q == t.index
  <2>1. a \in Nat \ {0} /\ Len(q) = a - 1 + Len(v) /\ (\A i \in 1..Len(v) : q[a - 1 + i] = v[i]) /\ \E X : q \in Seq(X)
    BY <1>1 DEF Indexed
  <2>2. ix = Append(q, e)
    BY DEF ix
  <2> HIDE DEF a, q
  <2>3. PICK X : q \in Seq(X)
    BY <2>1
  <2>4. q \in Seq(X \cup {e}) /\ e \in X \cup {e} /\ Len(q) \in Nat
    BY <2>3
  <2>5. ix \in Seq(X \cup {e}) /\ Len(ix) = Len(q) + 1 /\ ix[Len(q) + 1] = e /\ \A i \in 1..Len(q) : ix[i] = q[i]
    BY <2>2, <2>4, AppendPlaces
  <2>6. Len(ix) = a - 1 + Len(w)
    BY <1>4, <1>5, <2>1, <2>5
  <2>7. \A i \in 1..Len(w) : ix[a - 1 + i] = w[i]
    <3> SUFFICES ASSUME NEW i \in 1..Len(w) PROVE ix[a - 1 + i] = w[i]
      OBVIOUS
    <3>1. CASE i \in 1..Len(v)
      <4>1. a - 1 + i \in 1..Len(q)
        BY <1>4, <2>1, <3>1
      <4>2. QED
        BY <1>5, <2>1, <2>5, <3>1, <4>1
    <3>2. CASE i \notin 1..Len(v)
      <4>1. i = Len(v) + 1 /\ a - 1 + i = Len(q) + 1
        BY <1>4, <1>5, <2>1, <3>2
      <4>2. QED
        BY <1>5, <2>5, <4>1
    <3>3. QED
      BY <3>1, <3>2
  <2>8. r.start = a /\ r.index = ix /\ r.events = w
    BY <1>11 DEF a
  <2>9. \E Y : ix \in Seq(Y)
    BY <2>5
  <2>10. QED
    BY <2>1, <2>6, <2>7, <2>8, <2>9, Zenon DEF Indexed
<1>14. r.events = Causal(A)
  BY <1>3, <1>11
<1>15. QED
  BY <1>11, <1>12, <1>13, <1>14 DEF Enqueued, r, u

LEMMA TakeIs ==
  ASSUME NEW S, NEW e, e \notin S, OneProfile(S \cup {e}), Distinct(S \cup {e}),
         \A x \in S : CausallyBefore(x, e), NEW t, Follows(t, S)
  PROVE  Right(Take(t, e), S \cup {e})
<1> DEFINE A == S \cup {e}
           r == Slide(Enqueue(t, e), e)
<1>1. /\ IsTracker(r) /\ r.events = Causal(A) /\ Indexed(r) /\ Slides(r, A)
      /\ r.exact = t.exact /\ r.replay = t.replay /\ r.state = t.state
  <2>1. Enqueued(r, t, A)
    BY EnqueueFollows
  <2> HIDE DEF r, A
  <2>2. QED
    BY <2>1 DEF Enqueued
<1>2. t.exact \in BOOLEAN
  BY DEF Follows
<1> HIDE DEF r
<1>3. CASE ~t.exact
  <2>1. Follows(r, A)
    BY <1>1, <1>2, <1>3 DEF Follows
  <2>2. Take(t, e) = Evaluate(r)
    BY <1>3, Zenon DEF Take, r
  <2>3. QED
    BY <2>1, <2>2, EvaluateIs
<1>4. CASE t.exact
  <2> DEFINE b == ReplayOf(S)
             sel == Insert(b.sel, e)
             step == ReplayStep(t.replay, e)
             x == IF step.sel.canon = r.replay.sel.canon THEN r.state ELSE step.state
             q == Step(r, step)
  <2>1. t.replay = b /\ t.state = Replayed(S)
    BY <1>4 DEF Follows, ReplayOf
  <2>2. ReplayOf(A) = step /\ Replayed(S) = b.state /\ Replayed(A) = ReplayOf(A).state
    BY <2>1, ReplayAppend, Zenon
  <2>3. PICK a : b = [sel |-> b.sel, state |-> b.state, any |-> a]
    BY ReplayAppend, Zenon
  <2>4. Take(t, e) = q
    BY <1>4, Zenon DEF Take, r
  <2>5. x = Replayed(A)
    <3>1. step = Selected(b, sel)
      BY <2>1 DEF ReplayStep
    <3>2. r.replay = b /\ r.state = b.state
      BY <1>1, <2>1, <2>2
    <3> HIDE DEF sel, step, b
    <3>3. CASE sel.canon = b.sel.canon
      <4>1. step = [b EXCEPT !.sel = sel]
        BY <3>1, <3>3 DEF Selected
      <4>2. step.state = b.state /\ step.sel = sel
        BY <2>3, <4>1
      <4>3. x = b.state
        BY <3>2, <3>3, <4>2
      <4>4. QED
        BY <2>2, <4>2, <4>3
    <3>4. CASE sel.canon # b.sel.canon
      <4> DEFINE y == Classify(TailOf(BySettlement(sel.canon), Full), IF b.any THEN b.state.status ELSE "NONE")
      <4>1. step = [sel |-> sel, any |-> TRUE, state |-> y]
        BY <3>1, <3>4 DEF Selected
      <4> HIDE DEF y
      <4>2. step.sel = sel
        BY <4>1
      <4>3. x = step.state
        BY <3>2, <3>4, <4>2
      <4>4. QED
        BY <2>2, <4>3
    <3>5. QED
      BY <3>3, <3>4
  <2> HIDE DEF b, sel
  <2>6. q = [r EXCEPT !.replay = step, !.state = x]
    <3>1. \A z : IsTracker(z) => z = [events |-> z.events, index |-> z.index, start |-> z.start, exact |-> z.exact,
                                      replay |-> z.replay, dynamic |-> z.dynamic, state |-> z.state]
      BY DEF IsTracker
    <3> HIDE DEF step
    <3>2. QED
      BY <1>1, <3>1 DEF Step
  <2> HIDE DEF q, step, x
  <2>7. q = [events |-> r.events, index |-> r.index, start |-> r.start, exact |-> r.exact,
             replay |-> step, dynamic |-> r.dynamic, state |-> x]
    BY <1>1, <2>6 DEF IsTracker
  <2>8. /\ IsTracker(q) /\ Inverted(q) = InvertedIn(r.events) /\ q.events = r.events /\ q.index = r.index
        /\ q.start = r.start /\ q.exact = r.exact /\ q.replay = step /\ q.dynamic = r.dynamic /\ q.state = x
    BY <2>7, TrackerOfParts
  <2>9. Inverted(q) = Inverted(r)
    BY <2>8 DEF Inverted, InvertedIn
  <2>10. q.replay = FoldLeft(ReplayStep, NoReplay, Causal(A))
    BY <2>2, <2>8 DEF ReplayOf
  <2>11. Right(q, A)
    BY <1>1, <1>2, <2>5, <2>8, <2>9, <2>10 DEF Right, Follows, Indexed, Slides
  <2>12. QED
    BY <2>4, <2>11
<1>5. QED
  BY <1>2, <1>3, <1>4

\* The operations of a tracker.
LEMMA StateAtIs ==
  ASSUME NEW S, OneProfile(S), Distinct(S), NEW t, Follows(t, S), NEW at \in Int
  PROVE  Right(StateAt(t, at), Recent(S, at - Lookback))
<1> DEFINE from == at - Lookback
           R == Recent(S, from)
<1>1. from \in Int
  BY ConfigAssumption
<1>2. OneProfile(R) /\ Distinct(R)
  <2>1. R \subseteq S
    BY DEF Recent
  <2>2. QED
    BY <2>1, SomeOfProfile DEF Distinct
<1> HIDE DEF R, from
<1>3. Follows(Expire(t, from), R)
  BY <1>1, ExpireIs DEF R
<1>4. Right(Evaluate(Expire(t, from)), R)
  BY <1>2, <1>3, EvaluateIs
<1>5. QED
  BY <1>4 DEF StateAt, R, from

LEMMA AdvanceIs ==
  ASSUME NEW S, NEW e, e \notin S, OneProfile(S \cup {e}), Distinct(S \cup {e}),
         \A x \in S : CausallyBefore(x, e), NEW t, Follows(t, S), NEW at \in Int
  PROVE  Right(Advance(t, e, at), Recent(S, at - Lookback) \cup {e})
<1> DEFINE from == at - Lookback
           R == Recent(S, from)
<1>1. from \in Int
  BY ConfigAssumption
<1>2. R \subseteq S /\ OneProfile(S) /\ OneProfile(R \cup {e}) /\ Distinct(R \cup {e}) /\ e \notin R /\ \A x \in R : CausallyBefore(x, e)
  <2>1. R \subseteq S
    BY DEF Recent
  <2> HIDE DEF R
  <2>2. OneProfile(S) /\ OneProfile(R \cup {e})
    <3>1. S \subseteq S \cup {e} /\ R \cup {e} \subseteq S \cup {e}
      BY <2>1
    <3>2. QED
      BY <3>1, SomeOfProfile
  <2>3. QED
    BY <2>1, <2>2 DEF Distinct
<1> HIDE DEF R, from
<1>3. Follows(Expire(t, from), R)
  BY <1>1, <1>2, ExpireIs DEF R
<1>4. Right(Take(Expire(t, from), e), R \cup {e})
  BY <1>2, <1>3, TakeIs
<1>5. QED
  BY <1>4 DEF Advance, R, from

-----------------------------------------------------------------------------
(* The window over all profiles.                                            *)
OfKey(S, k)   == {e \in S : e.key = k}
Decisions(S)  == {e.dec : e \in S} \ {0}
Keys(S)       == {e.key : e \in S}

\* What it holds of the rows W of the window: each entry in its order, accepted when
\* it is bound to its decision; the row each decision is bound to; a tracker for
\* each profile that has an accepted row.
Enters(entries, W) ==
    /\ \E X : entries \in Seq(X)
    /\ Len(entries) = Len(Causal(W))
    /\ \A i \in 1..Len(entries) :
          entries[i].event = Causal(W)[i] /\ (entries[i].accepted <=> Causal(W)[i] \in Bound(W))

Owns(owner, W) ==
    /\ DOMAIN owner = Decisions(W) /\ owner = [d \in DOMAIN owner |-> owner[d]]
    /\ \A d \in DOMAIN owner : owner[d] \in Bound(W) /\ owner[d].dec = d

Tracks(trackers, W) ==
    /\ DOMAIN trackers = Keys(Bound(W)) /\ trackers = [k \in DOMAIN trackers |-> trackers[k]]
    /\ \A k \in DOMAIN trackers : Right(trackers[k], OfKey(Bound(W), k))

IsWindow(w) == w = [entries |-> w.entries, owner |-> w.owner, trackers |-> w.trackers]

Accounts(w, W) == IsWindow(w) /\ Enters(w.entries, W) /\ Owns(w.owner, W) /\ Tracks(w.trackers, W)

LEMMA SomeRows ==
  ASSUME NEW W, Rows(W), NEW S, S \subseteq W
  PROVE  Rows(S)
BY FS_Subset DEF Rows

LEMMA RowsList ==
  ASSUME NEW W, Rows(W)
  PROVE  /\ InOrder(Causal(W), W) /\ Causal(W) \in Seq(W) /\ Len(Causal(W)) \in Nat
         /\ \A i \in 1..Len(Causal(W)) : Causal(W)[i] \in W
         /\ \A e \in W : \E i \in 1..Len(Causal(W)) : Causal(W)[i] = e
         /\ DOMAIN Causal(W) = 1..Len(Causal(W))
<1> DEFINE v == Causal(W)
<1>1. InOrder(v, W)
  BY CausalLists
<1> HIDE DEF v
<1>2. Len(v) \in Nat /\ (\A i \in 1..Len(v) : v[i] \in W) /\ DOMAIN v = 1..Len(v)
  BY <1>1, UpIs
<1>3. v \in Seq(W) /\ \A e \in W : \E i \in 1..Len(v) : v[i] = e
  BY <1>1 DEF InOrder
<1>4. QED
  BY <1>1, <1>2, <1>3 DEF v

\* The rows bound to their decisions.
LEMMA CausalAsymmetric ==
  ASSUME NEW W, Rows(W), NEW e \in W, NEW f \in W, CausallyBefore(e, f)
  PROVE  ~CausallyBefore(f, e)
<1>1. /\ e.key \in Nat /\ e.opened \in Nat /\ e.settled \in Nat
      /\ f.key \in Nat /\ f.opened \in Nat /\ f.settled \in Nat
  BY DEF Rows, Event
<1>2. QED
  BY <1>1 DEF CausallyBefore

LEMMA BoundIs ==
  ASSUME NEW W, Rows(W)
  PROVE  /\ Bound(W) \subseteq W /\ Distinct(Bound(W))
         /\ \A k : OneProfile(OfKey(Bound(W), k)) /\ Distinct(OfKey(Bound(W), k))
         /\ \A d \in Decisions(W) : \E e \in Bound(W) : e.dec = d
<1>1. Bound(W) \subseteq W
  BY DEF Bound
<1>2. Distinct(Bound(W))
  <2> SUFFICES ASSUME NEW e \in Bound(W), NEW f \in Bound(W), e.dec = f.dec, e.dec # 0, e # f PROVE FALSE
    BY DEF Distinct
  <2>1. CausallyBefore(e, f) /\ CausallyBefore(f, e)
    BY DEF Bound
  <2>2. QED
    BY <1>1, <2>1, CausalAsymmetric
<1>3. ASSUME NEW k PROVE OneProfile(OfKey(Bound(W), k)) /\ Distinct(OfKey(Bound(W), k))
  <2>1. OfKey(Bound(W), k) \subseteq Bound(W) /\ \A e, f \in OfKey(Bound(W), k) : e.key = f.key
    BY DEF OfKey
  <2>2. Rows(OfKey(Bound(W), k))
    BY <1>1, <2>1, SomeRows
  <2>3. QED
    BY <1>2, <2>1, <2>2 DEF OneProfile, Distinct
<1>4. ASSUME NEW d \in Decisions(W) PROVE \E e \in Bound(W) : e.dec = d
  <2> DEFINE v == Causal(W)
             named == {i \in 1..Len(v) : v[i].dec = d}
  <2>1. InOrder(v, W) /\ (\A e \in W : \E i \in 1..Len(v) : v[i] = e) /\ \A i \in 1..Len(v) : v[i] \in W
    BY RowsList
  <2> HIDE DEF v
  <2>2. PICK x \in W : x.dec = d
    BY DEF Decisions
  <2>3. named # {} /\ named \subseteq Nat
    BY <2>1, <2>2
  <2>4. PICK i \in named : \A j \in named : i <= j
    <3> HIDE DEF named
    <3>1. QED
      BY <2>3, LeastExists
  <2>5. i \in 1..Len(v) /\ v[i].dec = d
    BY <2>4
  <2>6. ASSUME NEW f \in W, f.dec = d, f # v[i] PROVE CausallyBefore(v[i], f)
    <3>1. PICK j \in 1..Len(v) : v[j] = f
      BY <2>1
    <3>2. i <= j /\ j # i
      BY <2>4, <2>6, <3>1
    <3>3. i < j
      BY <2>5, <3>1, <3>2
    <3>4. QED
      BY <2>1, <2>5, <3>1, <3>3 DEF InOrder
  <2>7. v[i] \in Bound(W)
    BY <2>1, <2>5, <2>6 DEF Bound
  <2>8. QED
    BY <2>5, <2>7
<1>5. QED
  BY <1>1, <1>2, <1>3, <1>4

\* A row that comes last is bound when no other names its decision.
LEMMA BoundLater ==
  ASSUME NEW W, NEW e, e \notin W, Rows(W \cup {e}), \A x \in W : CausallyBefore(x, e)
  PROVE  Bound(W \cup {e}) = Bound(W) \cup {x \in {e} : e.dec \notin Decisions(W)}
<1>1. \A x \in W : ~CausallyBefore(e, x)
  BY CausalAsymmetric
<1>2. ASSUME NEW x \in W PROVE x \in Bound(W \cup {e}) <=> x \in Bound(W)
  BY DEF Bound
<1>3. e \in Bound(W \cup {e}) <=> e.dec \notin Decisions(W)
  <2>1. e \in Bound(W \cup {e}) <=> \A f \in W \cup {e} : f.dec = e.dec /\ e.dec # 0 /\ f # e => CausallyBefore(e, f)
    BY DEF Bound
  <2>2. e \in Bound(W \cup {e}) <=> \A f \in W : ~(f.dec = e.dec /\ e.dec # 0)
    BY <1>1, <2>1
  <2>3. QED
    BY <2>2 DEF Decisions
<1>4. Bound(W \cup {e}) \subseteq W \cup {e} /\ Bound(W) \subseteq W
  BY DEF Bound
<1>5. QED
  BY <1>2, <1>3, <1>4

LEMMA AcceptsIs ==
  ASSUME NEW W, NEW e, e \notin W, NEW w, Owns(w.owner, W)
  PROVE  Accepts(w, e) <=> e.dec \notin Decisions(W)
<1>1. Bound(W) \subseteq W
  BY DEF Bound
<1>2. \A d \in DOMAIN w.owner : w.owner[d] # e
  BY <1>1 DEF Owns
<1>3. e.dec = 0 => e.dec \notin Decisions(W)
  BY DEF Decisions
<1>4. QED
  BY <1>2, <1>3 DEF Accepts, Owns

\* A tracker of nothing.
LEMMA NewFollows == Follows(NewTracker, {})
<1>1. IsTracker(NewTracker) /\ NewTracker.events = <<>> /\ Inverted(NewTracker) = InvertedIn(<<>>)
  BY TrackerOfParts DEF NewTracker
<1>2. Indexed(NewTracker)
  <2>1. NewTracker.index = <<>> /\ NewTracker.start = 1 /\ Len(<<>>) = 0 /\ <<>> \in Seq({})
    BY DEF NewTracker
  <2>2. QED
    BY <1>1, <2>1 DEF Indexed
<1>3. Slides(NewTracker, {})
  <2>1. InvertedIn(<<>>) = {}
    BY DEF InvertedIn
  <2>2. NewTracker.dynamic = <<>>
    BY DEF NewTracker
  <2>3. QED
    BY <1>1, <2>1, <2>2 DEF Slides
<1>4. FoldLeft(ReplayStep, NoReplay, Causal({})) = NoReplay
  <2>1. OneProfile({})
    BY FS_EmptySet DEF OneProfile, Rows
  <2>2. PICK b : Trace(b, Causal({})) /\ FoldLeft(ReplayStep, NoReplay, Causal({})) = b[Len(Causal({}))]
    BY <2>1, ReplayedIs
  <2>3. Len(Causal({})) = 0
    BY CausalEmpty
  <2>4. QED
    BY <2>2, <2>3 DEF Trace
<1>5. NewTracker.exact = TRUE /\ NewTracker.replay = NoReplay /\ NewTracker.state = Empty
  BY DEF NewTracker
<1>6. QED
  BY <1>1, <1>2, <1>3, <1>4, <1>5, CausalEmpty, ReplayedNothing DEF Follows

\* The entries, with one more.
LEMMA EntersMore ==
  ASSUME NEW W, NEW e, e \notin W, Rows(W \cup {e}), \A x \in W : CausallyBefore(x, e),
         NEW entries, Enters(entries, W), NEW a, a <=> e.dec \notin Decisions(W)
  PROVE  Enters(Append(entries, [event |-> e, accepted |-> a]), W \cup {e})
<1> DEFINE A == W \cup {e}
           x == [event |-> e, accepted |-> a]
           u == Append(entries, x)
           c == Causal(W)
           d == Causal(A)
<1>1. Rows(W) /\ d = Append(c, e)
  BY SomeRows, CausalAppend
<1>2. c \in Seq(W) /\ Len(c) \in Nat /\ \A i \in 1..Len(c) : c[i] \in W
  BY <1>1, RowsList
<1>3. Bound(A) = Bound(W) \cup {y \in {e} : e.dec \notin Decisions(W)}
  BY BoundLater
<1>4. /\ \E X : entries \in Seq(X)
      /\ Len(entries) = Len(c)
      /\ \A i \in 1..Len(entries) :
            entries[i].event = c[i] /\ (entries[i].accepted <=> c[i] \in Bound(W))
  BY DEF Enters
<1> HIDE DEF c, d
<1>5. Len(d) = Len(c) + 1 /\ d[Len(c) + 1] = e /\ \A i \in 1..Len(c) : d[i] = c[i]
  <2>1. c \in Seq(A) /\ e \in A
    BY <1>2
  <2>2. QED
    BY <1>1, <2>1, AppendPlaces
<1>6. x.event = e /\ (x.accepted <=> a)
  OBVIOUS
<1> HIDE DEF x
<1>7. PICK X : entries \in Seq(X)
  BY <1>4
<1>8. /\ u \in Seq(X \cup {x}) /\ Len(u) = Len(entries) + 1
      /\ \A i \in 1..Len(entries) : u[i] = entries[i]
      /\ u[Len(entries) + 1] = x
  <2>1. entries \in Seq(X \cup {x}) /\ x \in X \cup {x}
    BY <1>7
  <2>2. QED
    BY <2>1, AppendPlaces
<1> HIDE DEF u
<1>9. Bound(W) \subseteq W
  BY <1>1, BoundIs
<1>10. ASSUME NEW i \in 1..Len(u)
       PROVE  u[i].event = d[i] /\ (u[i].accepted <=> d[i] \in Bound(A))
  <2>1. CASE i \in 1..Len(c)
    <3>1. u[i] = entries[i] /\ d[i] = c[i] /\ c[i] \in W
      BY <1>2, <1>4, <1>5, <1>8, <2>1
    <3>2. d[i] # e
      BY <3>1
    <3>3. QED
      BY <1>3, <1>4, <2>1, <3>1, <3>2
  <2>2. CASE i = Len(c) + 1
    <3>1. u[i] = x /\ d[i] = e
      BY <1>4, <1>5, <1>8, <2>2
    <3>2. e \notin Bound(W)
      BY <1>9
    <3>3. QED
      BY <1>3, <1>6, <3>1, <3>2
  <2>3. QED
    BY <1>2, <1>4, <1>8, <2>1, <2>2
<1>11. Len(u) = Len(d)
  BY <1>4, <1>5, <1>8
<1>12. Enters(u, A)
  BY <1>8, <1>10, <1>11 DEF Enters, d
<1>13. QED
  BY <1>12 DEF u, x
\* The row each decision is bound to, with one more.
LEMMA OwnsMore ==
  ASSUME NEW W, NEW e, Rows(W \cup {e}), e.dec \notin Decisions(W),
         Bound(W \cup {e}) = Bound(W) \cup {e}, NEW owner, Owns(owner, W)
  PROVE  Owns(IF e.dec = 0 THEN owner ELSE Put(owner, e.dec, e), W \cup {e})
<1> DEFINE A == W \cup {e}
           o == Put(owner, e.dec, e)
<1>1. CASE e.dec = 0
  <2>1. Decisions(A) = Decisions(W)
    BY <1>1 DEF Decisions
  <2>2. QED
    BY <1>1, <2>1 DEF Owns
<1>2. CASE e.dec # 0
  <2>1. Decisions(A) = {e.dec} \cup Decisions(W)
    BY <1>2 DEF Decisions
  <2>2. o = [j \in {e.dec} \cup DOMAIN owner |-> IF j = e.dec THEN e ELSE owner[j]]
    BY DEF Put
  <2> HIDE DEF o
  <2>3. DOMAIN o = Decisions(A) /\ o = [d \in DOMAIN o |-> o[d]]
    BY <2>1, <2>2 DEF Owns
  <2>4. ASSUME NEW d \in DOMAIN o PROVE o[d] \in Bound(A) /\ o[d].dec = d
    <3>1. CASE d = e.dec
      BY <2>2, <2>4, <3>1
    <3>2. CASE d # e.dec
      <4>1. d \in DOMAIN owner /\ o[d] = owner[d]
        BY <2>2, <2>4, <3>2
      <4>2. QED
        BY <4>1 DEF Owns
    <3>3. QED
      BY <3>1, <3>2
  <2>5. Owns(o, A)
    BY <2>3, <2>4 DEF Owns
  <2>6. QED
    BY <1>2, <2>5 DEF o
<1>3. QED
  BY <1>1, <1>2

\* The trackers, when one of them took the new row.
LEMMA TracksMore ==
  ASSUME NEW W, NEW e, Bound(W \cup {e}) = Bound(W) \cup {e},
         NEW trackers, Tracks(trackers, W), NEW t, Right(t, OfKey(Bound(W), e.key) \cup {e})
  PROVE  Tracks(Put(trackers, e.key, t), W \cup {e})
<1> DEFINE A == W \cup {e}
           q == Put(trackers, e.key, t)
<1>1. q = [j \in {e.key} \cup DOMAIN trackers |-> IF j = e.key THEN t ELSE trackers[j]]
  BY DEF Put
<1> HIDE DEF q
<1>2. Keys(Bound(A)) = {e.key} \cup Keys(Bound(W))
  BY DEF Keys
<1>3. DOMAIN q = Keys(Bound(A)) /\ q = [k \in DOMAIN q |-> q[k]]
  BY <1>1, <1>2 DEF Tracks
<1>4. ASSUME NEW k \in DOMAIN q PROVE Right(q[k], OfKey(Bound(A), k))
  <2>1. CASE k = e.key
    <3>1. OfKey(Bound(A), k) = OfKey(Bound(W), e.key) \cup {e}
      BY <2>1 DEF OfKey
    <3>2. QED
      BY <1>1, <1>4, <2>1, <3>1
  <2>2. CASE k # e.key
    <3>1. OfKey(Bound(A), k) = OfKey(Bound(W), k)
      BY <2>2 DEF OfKey
    <3>2. k \in DOMAIN trackers /\ q[k] = trackers[k]
      BY <1>1, <1>4, <2>2
    <3>3. QED
      BY <3>1, <3>2 DEF Tracks
  <2>3. QED
    BY <2>1, <2>2
<1>5. Tracks(q, A)
  BY <1>3, <1>4 DEF Tracks
<1>6. QED
  BY <1>5 DEF q

LEMMA WindowOfParts ==
  ASSUME NEW a, NEW b, NEW c, NEW r, r = [entries |-> a, owner |-> b, trackers |-> c]
  PROVE  IsWindow(r) /\ r.entries = a /\ r.owner = b /\ r.trackers = c
BY DEF IsWindow

LEMMA RecentAll ==
  ASSUME NEW W, NEW S, S \subseteq W, NEW from, \A x \in W : x.settled >= from
  PROVE  Recent(S, from) = S
BY DEF Recent

\* The tracker of a profile follows its rows of the window, be it new.
LEMMA TrackerFollows ==
  ASSUME NEW W, NEW w, Accounts(w, W), NEW k
  PROVE  Follows(TrackerOf(w, k), OfKey(Bound(W), k))
<1>1. CASE k \in DOMAIN w.trackers
  BY <1>1 DEF TrackerOf, Accounts, Tracks, Right
<1>2. CASE k \notin DOMAIN w.trackers
  <2>1. OfKey(Bound(W), k) = {}
    BY <1>2 DEF Accounts, Tracks, Keys, OfKey
  <2>2. TrackerOf(w, k) = NewTracker
    BY <1>2 DEF TrackerOf
  <2>3. QED
    BY <2>1, <2>2, NewFollows
<1>3. QED
  BY <1>1, <1>2

\* A row enters a window that has expired, and its profile follows it.
LEMMA FollowIs ==
  ASSUME NEW W, NEW e, e \notin W, Rows(W \cup {e}), \A x \in W : CausallyBefore(x, e),
         NEW w, Accounts(w, W), Accepts(w, e), NEW at \in Int, \A x \in W : x.settled >= at - Lookback
  PROVE  Accounts(Follow(w, e, at), W \cup {e})
<1> DEFINE A == W \cup {e}
           k == e.key
           S == OfKey(Bound(W), k)
           t == Advance(TrackerOf(w, k), e, at)
           x == [event |-> e, accepted |-> Accepts(w, e)]
           o == IF e.dec = 0 THEN w.owner ELSE Put(w.owner, e.dec, e)
           r == Follow(w, e, at)
<1>1. Rows(W) /\ e.dec \notin Decisions(W) /\ (Accepts(w, e) <=> e.dec \notin Decisions(W))
  BY SomeRows, AcceptsIs DEF Accounts
<1>2. Bound(A) = Bound(W) \cup {e}
  BY <1>1, BoundLater
<1>3. Right(t, S \cup {e})
  <2>1. OfKey(Bound(A), k) = S \cup {e}
    BY <1>2 DEF OfKey
  <2>2. OneProfile(S \cup {e}) /\ Distinct(S \cup {e})
    <3>1. \A j : OneProfile(OfKey(Bound(A), j)) /\ Distinct(OfKey(Bound(A), j))
      BY BoundIs
    <3>2. OneProfile(OfKey(Bound(A), k)) /\ Distinct(OfKey(Bound(A), k))
      BY <3>1
    <3>3. QED
      BY <2>1, <3>2
  <2>3. S \subseteq Bound(W) /\ Bound(W) \subseteq W
    BY <1>1, BoundIs DEF OfKey
  <2>4. e \notin S /\ \A y \in S : CausallyBefore(y, e)
    BY <2>3
  <2>5. Recent(S, at - Lookback) = S
    BY <2>3, RecentAll
  <2>6. Follows(TrackerOf(w, k), S)
    BY TrackerFollows
  <2> HIDE DEF S
  <2>7. QED
    BY <2>2, <2>4, <2>5, <2>6, AdvanceIs
<1>4. Enters(Append(w.entries, x), A)
  BY <1>1, EntersMore DEF Accounts
<1>5. Owns(o, A)
  BY <1>1, <1>2, OwnsMore DEF Accounts
<1>6. Tracks(Put(w.trackers, k, t), A)
  BY <1>2, <1>3, TracksMore DEF Accounts
<1>7. r = [entries |-> Append(w.entries, x), owner |-> o, trackers |-> Put(w.trackers, k, t)]
  <2> DEFINE n == Note(w, e)
             a == Append(w.entries, x)
             m == Retain(n, e)
             f == w.trackers
             p == Put(f, k, t)
  <2>1. n = [entries |-> a, owner |-> w.owner, trackers |-> f]
    <3>1. n = [w EXCEPT !.entries = a]
      BY DEF Note, Accounts, IsWindow
    <3> HIDE DEF n, a
    <3>2. QED
      BY <3>1 DEF Accounts, IsWindow
  <2>2. n.owner = w.owner /\ n.trackers = f /\ n.entries = a
    BY <2>1, WindowOfParts
  <2> HIDE DEF n
  <2>3. DOMAIN w.owner = Decisions(W)
    BY DEF Accounts, Owns
  <2>4. m = [entries |-> a, owner |-> o, trackers |-> f]
    <3>1. CASE e.dec = 0
      BY <2>1, <3>1 DEF Retain
    <3>2. CASE e.dec # 0
      <4>1. m = [n EXCEPT !.owner = Put(w.owner, e.dec, e)]
        BY <1>1, <2>2, <2>3, <3>2, Zenon DEF Retain
      <4>2. o = Put(w.owner, e.dec, e)
        BY <3>2
      <4> HIDE DEF m, o
      <4>3. QED
        BY <2>1, <4>1, <4>2
    <3>3. QED
      BY <3>1, <3>2
  <2>5. m.trackers = f
    BY <2>4
  <2>6. r = [m EXCEPT !.trackers = p]
    BY <2>5, Zenon DEF Follow, Track, n
  <2> HIDE DEF m, r, p, o, a
  <2>7. r = [entries |-> a, owner |-> o, trackers |-> p]
    BY <2>4, <2>6
  <2>8. QED
    BY <2>7 DEF p, a
<1> HIDE DEF r, o, t, x
<1>8. IsWindow(r) /\ r.entries = Append(w.entries, x) /\ r.owner = o /\ r.trackers = Put(w.trackers, k, t)
  BY <1>7, WindowOfParts
<1>9. Accounts(r, A)
  BY <1>4, <1>5, <1>6, <1>8 DEF Accounts
<1>10. QED
  BY <1>9 DEF r

\* A row that names a decision bound to another is only noted.
Noted(n, w, A, W) == Accounts(n, A) /\ n.trackers = w.trackers /\ Bound(A) = Bound(W)

LEMMA RefuseIs ==
  ASSUME NEW W, NEW e, e \notin W, Rows(W \cup {e}), \A x \in W : CausallyBefore(x, e),
         NEW w, Accounts(w, W), ~Accepts(w, e)
  PROVE  Noted(Note(w, e), w, W \cup {e}, W)
<1> DEFINE A == W \cup {e}
           x == [event |-> e, accepted |-> Accepts(w, e)]
           a == Append(w.entries, x)
           r == Note(w, e)
<1>1. e.dec \in Decisions(W) /\ (Accepts(w, e) <=> e.dec \notin Decisions(W))
  BY AcceptsIs DEF Accounts
<1>2. Bound(A) = Bound(W)
  <2>1. Bound(A) = Bound(W) \cup {y \in {e} : e.dec \notin Decisions(W)}
    BY BoundLater
  <2>2. QED
    BY <1>1, <2>1
<1>3. Decisions(A) = Decisions(W)
  BY <1>1 DEF Decisions
<1>4. Enters(a, A)
  BY <1>1, EntersMore DEF Accounts
<1>5. r = [entries |-> a, owner |-> w.owner, trackers |-> w.trackers]
  <2>1. r = [w EXCEPT !.entries = a]
    BY DEF Note, Accounts, IsWindow
  <2> HIDE DEF r, a
  <2>2. QED
    BY <2>1 DEF Accounts, IsWindow
<1> HIDE DEF r, a
<1>6. IsWindow(r) /\ r.entries = a /\ r.owner = w.owner /\ r.trackers = w.trackers
  BY <1>5, WindowOfParts
<1>7. Owns(r.owner, A) /\ Tracks(r.trackers, A)
  BY <1>2, <1>3, <1>6 DEF Accounts, Owns, Tracks
<1>8. Accounts(r, A)
  BY <1>4, <1>6, <1>7 DEF Accounts
<1>9. QED
  BY <1>2, <1>6, <1>8 DEF r, Noted
\* A tracker that is brought up to date.
LEMMA TracksAgain ==
  ASSUME NEW W, NEW trackers, Tracks(trackers, W), NEW k \in DOMAIN trackers,
         NEW t, Right(t, OfKey(Bound(W), k))
  PROVE  Tracks(Put(trackers, k, t), W)
<1> DEFINE q == Put(trackers, k, t)
<1>1. q = [j \in {k} \cup DOMAIN trackers |-> IF j = k THEN t ELSE trackers[j]]
  BY DEF Put
<1> HIDE DEF q
<1>2. DOMAIN q = Keys(Bound(W)) /\ q = [j \in DOMAIN q |-> q[j]]
  BY <1>1 DEF Tracks
<1>3. ASSUME NEW j \in DOMAIN q PROVE Right(q[j], OfKey(Bound(W), j))
  <2>1. CASE j = k
    BY <1>1, <1>3, <2>1
  <2>2. CASE j # k
    <3>1. j \in DOMAIN trackers /\ q[j] = trackers[j]
      BY <1>1, <1>3, <2>2
    <3>2. QED
      BY <3>1 DEF Tracks
  <2>3. QED
    BY <2>1, <2>2
<1>4. Tracks(q, W)
  BY <1>2, <1>3 DEF Tracks
<1>5. QED
  BY <1>4 DEF q

\* The answer of a profile at a moment when nothing of the window has expired.
LEMMA AnswerIs ==
  ASSUME NEW W, Rows(W), NEW w, Accounts(w, W), NEW k, NEW at \in Int,
         \A x \in W : x.settled >= at - Lookback
  PROVE  Right(StateAt(TrackerOf(w, k), at), OfKey(Bound(W), k))
<1> DEFINE S == OfKey(Bound(W), k)
<1>1. S \subseteq W
  BY BoundIs DEF OfKey
<1>2. \A j : OneProfile(OfKey(Bound(W), j)) /\ Distinct(OfKey(Bound(W), j))
  BY BoundIs
<1>3. OneProfile(S) /\ Distinct(S)
  BY <1>2
<1>4. Follows(TrackerOf(w, k), S)
  BY TrackerFollows
<1>5. Recent(S, at - Lookback) = S
  BY <1>1, RecentAll
<1> HIDE DEF S
<1>6. Right(StateAt(TrackerOf(w, k), at), S)
  BY <1>3, <1>4, <1>5, StateAtIs
<1>7. QED
  BY <1>6 DEF S

\* A row enters the window.
LEMMA EnterIs ==
  ASSUME NEW W, NEW e, e \notin W, Rows(W \cup {e}), \A x \in W : CausallyBefore(x, e),
         NEW w, Accounts(w, W), NEW at \in Int, \A x \in W : x.settled >= at - Lookback
  PROVE  Accounts(Enter(w, e, at), W \cup {e})
<1> DEFINE A == W \cup {e}
           k == e.key
<1>1. CASE Accepts(w, e)
  BY <1>1, FollowIs DEF Enter
<1>2. CASE ~Accepts(w, e) /\ k \notin DOMAIN w.trackers
  BY <1>2, RefuseIs DEF Enter, Noted
<1>3. CASE ~Accepts(w, e) /\ k \in DOMAIN w.trackers
  <2> DEFINE n == Note(w, e)
             t == StateAt(w.trackers[k], at)
             p == Put(n.trackers, k, t)
             r == Track(n, t, k)
  <2>1. Accounts(n, A) /\ n.trackers = w.trackers /\ Bound(A) = Bound(W)
    BY <1>3, RefuseIs DEF Noted
  <2>2. Right(t, OfKey(Bound(W), k))
    <3>1. Rows(W)
      BY SomeRows
    <3>2. TrackerOf(w, k) = w.trackers[k]
      BY <1>3 DEF TrackerOf
    <3>3. QED
      BY <3>1, <3>2, AnswerIs
  <2>3. Enter(w, e, at) = r
    BY <1>3 DEF Enter
  <2> HIDE DEF n, t
  <2>4. Tracks(p, A)
    BY <1>3, <2>1, <2>2, TracksAgain DEF Accounts
  <2>5. r = [n EXCEPT !.trackers = p]
    BY DEF Track
  <2> HIDE DEF p, r
  <2>6. r = [entries |-> n.entries, owner |-> n.owner, trackers |-> p]
    BY <2>1, <2>5 DEF Accounts, IsWindow
  <2>7. IsWindow(r) /\ r.entries = n.entries /\ r.owner = n.owner /\ r.trackers = p
    BY <2>6, WindowOfParts
  <2>8. Accounts(r, A)
    BY <2>1, <2>4, <2>7 DEF Accounts
  <2>9. QED
    BY <2>3, <2>8
<1>4. QED
  BY <1>1, <1>2, <1>3

\* The window before any row.
LEMMA WindowNew == Accounts(NewWindow, {})
<1>1. IsWindow(NewWindow) /\ NewWindow.entries = <<>> /\ NewWindow.owner = <<>> /\ NewWindow.trackers = <<>>
  BY WindowOfParts DEF NewWindow
<1>2. Bound({}) = {} /\ Decisions({}) = {} /\ Keys({}) = {}
  BY DEF Bound, Decisions, Keys
<1>3. DOMAIN <<>> = {} /\ <<>> \in Seq({}) /\ Len(<<>>) = 0 /\ <<>> = [i \in {} |-> <<>>[i]]
  BY EmptyDomain
<1>4. Enters(<<>>, {})
  BY <1>3, CausalEmpty DEF Enters
<1>5. Owns(<<>>, {}) /\ Tracks(<<>>, {})
  BY <1>2, <1>3 DEF Owns, Tracks
<1>6. QED
  BY <1>1, <1>4, <1>5 DEF Accounts

-----------------------------------------------------------------------------
(* The window is bound again from its first row.                            *)
\* The entries are the rows, whether or not they were accepted.
Notes(entries, R) ==
    /\ \E X : entries \in Seq(X)
    /\ Len(entries) = Len(Causal(R))
    /\ \A i \in 1..Len(entries) : entries[i].event = Causal(R)[i]

LEMMA BindAgainIs ==
  ASSUME NEW W, NEW e, e \notin W, Rows(W \cup {e}), \A x \in W : CausallyBefore(x, e),
         NEW w, Accounts(w, W), \A x \in W : x.settled >= (e.settled + 1) - Lookback,
         NEW entry, entry.event = e
  PROVE  Accounts(BindAgain(w, entry), W \cup {e})
<1>1. e.settled + 1 \in Int
  BY DEF Rows, Event
<1>2. CASE Accepts(w, e)
  <2> DEFINE at == e.settled + 1
  <2>1. BindAgain(w, entry) = Follow(w, e, at)
    BY <1>2 DEF BindAgain
  <2>2. at \in Int
    BY <1>1
  <2>3. \A x \in W : x.settled >= at - Lookback
    BY Zenon
  <2> HIDE DEF at
  <2>4. QED
    BY <1>2, <2>1, <2>2, <2>3, FollowIs
<1>3. CASE ~Accepts(w, e)
  BY <1>3, RefuseIs DEF BindAgain, Noted
<1>4. QED
  BY <1>2, <1>3

LEMMA BindsAll ==
  ASSUME NEW R, Rows(R), NEW at \in Int, \A x \in R : x.settled >= at - Lookback /\ x.settled < at,
         NEW entries, Notes(entries, R)
  PROVE  Accounts(FoldLeft(BindAgain, NewWindow, entries), R)
<1> DEFINE c == Causal(R)
           n == Len(c)
<1>1. InOrder(c, R) /\ n \in Nat
  BY RowsList
<1>2. /\ Up(c, 0) = {} /\ Up(c, n) = R
      /\ \A i \in 1..n : c[i] \in R /\ Up(c, i) = Up(c, i - 1) \cup {c[i]} /\ c[i] \notin Up(c, i - 1)
      /\ \A i \in 0..n : Up(c, i) \subseteq R
  BY <1>1, UpIs
<1>3. Len(entries) = n /\ DOMAIN entries = 1..n /\ \A i \in 1..n : entries[i].event = c[i]
  <2>1. PICK X : entries \in Seq(X)
    BY DEF Notes
  <2>2. QED
    BY <2>1, LenProperties DEF Notes
<1>4. PICK b : /\ b[0] = NewWindow /\ \A i \in 1..n : b[i] = BindAgain(b[i - 1], entries[i])
               /\ FoldLeft(BindAgain, NewWindow, entries) = b[n]
  <2>1. Len(entries) \in Nat /\ DOMAIN entries = 1..Len(entries)
    BY <1>1, <1>3
  <2>2. PICK b : /\ b[0] = NewWindow /\ \A i \in 1..Len(entries) : b[i] = BindAgain(b[i - 1], entries[i])
                 /\ FoldLeft(BindAgain, NewWindow, entries) = b[Len(entries)]
    BY <2>1, BindFold
  <2>3. QED
    BY <1>3, <2>2
<1>5. ASSUME NEW i \in 1..n, Accounts(b[i - 1], Up(c, i - 1)) PROVE Accounts(b[i], Up(c, i))
  <2> DEFINE W == Up(c, i - 1)
             e == c[i]
             w == b[i - 1]
             x == entries[i]
  <2>1. Up(c, i) = W \cup {e} /\ e \notin W /\ e \in R /\ W \subseteq R /\ W \cup {e} \subseteq R
    <3>1. i - 1 \in 0..n
      BY <1>1
    <3>2. QED
      BY <1>2, <3>1
  <2>2. \A y \in W : CausallyBefore(y, e)
    <3>1. ASSUME NEW y \in W PROVE CausallyBefore(y, e)
      <4>1. PICK j \in 1..(i - 1) : y = c[j]
        BY DEF Up
      <4>2. j \in 1..Len(c) /\ i \in 1..Len(c) /\ j < i
        BY <1>1
      <4>3. QED
        BY <1>1, <4>1, <4>2 DEF InOrder
    <3>2. QED
      BY <3>1
  <2>3. x.event = e /\ b[i] = BindAgain(w, x)
    BY <1>3, <1>4
  <2> HIDE DEF c, n
  <2>4. Accounts(w, W)
    BY <1>5
  <2> HIDE DEF W, e, w, x
  <2>5. Rows(W \cup {e})
    BY <2>1, SomeRows
  <2>6. \A y \in W : y.settled >= (e.settled + 1) - Lookback
    <3>1. ASSUME NEW y \in W PROVE y.settled >= (e.settled + 1) - Lookback
      <4>1. y.settled \in Int /\ e.settled \in Int /\ y.settled >= at - Lookback /\ e.settled < at
        BY <2>1 DEF Rows, Event
      <4>2. QED
        BY <4>1, ConfigAssumption
    <3>2. QED
      BY <3>1
  <2>7. Accounts(BindAgain(w, x), W \cup {e})
    BY <2>1, <2>2, <2>3, <2>4, <2>5, <2>6, BindAgainIs
  <2>8. QED
    BY <2>1, <2>3, <2>7
<1>6. Accounts(b[0], Up(c, 0))
  BY <1>2, <1>4, WindowNew
<1> DEFINE bad == {i \in 0..n : ~Accounts(b[i], Up(c, i))}
<1>7. ASSUME bad # {} PROVE FALSE
  <2>1. bad \subseteq Nat
    BY <1>1
  <2>2. PICK i \in bad : \A j \in bad : i <= j
    <3> HIDE DEF bad
    <3>1. QED
      BY <1>7, <2>1, LeastExists
  <2>3. i \in 0..n /\ i # 0 /\ ~Accounts(b[i], Up(c, i))
    BY <1>6, <2>2
  <2> HIDE DEF c
  <2>4. i \in 1..n /\ i - 1 \in 0..n /\ i - 1 \notin bad
    BY <1>1, <2>2, <2>3
  <2>5. Accounts(b[i - 1], Up(c, i - 1))
    BY <2>4
  <2>6. QED
    BY <1>5, <2>3, <2>4, <2>5
<1>8. Accounts(b[n], Up(c, n))
  <2>1. n \in 0..n
    BY <1>1
  <2>2. QED
    BY <1>7, <2>1
<1>9. QED
  BY <1>2, <1>4, <1>8

LEMMA RebindIs ==
  ASSUME NEW R, Rows(R), NEW at \in Int, \A x \in R : x.settled >= at - Lookback /\ x.settled < at,
         NEW w, Notes(w.entries, R)
  PROVE  Accounts(Rebind(w, at), R)
<1> DEFINE u == FoldLeft(BindAgain, NewWindow, w.entries)
           p == [k \in DOMAIN u.trackers |-> StateAt(u.trackers[k], at)]
           r == Rebind(w, at)
<1>1. Accounts(u, R)
  BY BindsAll
<1>2. r = [u EXCEPT !.trackers = p]
  BY Zenon DEF Rebind
<1> HIDE DEF u
<1>3. Tracks(p, R)
  <2>1. DOMAIN p = Keys(Bound(R)) /\ p = [k \in DOMAIN p |-> p[k]]
    BY <1>1 DEF Accounts, Tracks
  <2>2. ASSUME NEW k \in DOMAIN p PROVE Right(p[k], OfKey(Bound(R), k))
    <3>1. TrackerOf(u, k) = u.trackers[k] /\ p[k] = StateAt(u.trackers[k], at)
      BY <2>2 DEF TrackerOf
    <3>2. QED
      BY <1>1, <3>1, AnswerIs
  <2> HIDE DEF p
  <2>3. QED
    BY <2>1, <2>2 DEF Tracks
<1> HIDE DEF p, r
<1>4. r = [entries |-> u.entries, owner |-> u.owner, trackers |-> p]
  BY <1>1, <1>2 DEF Accounts, IsWindow
<1>5. IsWindow(r) /\ r.entries = u.entries /\ r.owner = u.owner /\ r.trackers = p
  BY <1>4, WindowOfParts
<1>6. Accounts(r, R)
  BY <1>1, <1>3, <1>5 DEF Accounts
<1>7. QED
  BY <1>6 DEF r

-----------------------------------------------------------------------------
(* What has expired leaves the window.                                      *)
\* The decisions whose row leaves.
Freed(owner, R) == {d \in DOMAIN owner : owner[d] \notin R}

\* When no row that stays names one of them, the bindings that stay are right.
Bindings(owner, R) == [d \in DOMAIN owner \ Freed(owner, R) |-> owner[d]]
BindsStill(owner, W, R) == Bound(R) = Bound(W) \cap R /\ Owns(Bindings(owner, R), R)

LEMMA BoundStays ==
  ASSUME NEW W, Rows(W), NEW R, R \subseteq W, NEW owner, Owns(owner, W),
         \A x \in R : x.dec \notin Freed(owner, R)
  PROVE  BindsStill(owner, W, R)
<1> DEFINE F == Freed(owner, R)
           o == [d \in DOMAIN owner \ F |-> owner[d]]
<1>1. Bound(W) \cap R \subseteq Bound(R)
  BY DEF Bound
<1>2. ASSUME NEW x \in Bound(R) PROVE x \in Bound(W) \cap R
  <2>1. x \in R /\ x \in W
    BY DEF Bound
  <2>2. CASE x.dec = 0
    BY <2>1, <2>2 DEF Bound
  <2>3. CASE x.dec # 0
    <3> DEFINE y == owner[x.dec]
    <3>1. x.dec \in DOMAIN owner
      BY <2>1, <2>3 DEF Owns, Decisions
    <3>2. y \in R /\ y \in Bound(W) /\ y.dec = x.dec
      BY <2>1, <3>1 DEF Freed, Owns
    <3> HIDE DEF y
    <3>3. y # x => CausallyBefore(x, y) /\ CausallyBefore(y, x)
      BY <2>1, <2>3, <3>2 DEF Bound
    <3>4. y \in W
      BY <3>2
    <3>5. y = x
      BY <2>1, <3>3, <3>4, CausalAsymmetric
    <3>6. QED
      BY <2>1, <3>2, <3>5
  <2>4. QED
    BY <2>2, <2>3
<1>3. Bound(R) = Bound(W) \cap R
  BY <1>1, <1>2
<1>4. DOMAIN o = Decisions(R)
  <2>1. ASSUME NEW d \in Decisions(R) PROVE d \in DOMAIN owner \ F
    <3>1. PICK x \in R : x.dec = d /\ d # 0
      BY DEF Decisions
    <3>2. d \in Decisions(W)
      BY <3>1 DEF Decisions
    <3>3. QED
      BY <3>1, <3>2 DEF Owns
  <2>2. ASSUME NEW d \in DOMAIN owner \ F PROVE d \in Decisions(R)
    <3>1. owner[d] \in R /\ owner[d].dec = d /\ d # 0
      BY DEF Freed, Owns, Decisions
    <3>2. QED
      BY <3>1 DEF Decisions
  <2>3. QED
    BY <2>1, <2>2
<1>5. ASSUME NEW d \in DOMAIN o PROVE o[d] \in Bound(R) /\ o[d].dec = d
  <2>1. o[d] = owner[d] /\ owner[d] \in R
    BY DEF Freed
  <2>2. QED
    BY <1>3, <2>1 DEF Owns
<1>6. o = [d \in DOMAIN o |-> o[d]]
  OBVIOUS
<1> HIDE DEF o
<1>7. Owns(o, R)
  BY <1>4, <1>5, <1>6 DEF Owns
<1>8. QED
  BY <1>3, <1>7 DEF o, BindsStill, Bindings

\* What is left of the entries, after the first n.
LEMMA EntriesLeft ==
  ASSUME NEW W, Rows(W), NEW R, R \subseteq W, NEW n \in 0..Len(Causal(W)), NEW entries, Enters(entries, W),
         SubSeq(Causal(W), n + 1, Len(Causal(W))) = Causal(R)
  PROVE  /\ Notes(SubSeq(entries, n + 1, Len(entries)), R)
         /\ Bound(R) = Bound(W) \cap R => Enters(SubSeq(entries, n + 1, Len(entries)), R)
<1> DEFINE c == Causal(W)
           r == Causal(R)
           u == SubSeq(entries, n + 1, Len(entries))
<1>1. Rows(R)
  BY SomeRows
<1>2. c \in Seq(W) /\ Len(c) \in Nat /\ Len(r) \in Nat /\ \A i \in 1..Len(r) : r[i] \in R
  BY <1>1, RowsList
<1>3. PICK X : entries \in Seq(X)
  BY DEF Enters
<1>4. /\ Len(entries) = Len(c)
      /\ \A i \in 1..Len(entries) :
            entries[i].event = c[i] /\ (entries[i].accepted <=> c[i] \in Bound(W))
  BY DEF Enters
<1>5. n \in 0..Len(c) /\ r = SubSeq(c, n + 1, Len(c))
  OBVIOUS
<1> HIDE DEF c, r
<1>6. Len(r) = Len(c) - n /\ \A i \in 1..Len(r) : r[i] = c[n + i] /\ n + i \in 1..Len(c)
  <2>1. Len(r) = Len(c) - n
    BY <1>2, <1>5
  <2>2. ASSUME NEW i \in 1..Len(r) PROVE r[i] = c[n + i] /\ n + i \in 1..Len(c)
    <3>1. n + i \in 1..Len(c) /\ i \in 1..(Len(c) - n) /\ n + i = (n + 1) + i - 1
      BY <1>2, <2>1
    <3>2. SubSeq(c, n + 1, Len(c))[i] = c[(n + 1) + i - 1]
      BY <1>2, <3>1
    <3>3. QED
      BY <1>5, <3>1, <3>2
  <2>3. QED
    BY <2>1, <2>2
<1>7. u \in Seq(X) /\ Len(u) = Len(c) - n /\ \A i \in 1..Len(u) : u[i] = entries[n + i]
  BY <1>2, <1>3, <1>4, <1>5
<1> HIDE DEF u
<1>8. ASSUME NEW i \in 1..Len(u)
      PROVE  u[i].event = r[i] /\ (u[i].accepted <=> r[i] \in Bound(W)) /\ r[i] \in R
  <2> DEFINE j == n + i
  <2>1. i \in 1..Len(r) /\ r[i] = c[j] /\ j \in 1..Len(entries) /\ u[i] = entries[j]
    BY <1>4, <1>6, <1>7
  <2> HIDE DEF j
  <2>2. QED
    BY <1>2, <1>4, <2>1
<1>9. Notes(u, R)
  BY <1>6, <1>7, <1>8 DEF Notes, r
<1>10. ASSUME Bound(R) = Bound(W) \cap R PROVE Enters(u, R)
  BY <1>6, <1>7, <1>8, <1>10 DEF Enters, r
<1>11. QED
  BY <1>9, <1>10 DEF u

\* The trackers that stay: those that lost a row are brought up to date.
Left(trackers, hit, live, at) ==
    [k \in {j \in DOMAIN trackers : j \in hit => j \in live} |->
        IF k \in hit THEN StateAt(trackers[k], at) ELSE trackers[k]]

LEMMA TracksLeft ==
  ASSUME NEW W, Rows(W), NEW at \in Int, NEW R, R = Recent(W, at - Lookback), Bound(R) = Bound(W) \cap R,
         NEW trackers, Tracks(trackers, W), NEW hit, hit = Keys(Bound(W) \ R),
         NEW live, live = Keys(Bound(R))
  PROVE  Tracks(Left(trackers, hit, live, at), R)
<1> DEFINE D == {j \in DOMAIN trackers : j \in hit => j \in live}
           q == [k \in D |-> IF k \in hit THEN StateAt(trackers[k], at) ELSE trackers[k]]
<1>1. D = Keys(Bound(R))
  <2>1. DOMAIN trackers = Keys(Bound(W))
    BY DEF Tracks
  <2>2. ASSUME NEW j \in Keys(Bound(W)), j \notin hit PROVE j \in Keys(Bound(R))
    <3>1. PICK x \in Bound(W) : x.key = j
      BY DEF Keys
    <3>2. x \in R
      BY <2>2, <3>1 DEF Keys
    <3>3. QED
      BY <3>1, <3>2 DEF Keys
  <2>3. Keys(Bound(R)) \subseteq Keys(Bound(W))
    BY DEF Keys
  <2>4. QED
    BY <2>1, <2>2, <2>3
<1>2. ASSUME NEW k \in D PROVE Right(q[k], OfKey(Bound(R), k))
  <2> DEFINE S == OfKey(Bound(W), k)
  <2>1. Right(trackers[k], S)
    BY DEF Tracks
  <2>2. S \subseteq W
    BY BoundIs DEF OfKey
  <2>3. OfKey(Bound(R), k) = Recent(S, at - Lookback)
    <3>1. OfKey(Bound(R), k) = S \cap R
      BY DEF OfKey
    <3>2. S \cap R = Recent(S, at - Lookback)
      BY <2>2 DEF Recent
    <3>3. QED
      BY <3>1, <3>2
  <2>4. CASE k \in hit
    <3>1. \A j : OneProfile(OfKey(Bound(W), j)) /\ Distinct(OfKey(Bound(W), j))
      BY BoundIs
    <3>2. OneProfile(S) /\ Distinct(S)
      BY <3>1
    <3>3. Follows(trackers[k], S)
      BY <2>1 DEF Right
    <3> HIDE DEF S
    <3>4. Right(StateAt(trackers[k], at), Recent(S, at - Lookback))
      BY <3>2, <3>3, StateAtIs
    <3>5. q[k] = StateAt(trackers[k], at)
      BY <2>4
    <3>6. QED
      BY <2>3, <3>4, <3>5
  <2>5. CASE k \notin hit
    <3>1. S \subseteq R
      BY <2>2, <2>5 DEF Keys, OfKey
    <3>2. Recent(S, at - Lookback) = S
      BY <2>3, <3>1 DEF Recent
    <3>3. q[k] = trackers[k]
      BY <2>5
    <3>4. QED
      BY <2>1, <2>3, <3>2, <3>3
  <2>6. QED
    BY <2>4, <2>5
<1>3. DOMAIN q = Keys(Bound(R)) /\ q = [k \in DOMAIN q |-> q[k]]
  BY <1>1
<1>4. DOMAIN q = D
  OBVIOUS
<1> HIDE DEF q, D
<1>5. Tracks(q, R)
  BY <1>2, <1>3, <1>4 DEF Tracks
<1>6. QED
  BY <1>5 DEF q, D, Left

\* The accepted entries are the rows bound to their decisions, and so are the
\* first n of them.
LEMMA AcceptedIs ==
  ASSUME NEW W, Rows(W), NEW entries, Enters(entries, W)
  PROVE  /\ {entries[i].event : i \in {j \in 1..Len(entries) : entries[j].accepted}} = Bound(W)
         /\ \A n \in 0..Len(entries) :
               /\ {entries[i].event : i \in 1..n} = Up(Causal(W), n)
               /\ {entries[i].event.key : i \in {j \in 1..n : entries[j].accepted}}
                     = Keys(Bound(W) \cap Up(Causal(W), n))
<1> DEFINE c == Causal(W)
<1>1. /\ Len(entries) = Len(c) /\ Len(c) \in Nat
      /\ \A i \in 1..Len(c) :
            entries[i].event = c[i] /\ (entries[i].accepted <=> c[i] \in Bound(W))
  BY RowsList DEF Enters
<1>2. Bound(W) \subseteq W /\ \A e \in W : \E i \in 1..Len(c) : c[i] = e
  BY BoundIs, RowsList
<1> HIDE DEF c
<1>3. {entries[i].event : i \in {j \in 1..Len(entries) : entries[j].accepted}} = Bound(W)
  <2> DEFINE T == {entries[i].event : i \in {j \in 1..Len(entries) : entries[j].accepted}}
  <2>1. ASSUME NEW x \in T PROVE x \in Bound(W)
    BY <1>1
  <2>2. ASSUME NEW x \in Bound(W) PROVE x \in T
    <3>1. PICK i \in 1..Len(c) : c[i] = x
      BY <1>2
    <3>2. QED
      BY <1>1, <3>1
  <2> HIDE DEF T
  <2>3. T = Bound(W)
    BY <2>1, <2>2
  <2>4. QED
    BY <2>3 DEF T
<1>4. ASSUME NEW n \in 0..Len(entries)
      PROVE  /\ {entries[i].event : i \in 1..n} = Up(c, n)
             /\ {entries[i].event.key : i \in {j \in 1..n : entries[j].accepted}} = Keys(Bound(W) \cap Up(c, n))
  <2>1. \A i \in 1..n : i \in 1..Len(c)
    BY <1>1
  <2> DEFINE T == {entries[i].event : i \in 1..n}
             K == {entries[i].event.key : i \in {j \in 1..n : entries[j].accepted}}
             B == Bound(W) \cap Up(c, n)
  <2>2. \A x : x \in T <=> x \in Up(c, n)
    BY <1>1, <2>1 DEF Up
  <2>3. ASSUME NEW x \in K PROVE x \in Keys(B)
    <3>1. PICK i \in 1..n : entries[i].accepted /\ x = entries[i].event.key
      OBVIOUS
    <3>2. c[i] \in B /\ x = c[i].key
      BY <1>1, <2>1, <3>1 DEF Up
    <3> HIDE DEF B
    <3>3. QED
      BY <3>2 DEF Keys
  <2>4. ASSUME NEW x \in Keys(B) PROVE x \in K
    <3>1. PICK y \in B : x = y.key
      BY DEF Keys
    <3>2. PICK i \in 1..n : y = c[i]
      BY <3>1 DEF Up
    <3>3. entries[i].accepted /\ entries[i].event = y
      BY <1>1, <2>1, <3>1, <3>2
    <3>4. QED
      BY <3>1, <3>3
  <2> HIDE DEF T, K, B
  <2>5. T = Up(c, n) /\ K = Keys(B)
    BY <2>2, <2>3, <2>4
  <2>6. QED
    BY <2>5 DEF T, K, B
<1>5. QED
  BY <1>3, <1>4 DEF c

\* The window as it is when the rows of before are gone.
Rest(w, left, freed) ==
    [w EXCEPT !.entries = left, !.owner = [d \in DOMAIN w.owner \ freed |-> w.owner[d]]]
Live(w) == {e.key : e \in Accepted(w)}

IsRest(r, w, left, freed) ==
    /\ IsWindow(r) /\ r.entries = left /\ r.trackers = w.trackers
    /\ r.owner = [d \in DOMAIN w.owner \ freed |-> w.owner[d]]

LEMMA RestIs ==
  ASSUME NEW w, IsWindow(w), NEW left, NEW freed
  PROVE  IsRest(Rest(w, left, freed), w, left, freed)
<1> DEFINE o == [d \in DOMAIN w.owner \ freed |-> w.owner[d]]
           r == Rest(w, left, freed)
<1>1. r = [w EXCEPT !.entries = left, !.owner = o]
  BY DEF Rest
<1> HIDE DEF o, r
<1>2. r = [entries |-> left, owner |-> o, trackers |-> w.trackers]
  BY <1>1 DEF IsWindow
<1>3. IsWindow(r) /\ r.entries = left /\ r.owner = o /\ r.trackers = w.trackers
  BY <1>2, WindowOfParts
<1>4. QED
  BY <1>3 DEF o, r, IsRest

\* The window expires.
LEMMA ExpireWindowIs ==
  ASSUME NEW W, Rows(W), NEW at \in Int, \A x \in W : x.settled < at, NEW w, Accounts(w, W)
  PROVE  Accounts(ExpireWindow(w, at), Recent(W, at - Lookback))
<1> DEFINE from == at - Lookback
           R == Recent(W, from)
           c == Causal(W)
           s == w.entries
           n == Cardinality({i \in 1..Len(s) : \A j \in 1..i : s[j].event.settled < from})
           gone == {s[i].event : i \in 1..n}
           left == SubSeq(s, n + 1, Len(s))
           freed == {d \in DOMAIN w.owner : w.owner[d] \in gone}
           rest == Rest(w, left, freed)
           hit == {s[i].event.key : i \in {j \in 1..n : s[j].accepted}}
           live == Live(rest)
           result == ExpireWindow(w, at)
<1>1. result = IF Orphaned(freed, left) # {} THEN Rebind(rest, at)
               ELSE [rest EXCEPT !.trackers = Left(rest.trackers, hit, live, at)]
  BY Zenon DEF ExpireWindow, Rest, Left, Live
<1> HIDE DEF result, rest, live, left, freed, hit, gone
<1>2. IsWindow(w) /\ Enters(s, W) /\ Owns(w.owner, W) /\ Tracks(w.trackers, W)
  BY DEF Accounts
<1>3. Len(c) \in Nat /\ Len(s) = Len(c) /\ \A i \in 1..Len(c) : s[i].event = c[i]
  BY <1>2, RowsList DEF Enters
<1>4. n = Cardinality(Old(c, from))
  <2>1. {i \in 1..Len(s) : \A j \in 1..i : s[j].event.settled < from} = Old(c, from)
    BY <1>3 DEF Old
  <2>2. QED
    BY <2>1
<1> HIDE DEF n
<1>5. from \in Int
  BY ConfigAssumption
<1> HIDE DEF from
<1>6. OldCome(c, W, from, n, R)
  BY <1>4, <1>5, OldestFirst
<1>7. /\ n \in 0..Len(c) /\ SubSeq(c, n + 1, Len(c)) = Causal(R) /\ Up(c, n) = W \ R
      /\ R \subseteq W
  BY <1>6 DEF OldCome, Recent
<1>8. \A x \in R : x.settled >= at - Lookback /\ x.settled < at
  BY DEF Recent, from
<1> HIDE DEF R
<1>9. gone = W \ R /\ hit = Keys(Bound(W) \cap (W \ R))
  <2>1. n \in 0..Len(s)
    BY <1>3, <1>7
  <2> HIDE DEF s
  <2>2. gone = Up(c, n) /\ hit = Keys(Bound(W) \cap Up(c, n))
    BY <1>2, <2>1, AcceptedIs DEF gone, hit
  <2>3. QED
    BY <1>7, <2>2
<1>10. hit = Keys(Bound(W) \ R) /\ Bound(W) \subseteq W
  <2>1. Bound(W) \subseteq W
    BY BoundIs
  <2>2. Bound(W) \cap (W \ R) = Bound(W) \ R
    BY <2>1
  <2>3. QED
    BY <1>9, <2>1, <2>2
<1>11. freed = Freed(w.owner, R)
  BY <1>2, <1>9, <1>10 DEF freed, Freed, Owns
<1>12. Notes(left, R) /\ (Bound(R) = Bound(W) \cap R => Enters(left, R))
  <2> HIDE DEF s, c
  <2>1. QED
    BY <1>2, <1>7, EntriesLeft DEF left, c
<1>13. /\ IsWindow(rest) /\ rest.entries = left /\ rest.trackers = w.trackers
       /\ rest.owner = [d \in DOMAIN w.owner \ freed |-> w.owner[d]]
  BY <1>2, RestIs DEF rest, IsRest
<1>14. Rows(R)
  BY <1>7, SomeRows
<1>15. CASE Orphaned(freed, left) # {}
  <2>1. result = Rebind(rest, at) /\ Notes(rest.entries, R)
    BY <1>1, <1>12, <1>13, <1>15
  <2>2. Accounts(Rebind(rest, at), R)
    BY <1>8, <1>14, <2>1, RebindIs
  <2>3. QED
    BY <2>1, <2>2 DEF result, R, from
<1>16. CASE Orphaned(freed, left) = {}
  <2>1. ASSUME NEW x \in R PROVE x.dec \notin Freed(w.owner, R)
    <3>1. PICK i \in 1..Len(Causal(R)) : Causal(R)[i] = x
      BY <1>14, RowsList
    <3>2. i \in 1..Len(left) /\ left[i].event = x
      BY <1>12, <3>1 DEF Notes
    <3>3. QED
      BY <1>11, <1>16, <3>2 DEF Orphaned
  <2>2. Bound(R) = Bound(W) \cap R /\ Owns(rest.owner, R)
    <3>1. BindsStill(w.owner, W, R)
      BY <1>2, <1>7, <2>1, BoundStays
    <3>2. rest.owner = Bindings(w.owner, R)
      BY <1>11, <1>13 DEF Bindings
    <3>3. QED
      BY <3>1, <3>2 DEF BindsStill
  <2>3. Enters(left, R)
    BY <1>12, <2>2
  <2>4. live = Keys(Bound(R))
    <3>1. Accepted(rest) = Bound(R)
      BY <1>13, <1>14, <2>3, AcceptedIs DEF Accepted
    <3>2. QED
      BY <3>1 DEF live, Live, Keys
  <2> DEFINE q == Left(rest.trackers, hit, live, at)
  <2>5. Tracks(q, R)
    <3>1. R = Recent(W, at - Lookback)
      BY DEF R, from
    <3>2. q = Left(w.trackers, hit, live, at)
      BY <1>13
    <3> HIDE DEF q
    <3>3. QED
      BY <1>2, <1>10, <2>2, <2>4, <3>1, <3>2, TracksLeft
  <2>6. result = [rest EXCEPT !.trackers = q]
    BY <1>1, <1>16
  <2> HIDE DEF q
  <2>7. result = [entries |-> left, owner |-> rest.owner, trackers |-> q]
    BY <1>13, <2>6 DEF IsWindow
  <2>8. IsWindow(result) /\ result.entries = left /\ result.owner = rest.owner /\ result.trackers = q
    BY <2>7, WindowOfParts
  <2>9. Accounts(result, R)
    BY <2>2, <2>3, <2>5, <2>8 DEF Accounts
  <2>10. QED
    BY <2>9 DEF result, R, from
<1>17. QED
  BY <1>15, <1>16

\* One step of the window: what is old leaves and the row enters.
LEMMA AdvanceWindowIs ==
  ASSUME NEW W, NEW e, e \notin W, Rows(W \cup {e}), \A x \in W : CausallyBefore(x, e),
         NEW w, Accounts(w, W), NEW at, at = e.settled + 1, NEW R, R = Recent(W, at - Lookback)
  PROVE  Accounts(AdvanceWindow(w, e, at), R \cup {e})
<1>1. Rows(W) /\ R \subseteq W /\ R \cup {e} \subseteq W \cup {e}
  BY SomeRows DEF Recent
<1>2. Rows(R \cup {e}) /\ e \notin R /\ \A x \in R : CausallyBefore(x, e)
  BY <1>1, SomeRows
<1>3. at \in Int /\ \A x \in W : x.settled < at
  <2>1. e.settled \in Nat /\ \A x \in W : x.settled \in Nat
    BY DEF Rows, Event
  <2>2. QED
    BY <2>1 DEF CausallyBefore
<1>4. \A x \in R : x.settled >= at - Lookback
  BY DEF Recent
<1> DEFINE u == ExpireWindow(w, at)
<1>5. Accounts(u, R)
  BY <1>1, <1>3, ExpireWindowIs
<1> HIDE DEF u
<1>6. Accounts(Enter(u, e, at), R \cup {e})
  BY <1>2, <1>3, <1>4, <1>5, EnterIs
<1>7. QED
  BY <1>6 DEF u, AdvanceWindow

-----------------------------------------------------------------------------
(* The replay of the specification: after the row that settled last, the    *)
(* window accounts for the rows replayed that are in it.                    *)
IsLast(S, last) == last \in Nat /\ (\A x \in S : x.settled <= last) /\ \E x \in S : x.settled = last

\* A window holds the rows S of a history, when it accounts for those in it.
Holds(w, S) ==
    /\ S = {} => w = NewWindow
    /\ S # {} => \E last : IsLast(S, last) /\ Accounts(w, AdaptiveRows(S, last + 1))

Replays ==
    /\ task # "replay" => done = {}
    /\ task = "replay" => rows \in Histories /\ done \subseteq rows /\ Rows(done) /\ Holds(window, done)

\* A computation from scratch replays the bound rows of a profile.
LEMMA StateOfIs ==
  ASSUME NEW W, NEW k
  PROVE  StateOf(W, k) = Replayed(OfKey(Bound(W), k))
<1>1. CASE k \in {e.key : e \in W}
  <2>1. StateOf(W, k) = Replayed({e \in Bound(W) : e.key = k})
    BY <1>1 DEF StateOf, StateIn, Rebuild
  <2>2. QED
    BY <2>1 DEF OfKey
<1>2. CASE k \notin {e.key : e \in W}
  <2>1. OfKey(Bound(W), k) = {}
    BY <1>2 DEF OfKey, Bound
  <2>2. StateOf(W, k) = Empty
    BY <1>2 DEF StateOf, StateIn, Rebuild
  <2>3. QED
    BY <2>1, <2>2, ReplayedNothing
<1>3. QED
  BY <1>1, <1>2

LEMMA HistoryRows ==
  ASSUME NEW S \in Histories, NEW e \in S
  PROVE  Event(e)
<1>1. e \in HistoryRow /\ e.opened < e.expires /\ e.opened < e.settled
  BY ReplayAssumption
<1>2. /\ e.key \in Nat /\ e.opened \in Nat /\ e.expires \in Nat /\ e.settled \in Nat /\ e.dec \in Nat
      /\ e.won \in BOOLEAN
  BY <1>1 DEF HistoryRow
<1>3. QED
  BY <1>1, <1>2 DEF Event

\* The rows of the window of the last row, with one that comes after it.
GoesOn(S, e, last) ==
    LET at == e.settled + 1
    IN  AdaptiveRows(S \cup {e}, at) = Recent(AdaptiveRows(S, last + 1), at - Lookback) \cup {e}

LEMMA RowsGoOn ==
  ASSUME NEW S, NEW e, Rows(S \cup {e}), \A x \in S : CausallyBefore(x, e), NEW last, IsLast(S, last)
  PROVE  GoesOn(S, e, last)
<1> DEFINE at == e.settled + 1
           A == AdaptiveRows(S \cup {e}, at)
           B == Recent(AdaptiveRows(S, last + 1), at - Lookback) \cup {e}
<1>1. e.settled \in Nat \ {0} /\ \A x \in S : x.settled \in Nat \ {0} /\ x.settled <= e.settled /\ x.settled <= last
  BY DEF Rows, Event, CausallyBefore, IsLast
<1>2. last \in Nat /\ last <= e.settled /\ Lookback \in Nat \ {0}
  BY <1>1, ConfigAssumption DEF IsLast
<1>3. \A x : x \in A <=> /\ x \in S \cup {e} /\ x.settled # 0
                         /\ x.settled >= at - Lookback /\ x.settled < at
  BY DEF AdaptiveRows, Settled
<1>4. \A x : x \in B <=> \/ x = e
                         \/ /\ x \in S /\ x.settled # 0 /\ x.settled >= (last + 1) - Lookback
                            /\ x.settled < last + 1 /\ x.settled >= at - Lookback
  BY DEF AdaptiveRows, Settled, Recent
<1> HIDE DEF A, B
<1>5. e \in A /\ e \in B
  BY <1>1, <1>2, <1>3, <1>4
<1>6. \A x \in S : x \in A <=> x \in B
  BY <1>1, <1>2, <1>3, <1>4
<1>7. A = B
  BY <1>3, <1>4, <1>5, <1>6
<1>8. QED
  BY <1>7 DEF A, B, GoesOn

LEMMA WindowGoesOn ==
  ASSUME NEW S, NEW e, e \notin S, Rows(S \cup {e}), \A x \in S : CausallyBefore(x, e), NEW w, Holds(w, S)
  PROVE  Holds(AdvanceWindow(w, e, e.settled + 1), S \cup {e}) /\ IsLast(S \cup {e}, e.settled)
<1> DEFINE A == S \cup {e}
           at == e.settled + 1
           u == AdvanceWindow(w, e, at)
<1>1. e.settled \in Nat /\ \A x \in S : x.settled \in Nat /\ x.settled <= e.settled
  BY DEF Rows, Event, CausallyBefore
<1>2. IsLast(A, e.settled)
  BY <1>1 DEF IsLast
<1>3. Accounts(u, AdaptiveRows(A, at))
  <2>1. CASE S = {}
    <3> DEFINE R == Recent({}, at - Lookback)
    <3>1. Accounts(w, {})
      BY <2>1, WindowNew DEF Holds
    <3>2. R = {} /\ Rows({} \cup {e})
      BY <2>1 DEF Recent
    <3> HIDE DEF R
    <3>3. Accounts(u, R \cup {e})
      BY <3>1, <3>2, AdvanceWindowIs DEF R
    <3>4. AdaptiveRows(A, at) = {e}
      <4>1. e.settled # 0 /\ e.settled >= at - Lookback /\ e.settled < at
        BY <1>1, ConfigAssumption DEF Rows, Event
      <4> HIDE DEF at
      <4>2. QED
        BY <2>1, <4>1 DEF AdaptiveRows, Settled
    <3>5. QED
      BY <3>2, <3>3, <3>4
  <2>2. CASE S # {}
    <3>1. PICK last : IsLast(S, last) /\ Accounts(w, AdaptiveRows(S, last + 1))
      BY <2>2 DEF Holds
    <3> DEFINE W == AdaptiveRows(S, last + 1)
               R == Recent(W, at - Lookback)
    <3>2. W \subseteq S
      BY DEF AdaptiveRows, Settled
    <3>3. AdaptiveRows(A, at) = R \cup {e}
      <4>1. GoesOn(S, e, last)
        BY <3>1, RowsGoOn
      <4>2. QED
        BY <4>1 DEF GoesOn
    <3>4. Accounts(w, W)
      BY <3>1
    <3> HIDE DEF W
    <3>5. Rows(W \cup {e}) /\ e \notin W /\ \A x \in W : CausallyBefore(x, e)
      <4>1. W \cup {e} \subseteq A
        BY <3>2
      <4>2. QED
        BY <3>2, <4>1, SomeRows
    <3>6. Accounts(u, R \cup {e})
      BY <3>4, <3>5, AdvanceWindowIs
    <3>7. QED
      BY <3>3, <3>6
  <2>3. QED
    BY <2>1, <2>2
<1>4. A # {}
  OBVIOUS
<1> HIDE DEF u, A
<1>5. Holds(u, A)
  BY <1>2, <1>3, <1>4 DEF Holds
<1>6. QED
  BY <1>2, <1>5 DEF u, A

LEMMA InitReplays == ReplayInit => Replays
<1> SUFFICES ASSUME ReplayInit PROVE Replays
  OBVIOUS
<1>1. done = {} /\ window = NewWindow /\ (task = "replay" => rows \in Histories)
  BY DEF ReplayInit
<1>2. Rows({})
  BY FS_EmptySet DEF Rows
<1>3. QED
  BY <1>1, <1>2 DEF Replays, Holds

LEMMA RowReplayed ==
  ASSUME task = "replay", Replays, NEW e \in rows, Replay(e)
  PROVE  Rows(done') /\ done' \subseteq rows /\ Holds(window', done')
<1>1. /\ done' = done \cup {e} /\ window' = AdvanceWindow(window, e, e.settled + 1)
      /\ \A f \in done : CausallyBefore(f, e) /\ <<f.key, f.opened>> # <<e.key, e.opened>>
  BY DEF Replay
<1>2. rows \in Histories /\ done \subseteq rows /\ Rows(done) /\ Holds(window, done)
  BY DEF Replays
<1>3. Rows(done \cup {e}) /\ e \notin done
  <2>1. IsFiniteSet(done \cup {e})
    BY <1>2, FS_AddElement DEF Rows
  <2>2. Event(e)
    BY <1>2, HistoryRows
  <2>3. QED
    BY <1>1, <1>2, <2>1, <2>2 DEF Rows
<1>4. Holds(AdvanceWindow(window, e, e.settled + 1), done \cup {e})
  BY <1>1, <1>2, <1>3, WindowGoesOn
<1>5. QED
  BY <1>1, <1>2, <1>3, <1>4

LEMMA StepReplays == Replays /\ [ReplayNext]_<<vars, task, script>> => Replays'
<1> SUFFICES ASSUME Replays, [ReplayNext]_<<vars, task, script>> PROVE Replays'
  OBVIOUS
<1>1. CASE History /\ UNCHANGED task
  <2>1. task = "replay" /\ task' = "replay"
    BY <1>1 DEF History
  <2>2. PICK e \in rows : Replay(e)
    BY <1>1 DEF History
  <2>3. rows' = rows
    BY <2>2 DEF Replay
  <2>4. Rows(done') /\ done' \subseteq rows /\ Holds(window', done')
    BY <2>1, <2>2, RowReplayed
  <2>5. rows' \in Histories
    BY <2>1, <2>3 DEF Replays
  <2>6. (done \subseteq rows /\ Rows(done) /\ rows \in Histories /\ task = "replay")'
    BY <2>1, <2>3, <2>4, <2>5 DEF Rows
  <2>7. (Holds(window, done))'
    BY <2>4 DEF Holds, IsLast, AdaptiveRows, Settled
  <2>8. QED
    BY <2>6, <2>7 DEF Replays
<1>2. CASE UNCHANGED <<done, rows, window, task>>
  BY <1>2 DEF Replays, Holds, Rows, IsLast, AdaptiveRows, Settled
<1>3. (Monitor \/ Backtest \/ UNCHANGED script) /\ UNCHANGED task => UNCHANGED <<done, rows, window, task>>
  BY DEF Monitor, Backtest, Trade, Report, script
<1>4. QED
  BY <1>1, <1>2, <1>3 DEF ReplayNext

\* After every row of a history the window kept up to date answers, for every
\* profile, what a computation from scratch over its rows answers: however the
\* rows were opened, overlapped, shared decisions and left the window.
THEOREM ReplaysAreExact == ReplaySpec => []ReplayIsExact
<1>1. Replays => ReplayIsExact
  <2> SUFFICES ASSUME Replays, done # {}
               PROVE  LET at == Max({e.settled : e \in done}) + 1
                      IN  \A k \in {e.key : e \in done} :
                             StateAt(TrackerOf(window, k), at).state = StateOf(AdaptiveRows(done, at), k)
    BY Zenon DEF ReplayIsExact
  <2>1. task = "replay" /\ Rows(done)
    BY DEF Replays
  <2>2. PICK last : IsLast(done, last) /\ Accounts(window, AdaptiveRows(done, last + 1))
    BY <2>1 DEF Replays, Holds
  <2>3. Max({e.settled : e \in done}) = last
    <3> DEFINE S == {e.settled : e \in done}
    <3>1. S \in SUBSET (0..last) /\ last \in S /\ S # {} /\ last \in Nat
      BY <2>1, <2>2 DEF IsLast, Rows, Event
    <3> HIDE DEF S
    <3>2. Max(S) \in S /\ \A y \in S : y <= Max(S)
      BY <3>1, MaxOf
    <3> DEFINE m == Max(S)
    <3>3. m \in S /\ last <= m
      BY <3>1, <3>2
    <3> HIDE DEF m
    <3>4. m = last
      BY <3>1, <3>3
    <3>5. QED
      BY <3>4 DEF S, m
  <2> DEFINE at == last + 1
             W == AdaptiveRows(done, at)
  <2>3a. at \in Int
    BY <2>2 DEF IsLast
  <2>4. W \subseteq done /\ \A x \in W : x.settled >= at - Lookback
    BY DEF AdaptiveRows, Settled
  <2>5. Accounts(window, W)
    BY <2>2
  <2> HIDE DEF W, at
  <2>6. Rows(W)
    BY <2>1, <2>4, SomeRows
  <2>7. ASSUME NEW k PROVE StateAt(TrackerOf(window, k), at).state = StateOf(W, k)
    <3>1. Right(StateAt(TrackerOf(window, k), at), OfKey(Bound(W), k))
      BY <2>3a, <2>4, <2>5, <2>6, AnswerIs
    <3>2. StateAt(TrackerOf(window, k), at).state = Replayed(OfKey(Bound(W), k))
      BY <3>1 DEF Right
    <3>3. StateOf(W, k) = Replayed(OfKey(Bound(W), k))
      BY StateOfIs
    <3>4. QED
      BY <3>2, <3>3
  <2>8. QED
    BY <2>3, <2>7 DEF at, W
<1>2. ReplaySpec => []Replays
  BY InitReplays, StepReplays, PTL DEF ReplaySpec
<1>3. QED
  BY <1>1, <1>2, PTL

-----------------------------------------------------------------------------
(* The states a backtest decides by.                                        *)
LEMMA TrackerStates ==
  ASSUME NEW W, Rows(W), NEW w, Accounts(w, W), NEW k
  PROVE  TrackerOf(w, k).state = StateOf(W, k)
<1>1. StateOf(W, k) = Replayed(OfKey(Bound(W), k))
  BY StateOfIs
<1>2. CASE k \in DOMAIN w.trackers
  BY <1>1, <1>2 DEF TrackerOf, Accounts, Tracks, Right
<1>3. CASE k \notin DOMAIN w.trackers
  <2>1. OfKey(Bound(W), k) = {}
    BY <1>3 DEF Accounts, Tracks, Keys, OfKey
  <2>2. TrackerOf(w, k).state = Empty
    BY <1>3 DEF TrackerOf, NewTracker
  <2>3. QED
    BY <1>1, <2>1, <2>2, ReplayedNothing
<1>4. QED
  BY <1>2, <1>3

\* Along the rows of a history every window holds the rows so far.
LEMMA WindowsHold ==
  ASSUME NEW S, Rows(S), NEW c, c = Causal(S), NEW w, Windows(w, c)
  PROVE  \A i \in 0..Len(c) : Holds(w[i], Up(c, i))
<1> DEFINE n == Len(c)
           bad == {i \in 0..n : ~Holds(w[i], Up(c, i))}
<1>1. InOrder(c, S) /\ n \in Nat
  BY RowsList
<1>2. /\ Up(c, 0) = {}
      /\ \A i \in 1..n : Up(c, i) = Up(c, i - 1) \cup {c[i]} /\ c[i] \notin Up(c, i - 1)
      /\ \A i \in 0..n : Up(c, i) \subseteq S
  BY <1>1, UpIs
<1>3. Holds(w[0], Up(c, 0))
  BY <1>2 DEF Holds, Windows
<1>4. ASSUME NEW i \in 1..n, Holds(w[i - 1], Up(c, i - 1)) PROVE Holds(w[i], Up(c, i))
  <2> DEFINE P == Up(c, i - 1)
             e == c[i]
             u == w[i - 1]
  <2>1. Up(c, i) = P \cup {e} /\ e \notin P
    BY <1>2
  <2>2. Rows(P \cup {e})
    <3>1. i \in 0..n
      BY <1>1
    <3>2. Up(c, i) \subseteq S
      BY <1>2, <3>1
    <3>3. QED
      BY <2>1, <3>2, SomeRows
  <2>3. \A y \in P : CausallyBefore(y, e)
    <3>1. ASSUME NEW y \in P PROVE CausallyBefore(y, e)
      <4>1. PICK j \in 1..(i - 1) : y = c[j]
        BY DEF Up
      <4>2. j \in 1..Len(c) /\ i \in 1..Len(c) /\ j < i
        BY <1>1
      <4>3. QED
        BY <1>1, <4>1, <4>2 DEF InOrder
    <3>2. QED
      BY <3>1
  <2>4. w[i] = AdvanceWindow(u, e, e.settled + 1)
    BY DEF Windows
  <2>5. Holds(u, P)
    BY <1>4
  <2> HIDE DEF P, e, u
  <2>6. Holds(AdvanceWindow(u, e, e.settled + 1), P \cup {e})
    BY <2>1, <2>2, <2>3, <2>5, WindowGoesOn
  <2>7. QED
    BY <2>1, <2>4, <2>6
<1>5. ASSUME bad # {} PROVE FALSE
  <2>1. bad \subseteq Nat
    BY <1>1
  <2>2. PICK i \in bad : \A j \in bad : i <= j
    <3> HIDE DEF bad
    <3>1. QED
      BY <1>5, <2>1, LeastExists
  <2>3. i \in 0..n /\ i # 0 /\ ~Holds(w[i], Up(c, i))
    BY <1>3, <2>2
  <2>4. i \in 1..n /\ i - 1 \in 0..n /\ i - 1 \notin bad
    BY <1>1, <2>2, <2>3
  <2>5. Holds(w[i - 1], Up(c, i - 1))
    BY <2>4
  <2>6. QED
    BY <1>4, <2>3, <2>4, <2>5
<1>6. QED
  BY <1>5

\* The states a backtest decides by, one for each row of its database, are those a
\* computation from scratch gives after the row, over the rows of its window that
\* had settled by then.
THEOREM TimelinesAreExact ==
  ASSUME NEW S \in Databases, NEW c, c = Causal(S)
  PROVE  /\ Len(Timeline(S)) = Len(c)
         /\ \A i \in 1..Len(c) :
               /\ Timeline(S)[i].key = c[i].key /\ Timeline(S)[i].opened = c[i].opened
               /\ Timeline(S)[i].settled = c[i].settled
               /\ Timeline(S)[i].state =
                     StateOf(AdaptiveRows({c[j] : j \in 1..i}, c[i].settled + 1), c[i].key)
<1>1. Rows(S)
  BY DatabaseRows
<1>2. PICK w : /\ Windows(w, c) /\ Len(Timeline(S)) = Len(c)
               /\ \A i \in 1..Len(c) : Timeline(S)[i] = EntryOf(c[i], w[i])
  BY <1>1, TimelineIs
<1>3. ASSUME NEW i \in 1..Len(c)
      PROVE  TrackerOf(w[i], c[i].key).state = StateOf(AdaptiveRows(Up(c, i), c[i].settled + 1), c[i].key)
  <2> DEFINE P == Up(c, i)
             u == w[i]
             W == AdaptiveRows(P, c[i].settled + 1)
  <2>1. InOrder(c, S) /\ Len(c) \in Nat
    BY <1>1, RowsList
  <2>2. i \in 0..Len(c)
    BY <2>1
  <2>3. P \subseteq S /\ c[i] \in P /\ c[i] \in S
    BY <1>1, <2>1, <2>2, UpIs DEF Up
  <2>4. Holds(u, P)
    BY <1>1, <1>2, <2>2, WindowsHold
  <2>5. ASSUME NEW y \in P PROVE y.settled <= c[i].settled
    <3>1. PICK j \in 1..i : y = c[j]
      BY DEF Up
    <3>2. j \in 1..Len(c) /\ (j = i \/ j < i)
      BY <2>1
    <3>3. CausallyBefore(y, c[i]) \/ y = c[i]
      BY <2>1, <3>1, <3>2 DEF InOrder
    <3>4. y.settled \in Nat /\ c[i].settled \in Nat
      BY <1>1, <2>3 DEF Rows, Event
    <3>5. QED
      BY <3>3, <3>4 DEF CausallyBefore
  <2>6. PICK last : IsLast(P, last) /\ Accounts(u, AdaptiveRows(P, last + 1))
    BY <2>3, <2>4 DEF Holds
  <2>7. last = c[i].settled
    <3>1. last \in Nat /\ c[i].settled <= last /\ c[i].settled \in Nat
      BY <1>1, <2>3, <2>6 DEF IsLast, Rows, Event
    <3>2. last <= c[i].settled
      BY <2>5, <2>6 DEF IsLast
    <3>3. QED
      BY <3>1, <3>2
  <2>8. Accounts(u, W)
    BY <2>6, <2>7
  <2>9. Rows(W)
    <3>1. W \subseteq S
      BY <2>3 DEF AdaptiveRows, Settled
    <3>2. QED
      BY <1>1, <3>1, SomeRows
  <2> HIDE DEF P, u, W
  <2>10. TrackerOf(u, c[i].key).state = StateOf(W, c[i].key)
    BY <2>8, <2>9, TrackerStates
  <2>11. QED
    BY <2>10 DEF P, u, W
<1>4. ASSUME NEW i \in 1..Len(c)
      PROVE  /\ Timeline(S)[i].key = c[i].key /\ Timeline(S)[i].opened = c[i].opened
             /\ Timeline(S)[i].settled = c[i].settled
             /\ Timeline(S)[i].state =
                   StateOf(AdaptiveRows({c[j] : j \in 1..i}, c[i].settled + 1), c[i].key)
  <2> DEFINE e == c[i]
             u == w[i]
  <2>1. Timeline(S)[i] = EntryOf(e, u)
    BY <1>2
  <2>2. TrackerOf(u, e.key).state = StateOf(AdaptiveRows({c[j] : j \in 1..i}, e.settled + 1), e.key)
    BY <1>3 DEF Up
  <2> DEFINE given == StateOf(AdaptiveRows({c[j] : j \in 1..i}, e.settled + 1), e.key)
  <2> HIDE DEF e, u, given
  <2>3. /\ EntryOf(e, u).key = e.key /\ EntryOf(e, u).opened = e.opened
        /\ EntryOf(e, u).settled = e.settled /\ EntryOf(e, u).state = TrackerOf(u, e.key).state
    BY DEF EntryOf
  <2>4. QED
    BY <2>1, <2>2, <2>3 DEF e, u, given
<1>5. QED
  BY <1>2, <1>4
=============================================================================
