------------------------ MODULE ShadowExperimentProofs ------------------------
(***************************************************************************)
(* Proofs about ShadowExperiment, for any number of arms, any length of    *)
(* the day, and any number of minutes, restarts and faults.                *)
(***************************************************************************)
EXTENDS ShadowExperiment, TLAPS, SequenceTheorems, FiniteSetTheorems

-----------------------------------------------------------------------------
(* Days and minutes of the day *)

\* A minute is its day and its minute of the day.
LEMMA DayFacts ==
  ASSUME NEW m \in Nat
  PROVE  /\ Day(m) \in Nat /\ MinuteOfDay(m) \in 0..DayLength - 1
         /\ m = DayLength * Day(m) + MinuteOfDay(m)
  BY ExperimentAssumption, SMT DEF Day, MinuteOfDay

\* The minutes of a day follow each other.
LEMMA DayIsInterval ==
  ASSUME NEW m \in Nat, NEW d \in Nat
  PROVE  /\ Day(m) = d <=> m \in d * DayLength..(d + 1) * DayLength - 1
         /\ Day(m) = d => MinuteOfDay(m) = m - d * DayLength
  BY ExperimentAssumption, SMT DEF Day, MinuteOfDay

\* The days of the minutes are those of the table.
LEMMA DayType ==
  ASSUME NEW m \in Minutes
  PROVE  Day(m) \in DayNums
  BY ExperimentAssumption, SMT DEF Day, DayNums, Minutes

\* The minutes of the day at which the minutes lo..hi fall on a day are an
\* interval, whose ends are those Coverage chooses.
LEMMA DayPart ==
  ASSUME NEW lo \in Nat, NEW hi \in Nat, lo <= hi, NEW d \in Nat
  PROVE  LET new == {MinuteOfDay(m) : m \in {k \in lo..hi : Day(k) = d}}
             least == CHOOSE x \in new : \A y \in new : x <= y
             most == CHOOSE x \in new : \A y \in new : y <= x
             first == IF lo > d * DayLength THEN lo - d * DayLength ELSE 0
             last == IF hi < (d + 1) * DayLength THEN hi - d * DayLength ELSE DayLength - 1
         IN  /\ new = first..last
             /\ new # {} => least = first /\ most = last
<1> DEFINE base == d * DayLength
           new == {MinuteOfDay(m) : m \in {k \in lo..hi : Day(k) = d}}
           first == IF lo > base THEN lo - base ELSE 0
           last == IF hi < base + DayLength THEN hi - base ELSE DayLength - 1
<1>1. base \in Nat /\ (d + 1) * DayLength = base + DayLength /\ DayLength \in Nat \ {0}
  BY ExperimentAssumption, SMT
<1> HIDE DEF base
<1>2. \A m \in lo..hi : /\ Day(m) = d <=> m \in base..base + DayLength - 1
                        /\ Day(m) = d => MinuteOfDay(m) = m - base
  <2> SUFFICES ASSUME NEW m \in lo..hi
               PROVE  /\ Day(m) = d <=> m \in base..base + DayLength - 1
                      /\ Day(m) = d => MinuteOfDay(m) = m - base
    OBVIOUS
  <2>1. m \in Nat
    OBVIOUS
  <2>2. QED
    BY <1>1, <2>1, DayIsInterval DEF base
<1>3. ASSUME NEW x \in new PROVE x \in first..last
  BY <1>1, <1>2
<1>4. ASSUME NEW x \in first..last PROVE x \in new
  <2>1. x + base \in lo..hi /\ x + base \in base..base + DayLength - 1
    BY <1>1
  <2>2. QED
    BY <1>1, <1>2, <2>1
<1>5. new = first..last
  BY <1>3, <1>4
<1> HIDE DEF new
<1>6. ASSUME new # {}
      PROVE  /\ (CHOOSE x \in new : \A y \in new : x <= y) = first
             /\ (CHOOSE x \in new : \A y \in new : y <= x) = last
  <2>1. first \in new /\ last \in new /\ first \in Int /\ last \in Int
    BY <1>1, <1>5, <1>6
  <2>2. \A x \in new : (\A y \in new : x <= y) <=> x = first
    BY <1>5, <2>1
  <2>3. \A x \in new : (\A y \in new : y <= x) <=> x = last
    BY <1>5, <2>1
  <2>4. QED
    BY <2>1, <2>2, <2>3
<1>7. QED
  BY <1>1, <1>5, <1>6 DEF new, base

-----------------------------------------------------------------------------
(* Type correctness *)

\* A function on 1..n is a sequence.
LEMMA FunctionIsSeq ==
  ASSUME NEW S, NEW n \in Nat, NEW f \in [1..n -> S]
  PROVE  f \in Seq(S) /\ Len(f) = n
  BY SeqDef

\* Coverage keeps one cover per day.
LEMMA CoverageType ==
  ASSUME NEW days \in [DayNums -> Covers], NEW lo \in Nat, NEW hi \in Nat, lo <= hi
  PROVE  Coverage(days, lo, hi) \in [DayNums -> Covers]
<1> SUFFICES ASSUME NEW d \in DayNums
             PROVE  Coverage(days, lo, hi)[d] \in Covers
  BY DEF Coverage
<1> DEFINE new == {MinuteOfDay(m) : m \in {k \in lo..hi : Day(k) = d}}
           least == CHOOSE x \in new : \A y \in new : x <= y
           most == CHOOSE x \in new : \A y \in new : y <= x
           first == IF lo > d * DayLength THEN lo - d * DayLength ELSE 0
           last == IF hi < (d + 1) * DayLength THEN hi - d * DayLength ELSE DayLength - 1
           cover == [first |-> IF days[d].count = 0 THEN least ELSE LesserOf(days[d].first, least),
                     last |-> IF days[d].count = 0 THEN most ELSE GreaterOf(days[d].last, most),
                     count |-> days[d].count + Cardinality(new)]
<1>1. Coverage(days, lo, hi)[d] = IF new = {} THEN days[d] ELSE cover
  BY DEF Coverage
<1>2. days[d] \in Covers /\ d \in Nat
  BY DEF DayNums
<1>3. new = first..last /\ (new # {} => least = first /\ most = last)
  BY <1>2, DayPart
<1> HIDE DEF new, least, most
<1>4. first \in Nat /\ last \in Int /\ last <= DayLength - 1
  <2>1. d * DayLength \in Nat /\ (d + 1) * DayLength = d * DayLength + DayLength
        /\ DayLength \in Nat \ {0}
    BY <1>2, ExperimentAssumption, SMT
  <2>2. QED
    BY <2>1
<1> HIDE DEF first, last
<1>5. Cardinality(new) \in Nat
  BY <1>3, <1>4, FS_Interval, FS_CardinalityType
<1>6. ASSUME new # {} PROVE least \in 0..DayLength - 1 /\ most \in 0..DayLength - 1
  <2>1. PICK x \in first..last : TRUE
    BY <1>3, <1>6
  <2>2. first <= last
    BY <1>4, <2>1
  <2>3. QED
    BY <1>3, <1>4, <1>6, <2>2, ExperimentAssumption
<1>7. ASSUME new # {} PROVE cover \in Covers
  BY <1>2, <1>5, <1>6, <1>7, ExperimentAssumption DEF Covers, LesserOf, GreaterOf, None
<1>8. QED
  BY <1>1, <1>2, <1>7

\* An arm that takes a batch still has a runtime.
LEMMA OrdersType ==
  ASSUME NEW a \in Arms, NEW orders \in OrderSeqs, NEW hi \in Minutes
  PROVE  Orders(a, orders, hi) \in OrderSeqs
<1> DEFINE settled == [i \in 1..Len(orders) |->
                         [orders[i] EXCEPT !.settled = @ \/ orders[i].at + Lasts <= hi]]
<1>1. \A i \in 1..Len(orders) : orders[i] \in [at : Minutes, settled : BOOLEAN]
  BY ElementOfSeq DEF OrderSeqs
<1>2. settled \in OrderSeqs
  <2>1. ASSUME NEW o \in [at : Minutes, settled : BOOLEAN], NEW b \in BOOLEAN
        PROVE  [o EXCEPT !.settled = b] \in [at : Minutes, settled : BOOLEAN]
    OBVIOUS
  <2>2. ASSUME NEW i \in 1..Len(orders)
        PROVE  settled[i] \in [at : Minutes, settled : BOOLEAN]
    <3>1. (orders[i].settled \/ orders[i].at + Lasts <= hi) \in BOOLEAN
      OBVIOUS
    <3>2. QED
      BY <1>1, <2>1, <3>1
  <2>3. QED
    BY <2>2, FunctionIsSeq, LenProperties DEF OrderSeqs
<1>3. Append(settled, [at |-> hi, settled |-> FALSE]) \in OrderSeqs
  BY <1>2, AppendProperties DEF OrderSeqs
<1>4. QED
  BY <1>2, <1>3 DEF Orders

LEMMA ProcessType ==
  ASSUME NEW a \in Arms, NEW r \in Runtimes, NEW batch \in Batches
  PROVE  Process(a, r, batch) \in Runtimes
<1>1. batch.lo \in Nat /\ batch.hi \in Minutes /\ batch.hi \in Nat /\ batch.lo <= batch.hi
  BY ExperimentAssumption DEF Batches, Minutes
<1>2. Coverage(r.days, batch.lo, batch.hi) \in [DayNums -> Covers]
  BY <1>1, CoverageType DEF Runtimes
<1>3. Orders(a, r.orders, batch.hi) \in OrderSeqs
  BY <1>1, OrdersType DEF Runtimes
<1>4. Append(r.taken, batch) \in Seq(Batches)
  BY AppendProperties DEF Runtimes
<1>5. batch.hi \in None..MaxMinute
  BY <1>1 DEF Minutes, None
<1>6. QED
  BY <1>2, <1>3, <1>4, <1>5 DEF Process, Runtimes

LEMMA FreshType ==
  FreshRuntime \in Runtimes /\ NoRows \in Rows
  BY EmptySeq, ExperimentAssumption DEF FreshRuntime, NoDay, NoRows, Runtimes, Rows, OrderSeqs, Covers, None

LEMMA FlagsType ==
  ASSUME NEW orders \in OrderSeqs
  PROVE  Flags(orders) \in Seq(BOOLEAN)
<1>1. \A i \in 1..Len(orders) : orders[i] \in [at : Minutes, settled : BOOLEAN]
  BY ElementOfSeq DEF OrderSeqs
<1>2. QED
  BY <1>1, FunctionIsSeq, LenProperties DEF OrderSeqs, Flags

\* Storing the orders that changed gives a sequence of orders again.
LEMMA StoredOrdersType ==
  ASSUME TypeOK, NEW a \in Arms, NEW orders \in OrderSeqs
  PROVE  StoredOrders(a, orders) \in OrderSeqs
<1>1. rows[a].orders \in OrderSeqs
  BY DEF TypeOK, Rows
<1>2. \A i \in 1..Len(orders) : orders[i] \in [at : Minutes, settled : BOOLEAN]
  BY ElementOfSeq DEF OrderSeqs
<1>3. Len(orders) \in Nat /\ Len(rows[a].orders) \in Nat
  BY <1>1, LenProperties DEF OrderSeqs
<1>4. \A i \in 1..Len(orders) :
         i <= Len(rows[a].orders) => rows[a].orders[i] \in [at : Minutes, settled : BOOLEAN]
  <2>1. \A k \in 1..Len(rows[a].orders) : rows[a].orders[k] \in [at : Minutes, settled : BOOLEAN]
    BY <1>1, ElementOfSeq DEF OrderSeqs
  <2>2. QED
    BY <1>3, <2>1
<1>5. StoredOrders(a, orders) \in [1..Len(orders) -> [at : Minutes, settled : BOOLEAN]]
  BY <1>2, <1>3, <1>4 DEF StoredOrders
<1>6. QED
  BY <1>3, <1>5, FunctionIsSeq DEF OrderSeqs

LEMMA InitTypeOK == Init => TypeOK
<1> SUFFICES ASSUME Init PROVE TypeOK
  OBVIOUS
<1>1. <<>> \in Seq(Batches) /\ <<>> \in Seq(BOOLEAN) /\ <<>> \in Seq(Requests) /\ Len(<<>>) = 0
  BY EmptySeq
<1>2. 1 \in Arms /\ 1 \in 1..NoneActive /\ 0 \in Minutes /\ None \in None..Day(MaxMinute)
  <2>1. 0 <= Day(MaxMinute) /\ Day(MaxMinute) \in Int
    BY ExperimentAssumption, DayFacts
  <2>2. QED
    BY <2>1, ExperimentAssumption DEF Arms, Minutes, NoneActive, None
<1>3. exp \in Experiments
  BY <1>1, <1>2, ExperimentAssumption DEF Init, Experiments, None
<1>4. None \in None..MaxMinute + 1
  BY ExperimentAssumption DEF None
<1>5. QED
  BY <1>1, <1>2, <1>3, <1>4, FreshType DEF Init, TypeOK, scheduler

\* An arm that is taken up again has a runtime, and what is built has its type.
LEMMA RecoveredType ==
  ASSUME TypeOK, NEW a \in Arms, NEW seed \in -1..MaxMinute
  PROVE  Recovered(a, seed) \in Runtimes
<1>1. rows[a] \in Rows
  BY DEF TypeOK
<1>2. Checkpoint(a) \in Runtimes
  BY <1>1 DEF Checkpoint, Rows, Runtimes
<1>3. (Checkpoint(a).invalid \/ seed > Checkpoint(a).cursor) \in BOOLEAN
  OBVIOUS
<1>4. ASSUME NEW r \in Runtimes, NEW b \in BOOLEAN PROVE [r EXCEPT !.invalid = b] \in Runtimes
  BY DEF Runtimes
<1>5. QED
  BY <1>2, <1>3, <1>4, FreshType DEF Recovered

LEMMA BuildTypeOK ==
  ASSUME TypeOK, NEW seed \in -1..MaxMinute - 1, NEW same \in BOOLEAN,
         BuildOptimizer(seed, same)
  PROVE  /\ worker' = "idle" /\ next' \in 1..NoneActive
         /\ rt' \in [Arms -> Runtimes] /\ signatures' \in [Arms -> Seq(BOOLEAN)]
         /\ failed' \subseteq Arms /\ retired' \subseteq Arms /\ champion' \in Arms
         /\ promotion' = Nothing /\ asks' = Nothing
         /\ evaluatedDay' = None /\ activatedDay' = None
         /\ exp' \in Experiments /\ rows' \in [Arms -> Rows]
<1> USE DEF TypeOK
<1>1. seed \in -1..MaxMinute /\ seed + 1 \in Minutes /\ 1 \in Arms /\ 1 \in 1..NoneActive
  BY ExperimentAssumption DEF Minutes, Arms, NoneActive
<1>2. \A a \in Arms : Recovered(a, seed) \in Runtimes
  BY <1>1, RecoveredType
<1>3. \A a \in Arms : Flags(rows[a].orders) \in Seq(BOOLEAN)
  BY FlagsType DEF Rows
<1>4. exp.id + 1 \in Nat /\ <<>> \in Seq(Requests) /\ <<>> \in Seq(BOOLEAN)
  BY EmptySeq DEF Experiments
<1>5. CASE same /\ Reusable(seed)
  BY <1>1, <1>2, <1>3, <1>5 DEF BuildOptimizer, disk, Experiments
<1>6. CASE ~(same /\ Reusable(seed))
  <2>1. exp' = [id |-> exp.id + 1, effectiveFrom |-> seed + 1, champion |-> 1,
                retired |-> {}, history |-> <<>>] /\ rows' = [a \in Arms |-> NoRows]
    BY <1>6 DEF BuildOptimizer, CreateExperiment
  <2>2. exp' \in Experiments /\ rows' \in [Arms -> Rows]
    BY <1>1, <1>4, <2>1, FreshType DEF Experiments
  <2>3. QED
    BY <1>1, <1>4, <1>6, <2>2, FreshType DEF BuildOptimizer
<1>7. QED
  BY <1>5, <1>6

\* What a minute bounds.
LEMMA Bounds ==
  /\ 1 \in Arms /\ 1 \in 1..NoneActive /\ 0 \in Minutes
  /\ None \in None..MaxMinute + 1 /\ None \in None..Day(MaxMinute)
  /\ Minutes \subseteq Nat /\ Minutes \subseteq None..MaxMinute
  /\ \A m \in Minutes : m + 1 \in None..MaxMinute + 1 /\ Day(m) \in None..Day(MaxMinute)
<1>1. 0 <= Day(MaxMinute) /\ Day(MaxMinute) \in Int
  BY ExperimentAssumption, DayFacts
<1>2. \A m \in Minutes : Day(m) \in 0..Day(MaxMinute)
  BY DayType DEF DayNums
<1>3. QED
  BY <1>1, <1>2, ExperimentAssumption DEF Arms, Minutes, NoneActive, None

LEMMA ServiceTypeOK == TypeOK /\ Service => TypeOK'
<1> SUFFICES ASSUME TypeOK, Service
             PROVE  TypeOK'
  OBVIOUS
<1> USE DEF TypeOK, memory, disk, bounds, scheduler
<1>1. CASE Tick
  BY <1>1, ExperimentAssumption DEF Tick, Minutes
<1>2. CASE Start
  <2>1. PICK seed \in -1..now - 1, same \in BOOLEAN :
            /\ \E first \in seed + 1..now : eventQ' = <<[lo |-> first, hi |-> now]>>
            /\ BuildOptimizer(seed, same)
    BY <1>2 DEF Start
  <2>2. PICK first \in seed + 1..now : eventQ' = <<[lo |-> first, hi |-> now]>>
    BY <2>1
  <2>3. seed \in -1..MaxMinute - 1 /\ [lo |-> first, hi |-> now] \in Batches
    BY ExperimentAssumption DEF Minutes, Batches
  <2>4. eventQ' \in Seq(Batches) /\ Len(eventQ') <= 1
    BY <2>2, <2>3
  <2>5. toPublish' \in None..MaxMinute + 1
    BY <1>2, Bounds DEF Start
  <2> HIDE DEF TypeOK
  <2>6. /\ worker' = "idle" /\ next' \in 1..NoneActive
        /\ rt' \in [Arms -> Runtimes] /\ signatures' \in [Arms -> Seq(BOOLEAN)]
        /\ failed' \subseteq Arms /\ retired' \subseteq Arms /\ champion' \in Arms
        /\ promotion' = Nothing /\ asks' = Nothing
        /\ evaluatedDay' = None /\ activatedDay' = None
        /\ exp' \in Experiments /\ rows' \in [Arms -> Rows]
    BY <2>1, <2>3, BuildTypeOK
  <2>7. QED
    BY <1>2, <2>4, <2>5, <2>6, Bounds DEF Start, TypeOK
<1>3. CASE Publish
  <2>1. PICK hi \in toPublish..now :
            /\ toPublish' = hi + 1
            /\ IF eventQ = <<>>
               THEN eventQ' = <<[lo |-> toPublish, hi |-> hi]>> /\ UNCHANGED faults
               ELSE Fault /\ UNCHANGED eventQ
    BY <1>3 DEF Publish
  <2>2. toPublish \in Nat /\ now \in Minutes /\ hi \in Minutes
    BY <1>3, <2>1, ExperimentAssumption DEF Publish, Minutes, None
  <2>3. [lo |-> toPublish, hi |-> hi] \in Batches /\ toPublish' \in None..MaxMinute + 1
    BY <2>1, <2>2, Bounds, ExperimentAssumption DEF Batches, Minutes
  <2>4. eventQ' \in Seq(Batches) /\ Len(eventQ') <= 1 /\ (eventQ # <<>> => eventQ' # <<>>)
    <3> DEFINE one == <<[lo |-> toPublish, hi |-> hi]>>
    <3>1. one \in Seq(Batches) /\ Len(one) = 1
      BY <2>3
    <3>2. eventQ = <<>> => eventQ' = one
      BY <2>1
    <3>3. one # <<>>
      OBVIOUS
    <3>4. QED
      <4>1. CASE eventQ = <<>>
        <5>1. eventQ' = one
          BY <3>2, <4>1
        <5> HIDE DEF one, TypeOK
        <5>2. eventQ' \in Seq(Batches) /\ Len(eventQ') = 1
          BY <3>1, <5>1, Zenon
        <5>3. QED
          BY <3>3, <5>1, <5>2, EmptySeq
      <4>2. CASE eventQ # <<>>
        BY <2>1, <4>2
      <4>3. QED
        BY <4>1, <4>2
  <2>5. faults' \in Nat
    BY <2>1 DEF Fault
  <2>6. QED
    BY <1>3, <2>3, <2>4, <2>5 DEF Publish
<1>4. CASE Stop
  BY <1>4, FreshType, Bounds, EmptySeq DEF Stop
<1>5. QED
  BY <1>1, <1>2, <1>3, <1>4 DEF Service

LEMMA ArmTypeOK == TypeOK /\ Arm => TypeOK'
<1> SUFFICES ASSUME TypeOK, Arm
             PROVE  TypeOK'
  OBVIOUS
<1> USE DEF TypeOK
<1>1. next \in Arms /\ next' = next + 1 /\ next' \in 1..NoneActive /\ worker = "batch"
  <2>1. worker = "batch" /\ next \in Arms /\ next' = next + 1
    BY DEF Arm, ArmSkips, ArmTakes, ArmFreezes, Turn, Passed
  <2>2. QED
    BY <2>1, ExperimentAssumption DEF Arms, NoneActive
<1>2. rt[next] \in Runtimes /\ rows[next] \in Rows /\ Batch \in Batches
  BY <1>1, HeadTailProperties DEF Batch
<1>3. ASSUME NEW r \in Runtimes, NEW b \in BOOLEAN
      PROVE  /\ [r EXCEPT !.invalid = b] \in Runtimes
             /\ [r EXCEPT !.orders = <<>>] \in Runtimes
             /\ r.orders \in OrderSeqs
  BY EmptySeq DEF Runtimes, OrderSeqs
<1>4. Batch.hi \in None..MaxMinute
  BY <1>2, Bounds DEF Batches
<1>5. CASE ArmSkips
  BY <1>1, <1>5 DEF ArmSkips, scheduler, disk, bounds, monitor
<1>6. CASE ArmTakes
  <2> DEFINE processed == Process(next, rt[next], Batch)
  <2>1. processed \in Runtimes
    BY <1>1, <1>2, ProcessType
  <2>2. Flags(processed.orders) \in Seq(BOOLEAN) /\ StoredOrders(next, processed.orders) \in OrderSeqs
    BY <1>1, <1>3, <2>1, FlagsType, StoredOrdersType
  <2>3. Bundle(next, processed, Batch.hi) \in Rows
    BY <1>2, <1>3, <1>4, <2>1, <2>2 DEF Bundle, Rows
  <2>4. [processed EXCEPT !.invalid = TRUE] \in Runtimes
    BY <1>3, <2>1
  <2> HIDE DEF processed
  <2>5. signatures' \in [Arms -> Seq(BOOLEAN)]
    BY <1>1, <1>6, <2>2 DEF ArmTakes, processed
  <2>6. /\ rows' \in [Arms -> Rows] /\ rt' \in [Arms -> Runtimes]
        /\ failed' \subseteq Arms /\ faults' \in Nat
    <3>1. \/ /\ rows' = [rows EXCEPT ![next] = Bundle(next, processed, Batch.hi)]
             /\ rt' = [rt EXCEPT ![next] = processed]
             /\ UNCHANGED <<failed, faults>>
          \/ /\ faults' = faults + 1
             /\ rows' = rows
             /\ rt' = [rt EXCEPT ![next] = [processed EXCEPT !.invalid = TRUE]]
             /\ failed' = failed \cup {next}
      BY <1>6 DEF ArmTakes, processed, FailedWrite, Fault
    <3>2. QED
      <4>1. rows' \in [Arms -> Rows]
        BY <1>1, <2>3, <3>1
      <4>2. rt' \in [Arms -> Runtimes]
        BY <1>1, <2>1, <2>4, <3>1
      <4>3. failed' \subseteq Arms /\ faults' \in Nat
        BY <1>1, <3>1
      <4>4. QED
        BY <4>1, <4>2, <4>3
  <2>7. QED
    BY <1>1, <1>6, <2>5, <2>6 DEF ArmTakes, scheduler, monitor
<1>7. CASE ArmFreezes
  <2> DEFINE r == [rt[next] EXCEPT !.invalid = TRUE]
  <2>1. r \in Runtimes
    BY <1>2, <1>3
  <2>2. GapBundle(next, r, Batch.hi) \in Rows
    <3>1. ASSUME NEW w \in Rows, NEW s \in Runtimes, NEW m \in None..MaxMinute
          PROVE  [w EXCEPT !.last = m, !.state = s, !.gaps = @ + 1] \in Rows
      <4>1. w.gaps + 1 \in Nat
        BY DEF Rows
      <4>2. QED
        BY <4>1 DEF Rows
    <3>2. QED
      BY <1>2, <1>3, <1>4, <2>1, <3>1 DEF GapBundle
  <2> HIDE DEF r
  <2>3. rt' \in [Arms -> Runtimes] /\ rows' \in [Arms -> Rows] /\ failed' \subseteq Arms
    BY <1>1, <1>7, <2>1, <2>2 DEF ArmFreezes, r
  <2>4. faults' \in Nat
    BY <1>7 DEF ArmFreezes, Fault
  <2>5. QED
    BY <1>1, <1>7, <2>3, <2>4 DEF ArmFreezes, scheduler, monitor
<1>8. QED
  BY <1>5, <1>6, <1>7 DEF Arm

\* An analysis that fails freezes arms in memory only, and they have failed.
LEMMA AnalyserEffect ==
  ASSUME TypeOK, AnalyserFails
  PROVE  /\ worker = "idle" /\ worker' = "batch" /\ next' = 1 /\ eventQ # <<>>
         /\ UNCHANGED <<monitor, eventQ, signatures, retired, champion, promotion, asks, scheduler,
                        disk, restarts>>
         /\ faults' \in Nat /\ failed \subseteq failed' /\ failed' \subseteq Arms
         /\ rt' \in [Arms -> Runtimes]
         /\ \A a \in Arms : a \in Skipped \/ a \notin failed' => rt'[a] = rt[a]
<1>1. /\ rt' = [a \in Arms |-> IF a \in Skipped THEN rt[a] ELSE [rt[a] EXCEPT !.invalid = TRUE]]
      /\ failed' = failed \cup (Arms \ Skipped)
  BY DEF AnalyserFails
<1>2. \A a \in Arms : rt[a] \in Runtimes /\ [rt[a] EXCEPT !.invalid = TRUE] \in Runtimes
  BY DEF TypeOK, Runtimes
<1>3. rt' \in [Arms -> Runtimes]
  BY <1>1, <1>2
<1>4. \A a \in Arms : a \in Skipped \/ a \notin failed' => rt'[a] = rt[a]
  BY <1>1
<1>5. failed \subseteq failed' /\ failed' \subseteq Arms
  BY <1>1 DEF TypeOK
<1>6. QED
  BY <1>3, <1>4, <1>5 DEF AnalyserFails, Fault, TypeOK

LEMMA AnalyserTypeOK == TypeOK /\ AnalyserFails => TypeOK'
<1> SUFFICES ASSUME TypeOK, AnalyserFails PROVE TypeOK'
  OBVIOUS
<1>1. 1 \in 1..NoneActive
  BY ExperimentAssumption DEF NoneActive
<1>2. QED
  BY <1>1, AnalyserEffect DEF TypeOK, monitor, scheduler, disk

LEMMA WorkerTypeOK == TypeOK /\ (TakeBatch \/ EndBatch \/ Applied \/ Refused) => TypeOK'
<1> SUFFICES ASSUME TypeOK, TakeBatch \/ EndBatch \/ Applied \/ Refused
             PROVE  TypeOK'
  OBVIOUS
<1> USE DEF TypeOK
<1>1. CASE TakeBatch
  BY <1>1, ExperimentAssumption, Bounds DEF TakeBatch, NoneActive, monitor, scheduler, disk, bounds
<1>2. CASE EndBatch
  <2> DEFINE at == Batch.hi
  <2>1. eventQ # <<>> /\ Batch \in Batches /\ at \in Minutes
    BY <1>2, HeadTailProperties DEF EndBatch, Batch, Batches
  <2>2. Day(at) \in None..Day(MaxMinute)
    BY <2>1, Bounds
  <2>3. eventQ' \in Seq(Batches) /\ Len(eventQ') <= 1
    BY <1>2, <2>1, HeadTailProperties DEF EndBatch
  <2>4. evaluatedDay' \in None..Day(MaxMinute) /\ activatedDay' \in None..Day(MaxMinute)
    BY <1>2, <2>2 DEF EndBatch, DayDone
  <2> HIDE DEF at
  <2>5. PICK rollback \in Rollbacks(at),
             selected \in IF EvaluationDue(at) THEN Selected(at) ELSE {promotion, Nothing} :
          LET activates == /\ ActivationDue(at) /\ selected # Nothing
                           /\ asks = Nothing /\ rollback = Nothing
          IN  /\ promotion' = IF activates THEN Nothing ELSE selected
              /\ asks' = IF activates
                         THEN [kind |-> "PROMOTION", from |-> selected.from,
                               to |-> selected.to, at |-> at]
                         ELSE IF rollback # Nothing THEN rollback ELSE asks
    BY <1>2 DEF EndBatch, at
  <2>6. rollback \in Requests \cup {Nothing}
    <3>1. ASSUME exp.history # <<>> PROVE LatestChange \in Requests
      BY <3>1, LenProperties, EmptySeq DEF LatestChange, Last, Experiments
    <3>2. QED
      BY <2>1, <3>1 DEF Rollbacks, Requests
  <2>7. selected \in [from : Arms, to : Arms] \cup {Nothing}
    BY DEF Selected, Eligible
  <2>8. promotion' \in [from : Arms, to : Arms] \cup {Nothing} /\ asks' \in Requests \cup {Nothing}
    BY <2>1, <2>5, <2>6, <2>7 DEF Requests
  <2>9. QED
    BY <1>2, <2>3, <2>4, <2>8, Bounds DEF EndBatch, monitor, disk, bounds
<1>3. CASE Applied
  <2>1. PICK at \in asks.at..now : Record(at)
    BY <1>3 DEF Applied
  <2>2. asks \in Requests /\ at \in Minutes
    BY <1>3, ExperimentAssumption DEF Applied, Requests, Minutes
  <2>3. Append(exp.history, [kind |-> asks.kind, from |-> asks.from, to |-> asks.to, at |-> at])
          \in Seq(Requests)
    BY <2>2, AppendProperties DEF Requests, Experiments
  <2>4. exp' \in Experiments /\ champion' \in Arms /\ retired' \subseteq Arms
    BY <2>1, <2>2, <2>3 DEF Record, Experiments, Requests
  <2>5. QED
    BY <1>3, <2>4 DEF Applied, monitor, scheduler
<1>4. CASE Refused
  BY <1>4 DEF Refused, monitor, scheduler, disk, bounds
<1>5. QED
  BY <1>1, <1>2, <1>3, <1>4

LEMMA StepTypeOK == TypeOK /\ [Next]_vars => TypeOK'
<1>1. TypeOK /\ UNCHANGED vars => TypeOK'
  BY DEF TypeOK, vars, monitor, memory, scheduler, disk, bounds
<1>2. QED
  BY <1>1, ServiceTypeOK, ArmTypeOK, WorkerTypeOK, AnalyserTypeOK DEF Next

\* What the monitor, the worker and the database hold has its type.
THEOREM ExperimentTypeCorrect == Spec => []TypeOK
  BY InitTypeOK, StepTypeOK, PTL DEF Spec
-----------------------------------------------------------------------------
(* Memory and database *)

SameRun(r, s) ==
    r.cursor = s.cursor /\ r.days = s.days /\ r.orders = s.orders /\ r.taken = s.taken

\* An arm without rows is as it was created; one whose state is sound stands
\* where its last event does.
RowsSound ==
    \A a \in Arms :
       /\ rows[a].last = None => SameRun(Checkpoint(a), FreshRuntime) /\ ~rows[a].state.invalid
       /\ rows[a].last # None => rows[a].state.cursor # None
       /\ ~rows[a].state.invalid => rows[a].state.cursor = rows[a].last
       /\ rows[a].state.cursor <= now /\ rows[a].last <= now

\* What an arm that did not fail has in memory is what it has stored, but for
\* being frozen, of which the database may not know yet.
MemoryIsStored ==
    \A a \in Arms \ failed :
       worker # "down" =>
          /\ SameRun(rt[a], Checkpoint(a))
          /\ rows[a].state.invalid => rt[a].invalid
          /\ rt[a].invalid => rt[a].cursor # None
          /\ signatures[a] = Flags(rows[a].orders)

\* A worker that is down knows nothing.
DownKnowsNothing ==
    worker = "down" =>
       /\ eventQ = <<>> /\ toPublish = None
       /\ rt = [a \in Arms |-> FreshRuntime] /\ failed = {} /\ retired = {}
       /\ promotion = Nothing /\ asks = Nothing

\* What is in the queue is past, and past what will be published next.
QueueIsPast ==
    /\ worker # "down" => toPublish \in 1..now + 1
    /\ eventQ # <<>> => Head(eventQ).hi < toPublish

Stored == RowsSound /\ MemoryIsStored /\ DownKnowsNothing /\ QueueIsPast

(* The lifecycle *)

\* The worker's champion and retired arms are those recorded; a champion is not
\* retired, nor is the one it was promoted over.
LifecycleRecorded ==
    /\ worker # "down" => champion = exp.champion /\ retired = exp.retired
    /\ exp.champion \notin exp.retired
    /\ exp.history # <<>> =>
          /\ LatestChange.from # LatestChange.to
          /\ LatestChange.kind = "PROMOTION" => LatestChange.from \notin exp.retired

\* A promotion that waits, and a request that is under way, lead to an arm that
\* is not retired; a promotion set aside while a request is under way has the
\* same source.
RequestsSound ==
    /\ promotion # Nothing => promotion.to \notin retired /\ promotion.from # promotion.to
    /\ asks # Nothing => asks.to \notin retired /\ asks.from # asks.to
    /\ promotion # Nothing /\ asks # Nothing => promotion.from = champion

Lifecycle == LifecycleRecorded /\ RequestsSound

\* The promotions were all applied the cooldown before t.
PromotedBefore(t) ==
    \A i \in 1..Len(exp.history) :
       exp.history[i].kind = "PROMOTION" => exp.history[i].at + Cooldown * DayLength <= t

\* What may still become a promotion was chosen out of cooldown.
ChosenOutOfCooldown ==
    /\ promotion # Nothing /\ promotion.from = champion =>
          /\ PromotedBefore(toPublish - 1)
          /\ eventQ # <<>> => PromotedBefore(Head(eventQ).hi)
    /\ asks # Nothing /\ asks.from = champion /\ asks.kind = "PROMOTION" => PromotedBefore(asks.at)

(* One arm's batches *)

NoDays == [d \in DayNums |-> NoDay]
StartOf(r) == r.taken[1].lo

\* What IsOf says of an arm, in the form in which one more batch keeps it.
RunOf(a, r) ==
    /\ r.taken = <<>> => r.cursor = None /\ r.days = NoDays /\ r.orders = <<>>
    /\ r.taken # <<>> =>
          /\ r.cursor = r.taken[Len(r.taken)].hi
          /\ MinutesOf(ToSet(r.taken)) = StartOf(r)..r.cursor
          /\ StartOf(r) <= r.cursor
          /\ r.days = Coverage(NoDays, StartOf(r), r.cursor)
    /\ \A k \in 1..Len(r.taken) - 1 : r.taken[k + 1].lo = r.taken[k].hi + 1
    /\ \A k \in 1..Len(r.taken) : r.taken[k].hi <= r.cursor
    /\ \A i, j \in 1..Len(r.orders) : i < j => r.orders[i].at < r.orders[j].at
    /\ \A i \in 1..Len(r.orders) :
          /\ r.orders[i].settled <=> r.orders[i].at + Lasts <= r.cursor
          /\ \E k \in 1..Len(r.taken) :
                r.orders[i].at = r.taken[k].hi /\ DecidesToOpen(a, r.taken[k].hi)
    /\ \A k \in 1..Len(r.taken) : DecidesToOpen(a, r.taken[k].hi) =>
          \E i \in 1..Len(r.orders) : r.orders[i].at = r.taken[k].hi

RunsOf == \A a \in Arms : RunOf(a, Checkpoint(a))

(* The arms together *)

\* The arms were all created for the same first batch, and no arm has gone on
\* to a second before the others have taken it.
StartTogether ==
    /\ \A a, b \in Arms :
          rows[a].state.taken # <<>> /\ rows[b].state.taken # <<>> =>
             StartOf(rows[a].state) = StartOf(rows[b].state)
    /\ \A a, b \in Arms :
          worker # "down" /\ b \notin failed /\ rows[b].last = None /\ rows[a].last # None =>
             worker = "batch" /\ StartOf(rows[a].state) = Batch.lo

\* In a batch, the arms before the one whose turn it is have come to its end.
StandAtBatch ==
    /\ worker # "down" => \A a \in Arms \ failed : rt[a].cursor < toPublish
    /\ eventQ # <<>> => \A a \in Arms \ failed : rt[a].cursor <= Head(eventQ).hi
    /\ worker = "batch" =>
          \A a \in Arms \ Skipped : a < next /\ ~rt[a].invalid => rt[a].cursor = Batch.hi
    /\ worker = "batch" /\ next > NumArms + 1 => Arms \subseteq Skipped

\* An arm that was chosen has taken a batch.
ChosenHaveRun ==
    /\ \A a \in exp.retired \cup retired : rows[a].last # None
    /\ \A i \in 1..Len(exp.history) :
          exp.history[i].kind = "PROMOTION" => rows[exp.history[i].to].last # None
    /\ promotion # Nothing => rows[promotion.to].last # None
    /\ asks # Nothing =>
          rows[IF asks.kind = "PROMOTION" THEN asks.to ELSE asks.from].last # None

InStep == StartTogether /\ StandAtBatch /\ ChosenHaveRun
-----------------------------------------------------------------------------
(* Proof: memory and database *)

\* What the rows say of an arm, field by field.
LEMMA CheckpointFields ==
  ASSUME TypeOK, NEW a \in Arms
  PROVE  /\ Checkpoint(a) \in Runtimes
         /\ Checkpoint(a).cursor = rows[a].state.cursor /\ Checkpoint(a).days = rows[a].state.days
         /\ Checkpoint(a).taken = rows[a].state.taken /\ Checkpoint(a).orders = rows[a].orders
         /\ Checkpoint(a).invalid = rows[a].state.invalid
  BY DEF TypeOK, Checkpoint, Rows, Runtimes

\* One update settles what is due and opens at most one order.
LEMMA OrdersEffect ==
  ASSUME NEW a \in Arms, NEW orders \in OrderSeqs, NEW hi \in Minutes
  PROVE  LET after == Orders(a, orders, hi)
         IN  /\ Len(orders) \in Nat
             /\ Len(after) = IF DecidesToOpen(a, hi) THEN Len(orders) + 1 ELSE Len(orders)
             /\ \A i \in 1..Len(orders) :
                   /\ after[i].at = orders[i].at
                   /\ after[i].settled <=> orders[i].settled \/ orders[i].at + Lasts <= hi
             /\ DecidesToOpen(a, hi) => after[Len(orders) + 1] = [at |-> hi, settled |-> FALSE]
<1> DEFINE settled == [i \in 1..Len(orders) |->
                         [orders[i] EXCEPT !.settled = @ \/ orders[i].at + Lasts <= hi]]
<1>1. Len(orders) \in Nat /\ \A i \in 1..Len(orders) : orders[i] \in [at : Minutes, settled : BOOLEAN]
  BY ElementOfSeq, LenProperties DEF OrderSeqs
<1>2. ASSUME NEW i \in 1..Len(orders)
      PROVE  /\ settled[i].at = orders[i].at
             /\ settled[i].settled <=> orders[i].settled \/ orders[i].at + Lasts <= hi
             /\ settled[i] \in [at : Minutes, settled : BOOLEAN]
  <2>1. ASSUME NEW o \in [at : Minutes, settled : BOOLEAN], NEW b \in BOOLEAN
        PROVE  /\ [o EXCEPT !.settled = b] \in [at : Minutes, settled : BOOLEAN]
               /\ [o EXCEPT !.settled = b].at = o.at /\ [o EXCEPT !.settled = b].settled = b
    OBVIOUS
  <2>2. (orders[i].settled \/ orders[i].at + Lasts <= hi) \in BOOLEAN
    OBVIOUS
  <2>3. settled[i] = [orders[i] EXCEPT !.settled = orders[i].settled \/ orders[i].at + Lasts <= hi]
    OBVIOUS
  <2> HIDE DEF settled
  <2>4. QED
    BY <1>1, <2>1, <2>2, <2>3
<1>3. settled \in Seq([at : Minutes, settled : BOOLEAN]) /\ Len(settled) = Len(orders)
  BY <1>1, <1>2, FunctionIsSeq
<1>4. Orders(a, orders, hi) = IF DecidesToOpen(a, hi)
                              THEN Append(settled, [at |-> hi, settled |-> FALSE]) ELSE settled
  BY DEF Orders
<1> HIDE DEF settled
<1>5. [at |-> hi, settled |-> FALSE] \in [at : Minutes, settled : BOOLEAN]
  OBVIOUS
<1>6. CASE DecidesToOpen(a, hi)
  BY <1>1, <1>2, <1>3, <1>4, <1>5, <1>6, AppendProperties
<1>7. CASE ~DecidesToOpen(a, hi)
  BY <1>1, <1>2, <1>3, <1>4, <1>7
<1>8. QED
  BY <1>6, <1>7

\* Only the orders that changed are written, and yet all are stored.
LEMMA AllOrdersStored ==
  ASSUME TypeOK, NEW a \in Arms, NEW hi \in Minutes,
         signatures[a] = Flags(rows[a].orders)
  PROVE  StoredOrders(a, Orders(a, rows[a].orders, hi)) = Orders(a, rows[a].orders, hi)
<1> DEFINE stored == rows[a].orders
           after == Orders(a, stored, hi)
<1>1. stored \in OrderSeqs /\ after \in OrderSeqs
  BY OrdersType DEF TypeOK, Rows
<1> HIDE DEF stored, after
<1>2. /\ Len(stored) \in Nat /\ Len(after) \in Nat /\ Len(stored) <= Len(after)
      /\ \A i \in 1..Len(stored) : after[i].at = stored[i].at
  <2>1. /\ Len(stored) \in Nat
        /\ Len(after) = IF DecidesToOpen(a, hi) THEN Len(stored) + 1 ELSE Len(stored)
        /\ \A i \in 1..Len(stored) : after[i].at = stored[i].at
    BY <1>1, OrdersEffect DEF after
  <2>2. QED
    BY <2>1
<1>3. \A i \in 1..Len(after) : after[i] \in [at : Minutes, settled : BOOLEAN]
  BY <1>1, ElementOfSeq DEF OrderSeqs
<1>4. \A i \in 1..Len(stored) : stored[i] \in [at : Minutes, settled : BOOLEAN]
  BY <1>1, ElementOfSeq DEF OrderSeqs
<1>5. Len(signatures[a]) = Len(stored) /\ \A i \in 1..Len(stored) : signatures[a][i] = stored[i].settled
  BY <1>2, <1>4, FunctionIsSeq DEF Flags, stored
<1>6. ASSUME NEW i \in 1..Len(after), i \notin Changed(a, after), i <= Len(stored)
      PROVE  after[i] = stored[i]
  <2>1. i \in 1..Len(stored) /\ after[i].settled = stored[i].settled
    BY <1>2, <1>5, <1>6 DEF Changed
  <2>2. \A o, p \in [at : Minutes, settled : BOOLEAN] : o.at = p.at /\ o.settled = p.settled => o = p
    OBVIOUS
  <2>3. QED
    BY <1>2, <1>3, <1>4, <2>1, <2>2
<1>7. StoredOrders(a, after) = [i \in 1..Len(after) |-> after[i]]
  BY <1>2, <1>6 DEF StoredOrders, stored
<1>8. after = [i \in 1..Len(after) |-> after[i]]
  BY <1>1, LenProperties DEF OrderSeqs
<1>9. QED
  BY <1>7, <1>8 DEF after, stored

LEMMA InitStored == Init => Stored
  BY DEF Init, Stored, RowsSound, MemoryIsStored, DownKnowsNothing, QueueIsPast, NoRows, FreshRuntime, Checkpoint,
         SameRun, None

\* Most steps leave the arms as they are, in memory and in the database.
LEMMA OtherStepsKeepStored ==
  ASSUME TypeOK, Stored, UNCHANGED <<rt, signatures, failed, rows>>, now' \in Nat, now <= now',
         \/ worker # "down" /\ worker' # "down"
         \/ UNCHANGED <<toPublish, eventQ, worker, retired, promotion, asks>>,
         QueueIsPast'
  PROVE  Stored'
<1> USE DEF Stored
<1>1. \A a \in Arms : rows[a].state.cursor \in Int /\ rows[a].last \in Int
  <2>1. \A a \in Arms : rows[a] \in Rows
    BY DEF TypeOK
  <2>2. \A w \in Rows : w.last \in None..MaxMinute /\ w.state \in Runtimes
    BY DEF Rows
  <2>3. \A r \in Runtimes : r.cursor \in None..MaxMinute
    BY DEF Runtimes
  <2>4. QED
    BY <2>1, <2>2, <2>3
<1>2. \A a \in Arms : Checkpoint(a)' = Checkpoint(a)
  BY DEF Checkpoint
<1>3. now \in Nat
  BY ExperimentAssumption DEF TypeOK, Minutes
<1>4. RowsSound'
  BY <1>1, <1>2, <1>3 DEF RowsSound
<1>5. MemoryIsStored'
  BY <1>2 DEF MemoryIsStored
<1>6. DownKnowsNothing'
  BY DEF DownKnowsNothing
<1>7. QED
  BY <1>4, <1>5, <1>6
\* The batch that is being taken is past.
LEMMA BatchIsPast ==
  ASSUME TypeOK, Stored, eventQ # <<>>
  PROVE  /\ Batch \in Batches /\ Batch.hi \in Minutes /\ Batch.lo \in Minutes /\ Batch.lo <= Batch.hi
         /\ Batch.hi <= now /\ worker # "down" /\ Batch.hi < toPublish
         /\ Tail(eventQ) = <<>>
<1>1. eventQ \in Seq(Batches) /\ Len(eventQ) <= 1
  BY DEF TypeOK
<1>2. Batch \in Batches /\ Tail(eventQ) \in Seq(Batches) /\ Len(Tail(eventQ)) = Len(eventQ) - 1
  BY <1>1, HeadTailProperties DEF Batch
<1>3. Len(eventQ) = 1 /\ Tail(eventQ) = <<>>
  BY <1>1, <1>2, LenProperties, EmptySeq
<1>4. worker # "down" /\ Batch.hi < toPublish /\ toPublish \in 1..now + 1
  BY DEF Stored, DownKnowsNothing, QueueIsPast, Batch
<1>5. Batch.hi \in Minutes /\ Batch.lo \in Minutes /\ Batch.lo <= Batch.hi
  BY <1>2 DEF Batches
<1>6. now \in Nat /\ Batch.hi \in Nat
  BY <1>5, ExperimentAssumption DEF TypeOK, Minutes
<1>7. QED
  BY <1>2, <1>3, <1>4, <1>5, <1>6

LEMMA StartKeepsStored == TypeOK /\ Stored /\ Start => Stored'
<1> SUFFICES ASSUME TypeOK, Stored, Start
             PROVE  Stored'
  OBVIOUS
<1>1. PICK seed \in -1..now - 1, same \in BOOLEAN :
          /\ \E first \in seed + 1..now : eventQ' = <<[lo |-> first, hi |-> now]>>
          /\ BuildOptimizer(seed, same)
  BY DEF Start
<1>2. now \in Nat /\ now' = now /\ toPublish' = now + 1 /\ worker' = "idle" /\ failed' = {}
  BY <1>1, ExperimentAssumption DEF Start, BuildOptimizer, TypeOK, Minutes
<1>3. QueueIsPast' /\ DownKnowsNothing'
  BY <1>1, <1>2 DEF QueueIsPast, DownKnowsNothing
<1>4. CASE same /\ Reusable(seed)
  <2>1. /\ rows' = rows /\ rt' = [a \in Arms |-> Recovered(a, seed)]
        /\ signatures' = [a \in Arms |-> Flags(rows[a].orders)]
    BY <1>1, <1>4 DEF BuildOptimizer, disk
  <2>2. RowsSound'
    BY <1>2, <2>1 DEF RowsSound, Stored, Checkpoint
  <2>3. ASSUME NEW a \in Arms
        PROVE  /\ SameRun(rt'[a], Checkpoint(a))
               /\ rows[a].state.invalid => rt'[a].invalid
               /\ rt'[a].invalid => rt'[a].cursor # None
    <3>1. CASE rows[a].last = None
      <4>1. rt'[a] = FreshRuntime /\ SameRun(Checkpoint(a), FreshRuntime) /\ ~rows[a].state.invalid
        BY <2>1, <3>1 DEF Recovered, Stored, RowsSound
      <4>2. QED
        BY <4>1 DEF SameRun, FreshRuntime
    <3>2. CASE rows[a].last # None
      <4>1. rt'[a] = [Checkpoint(a) EXCEPT !.invalid = @ \/ seed > Checkpoint(a).cursor]
        BY <2>1, <3>2 DEF Recovered
      <4>2. \A r \in Runtimes, b \in BOOLEAN :
               SameRun([r EXCEPT !.invalid = b], r) /\ [r EXCEPT !.invalid = b].invalid = b
        BY DEF Runtimes, SameRun
      <4>3. /\ (Checkpoint(a).invalid \/ seed > Checkpoint(a).cursor) \in BOOLEAN
            /\ Checkpoint(a) \in Runtimes /\ Checkpoint(a).invalid = rows[a].state.invalid
            /\ Checkpoint(a).cursor = rows[a].state.cursor /\ rows[a].state.cursor # None
        BY <3>2, CheckpointFields DEF Stored, RowsSound
      <4>4. QED
        BY <4>1, <4>2, <4>3 DEF SameRun
    <3>3. QED
      BY <3>1, <3>2
  <2>4. \A a \in Arms : Checkpoint(a)' = Checkpoint(a)
    BY <2>1 DEF Checkpoint
  <2>5. MemoryIsStored'
    BY <2>1, <2>3, <2>4 DEF MemoryIsStored
  <2>6. QED
    BY <1>3, <2>2, <2>5 DEF Stored
<1>5. CASE ~(same /\ Reusable(seed))
  <2>1. /\ rows' = [a \in Arms |-> NoRows] /\ rt' = [a \in Arms |-> FreshRuntime]
        /\ signatures' = [a \in Arms |-> <<>>]
    BY <1>1, <1>5 DEF BuildOptimizer, CreateExperiment
  <2>2. \A a \in Arms : /\ SameRun(Checkpoint(a)', FreshRuntime) /\ SameRun(rt'[a], Checkpoint(a)')
                        /\ rows'[a].last = None /\ rows'[a].state = FreshRuntime
                        /\ rows'[a].orders = <<>>
    BY <2>1 DEF Checkpoint, SameRun, NoRows, FreshRuntime
  <2>3. FreshRuntime.cursor = None /\ ~FreshRuntime.invalid /\ None <= now
    BY <1>2 DEF FreshRuntime, None
  <2>4. Flags(<<>>) = <<>>
    BY DEF Flags
  <2>5. RowsSound' /\ MemoryIsStored'
    BY <1>2, <2>1, <2>2, <2>3, <2>4 DEF RowsSound, MemoryIsStored
  <2>6. QED
    BY <1>3, <2>5 DEF Stored
<1>6. QED
  BY <1>4, <1>5

\* An arm commits what it processed, or nothing.
LEMMA TakesEffect ==
  ASSUME TypeOK, Stored, ArmTakes
  PROVE  LET processed == Process(next, rt[next], Batch)
         IN  /\ next \in Arms \ Skipped /\ worker = "batch" /\ eventQ # <<>>
             /\ ~rt[next].invalid /\ ~Known(rt[next], Batch) /\ Continues(rt[next], Batch)
             /\ signatures' = [signatures EXCEPT ![next] = Flags(processed.orders)]
             /\ \/ /\ rt' = [rt EXCEPT ![next] = processed] /\ failed' = failed
                   /\ rows' = [rows EXCEPT ![next] =
                                 [last |-> Batch.hi, state |-> [processed EXCEPT !.orders = <<>>],
                                  orders |-> processed.orders, gaps |-> rows[next].gaps]]
                \/ /\ rt' = [rt EXCEPT ![next] = [processed EXCEPT !.invalid = TRUE]]
                   /\ failed' = failed \cup {next} /\ rows' = rows
<1> DEFINE processed == Process(next, rt[next], Batch)
<1>1. /\ next \in Arms \ Skipped /\ worker = "batch" /\ eventQ # <<>>
      /\ ~rt[next].invalid /\ ~Known(rt[next], Batch) /\ Continues(rt[next], Batch)
      /\ signatures' = [signatures EXCEPT ![next] = Flags(processed.orders)]
  BY DEF ArmTakes, Turn, TypeOK
<1>2. processed.orders = Orders(next, rt[next].orders, Batch.hi)
  BY <1>1 DEF Process, TypeOK, Runtimes
<1>3. rt[next].orders = rows[next].orders /\ signatures[next] = Flags(rows[next].orders)
  BY <1>1, CheckpointFields DEF Stored, MemoryIsStored, SameRun, Skipped
<1>4. StoredOrders(next, processed.orders) = processed.orders
  BY <1>1, <1>2, <1>3, BatchIsPast, AllOrdersStored
<1>5. Bundle(next, processed, Batch.hi) =
        [last |-> Batch.hi, state |-> [processed EXCEPT !.orders = <<>>],
         orders |-> processed.orders, gaps |-> rows[next].gaps]
  BY <1>4 DEF Bundle
<1> HIDE DEF processed
<1>6. \/ /\ rows' = [rows EXCEPT ![next] = Bundle(next, processed, Batch.hi)]
         /\ rt' = [rt EXCEPT ![next] = processed] /\ failed' = failed
      \/ /\ rows' = rows /\ failed' = failed \cup {next}
         /\ rt' = [rt EXCEPT ![next] = [processed EXCEPT !.invalid = TRUE]]
  BY DEF ArmTakes, FailedWrite, processed
<1>7. QED
  BY <1>1, <1>5, <1>6 DEF processed
LEMMA TakesKeepStored == TypeOK /\ Stored /\ ArmTakes => Stored'
<1> SUFFICES ASSUME TypeOK, Stored, ArmTakes
             PROVE  Stored'
  OBVIOUS
<1> DEFINE processed == Process(next, rt[next], Batch)
<1>1. /\ next \in Arms \ Skipped /\ worker = "batch" /\ eventQ # <<>> /\ ~rt[next].invalid
      /\ signatures' = [signatures EXCEPT ![next] = Flags(processed.orders)]
      /\ \/ /\ rt' = [rt EXCEPT ![next] = processed] /\ failed' = failed
            /\ rows' = [rows EXCEPT ![next] =
                          [last |-> Batch.hi, state |-> [processed EXCEPT !.orders = <<>>],
                           orders |-> processed.orders, gaps |-> rows[next].gaps]]
         \/ /\ rt' = [rt EXCEPT ![next] = [processed EXCEPT !.invalid = TRUE]]
            /\ failed' = failed \cup {next} /\ rows' = rows
  BY TakesEffect
<1>2. /\ rt \in [Arms -> Runtimes] /\ rows \in [Arms -> Rows] /\ signatures \in [Arms -> Seq(BOOLEAN)]
      /\ rt[next] \in Runtimes /\ next \in Arms
  BY <1>1 DEF TypeOK
<1>3. Batch \in Batches /\ Batch.hi \in Nat /\ Batch.hi <= now
  BY <1>1, BatchIsPast, ExperimentAssumption DEF Minutes
<1>4. processed \in Runtimes /\ processed.cursor = Batch.hi /\ ~processed.invalid
  BY <1>1, <1>2, <1>3, ProcessType DEF Process, Runtimes
<1>5. UNCHANGED <<now, toPublish, eventQ, worker, retired, promotion, asks>>
  BY DEF ArmTakes, monitor
<1>6. DownKnowsNothing' /\ QueueIsPast'
  BY <1>1, <1>5 DEF Stored, DownKnowsNothing, QueueIsPast
<1> HIDE DEF processed
<1>7. CASE rows' = rows /\ failed' = failed \cup {next}
  <2>1. \A a \in Arms : Checkpoint(a)' = Checkpoint(a)
    BY <1>7 DEF Checkpoint
  <2>2. RowsSound'
    BY <1>5, <1>7, <2>1 DEF RowsSound, Stored
  <2>3. \A a \in Arms \ failed' : rt'[a] = rt[a] /\ signatures'[a] = signatures[a] /\ a \notin failed
    BY <1>1, <1>2, <1>7
  <2>4. MemoryIsStored'
    BY <1>5, <1>7, <2>1, <2>3 DEF MemoryIsStored, Stored
  <2>5. QED
    BY <1>6, <2>2, <2>4 DEF Stored
<1>8. CASE /\ rt' = [rt EXCEPT ![next] = processed] /\ failed' = failed
           /\ rows' = [rows EXCEPT ![next] =
                         [last |-> Batch.hi, state |-> [processed EXCEPT !.orders = <<>>],
                          orders |-> processed.orders, gaps |-> rows[next].gaps]]
  <2>1. /\ [processed EXCEPT !.orders = <<>>] \in Runtimes
        /\ \A o \in OrderSeqs : [[processed EXCEPT !.orders = <<>>] EXCEPT !.orders = o]
                                  = [processed EXCEPT !.orders = o]
        /\ [processed EXCEPT !.orders = processed.orders] = processed
        /\ [processed EXCEPT !.orders = <<>>].cursor = Batch.hi
        /\ ~[processed EXCEPT !.orders = <<>>].invalid
        /\ processed.orders \in OrderSeqs
    BY <1>4, EmptySeq DEF Runtimes, OrderSeqs
  <2>2. /\ rows'[next].last = Batch.hi /\ rows'[next].state = [processed EXCEPT !.orders = <<>>]
        /\ rows'[next].orders = processed.orders
        /\ rt'[next] = processed /\ signatures'[next] = Flags(processed.orders)
    BY <1>1, <1>2, <1>8
  <2>3. \A a \in Arms : a = next => Checkpoint(a)' = processed
    BY <2>1, <2>2 DEF Checkpoint
  <2>4. \A a \in Arms \ {next} : /\ rows'[a] = rows[a] /\ rt'[a] = rt[a]
                                 /\ signatures'[a] = signatures[a]
    BY <1>1, <1>2, <1>8
  <2>5. \A a \in Arms \ {next} : Checkpoint(a)' = Checkpoint(a)
    BY <2>4 DEF Checkpoint
  <2>6. Batch.hi # None
    BY <1>3 DEF None
  <2>7. RowsSound'
    <3> SUFFICES ASSUME NEW a \in Arms
                 PROVE  /\ rows'[a].last = None =>
                              SameRun(Checkpoint(a)', FreshRuntime) /\ ~rows'[a].state.invalid
                        /\ rows'[a].last # None => rows'[a].state.cursor # None
                        /\ ~rows'[a].state.invalid => rows'[a].state.cursor = rows'[a].last
                        /\ rows'[a].state.cursor <= now' /\ rows'[a].last <= now'
      BY DEF RowsSound
    <3>1. CASE a = next
      BY <1>3, <1>5, <2>1, <2>2, <2>6, <3>1
    <3>2. CASE a # next
      BY <1>5, <2>4, <2>5, <3>2 DEF RowsSound, Stored
    <3>3. QED
      BY <3>1, <3>2
  <2>8. MemoryIsStored'
    <3> SUFFICES ASSUME NEW a \in Arms \ failed'
                 PROVE  /\ SameRun(rt'[a], Checkpoint(a)')
                        /\ rows'[a].state.invalid => rt'[a].invalid
                        /\ rt'[a].invalid => rt'[a].cursor # None
                        /\ signatures'[a] = Flags(rows'[a].orders)
      BY DEF MemoryIsStored
    <3>1. CASE a = next
      BY <1>4, <2>1, <2>2, <2>3, <3>1 DEF SameRun
    <3>2. CASE a # next
      BY <1>1, <1>8, <2>4, <2>5, <3>2 DEF MemoryIsStored, Stored
    <3>3. QED
      BY <3>1, <3>2
  <2>9. QED
    BY <1>6, <2>7, <2>8 DEF Stored
<1>9. QED
  BY <1>1, <1>7, <1>8

\* A gap freezes an arm in memory, and in the database if the event is new.
LEMMA FreezesEffect ==
  ASSUME TypeOK, Stored, ArmFreezes
  PROVE  LET r == [rt[next] EXCEPT !.invalid = TRUE]
         IN  /\ next \in Arms \ Skipped /\ worker = "batch" /\ eventQ # <<>>
             /\ rt[next].cursor # None
             /\ rt' = [rt EXCEPT ![next] = r]
             /\ \/ /\ failed' = failed
                   /\ rows' = [rows EXCEPT ![next] = [rows[next] EXCEPT
                                 !.last = Batch.hi, !.state = [r EXCEPT !.orders = <<>>],
                                 !.gaps = @ + 1]]
                \/ failed' \in {failed, failed \cup {next}} /\ rows' = rows
<1>1. next \in Arms \ Skipped /\ worker = "batch" /\ eventQ # <<>>
  BY DEF ArmFreezes, Turn, TypeOK
<1>2. rt[next].cursor # None
  BY <1>1 DEF ArmFreezes, Continues, Stored, MemoryIsStored, Skipped
<1>3. QED
  BY <1>1, <1>2 DEF ArmFreezes, GapBundle

LEMMA FreezesKeepStored == TypeOK /\ Stored /\ ArmFreezes => Stored'
<1> SUFFICES ASSUME TypeOK, Stored, ArmFreezes
             PROVE  Stored'
  OBVIOUS
<1> DEFINE r == [rt[next] EXCEPT !.invalid = TRUE]
<1>1. /\ next \in Arms \ Skipped /\ worker = "batch" /\ eventQ # <<>> /\ rt[next].cursor # None
      /\ rt' = [rt EXCEPT ![next] = r]
      /\ \/ /\ failed' = failed
            /\ rows' = [rows EXCEPT ![next] = [rows[next] EXCEPT
                          !.last = Batch.hi, !.state = [r EXCEPT !.orders = <<>>],
                          !.gaps = @ + 1]]
         \/ failed' \in {failed, failed \cup {next}} /\ rows' = rows
  BY FreezesEffect
<1>2. /\ rt \in [Arms -> Runtimes] /\ rows \in [Arms -> Rows]
      /\ rt[next] \in Runtimes /\ rows[next] \in Rows /\ next \in Arms /\ next \notin failed
  BY <1>1 DEF TypeOK, Skipped
<1>3. Batch.hi \in Nat /\ Batch.hi <= now
  BY <1>1, BatchIsPast, ExperimentAssumption DEF Minutes
<1>4. /\ r \in Runtimes /\ SameRun(r, rt[next]) /\ r.invalid
      /\ [r EXCEPT !.orders = <<>>].cursor = rt[next].cursor
      /\ [r EXCEPT !.orders = <<>>].days = rt[next].days
      /\ [r EXCEPT !.orders = <<>>].taken = rt[next].taken
      /\ [r EXCEPT !.orders = <<>>].invalid
  BY <1>2 DEF Runtimes, SameRun
<1>5. UNCHANGED <<now, toPublish, eventQ, worker, retired, promotion, asks, signatures>>
  BY DEF ArmFreezes, monitor
<1>6. DownKnowsNothing' /\ QueueIsPast'
  BY <1>1, <1>5 DEF Stored, DownKnowsNothing, QueueIsPast
<1>7. SameRun(rt[next], Checkpoint(next))
  BY <1>1, <1>2 DEF Stored, MemoryIsStored
<1> HIDE DEF r
<1>8. CASE failed' \in {failed, failed \cup {next}} /\ rows' = rows
  <2>1. \A a \in Arms : Checkpoint(a)' = Checkpoint(a)
    BY <1>8 DEF Checkpoint
  <2>2. RowsSound'
    BY <1>5, <1>8, <2>1 DEF RowsSound, Stored
  <2>3. \A a \in Arms : a # next => rt'[a] = rt[a]
    BY <1>1, <1>2
  <2>4. SameRun(rt'[next], rt[next]) /\ rt'[next].invalid
    BY <1>1, <1>2, <1>4
  <2>5. MemoryIsStored'
    BY <1>1, <1>5, <1>8, <2>1, <2>3, <2>4 DEF MemoryIsStored, Stored, SameRun
  <2>6. QED
    BY <1>6, <2>2, <2>5 DEF Stored
<1>9. CASE /\ failed' = failed
           /\ rows' = [rows EXCEPT ![next] = [rows[next] EXCEPT
                         !.last = Batch.hi, !.state = [r EXCEPT !.orders = <<>>],
                         !.gaps = @ + 1]]
  <2>1. /\ rows'[next].last = Batch.hi /\ rows'[next].state = [r EXCEPT !.orders = <<>>]
        /\ rows'[next].orders = rows[next].orders
        /\ rt'[next] = r
    BY <1>1, <1>2, <1>9 DEF Rows
  <2>2. [r EXCEPT !.orders = <<>>] \in Runtimes
    BY <1>4, EmptySeq DEF Runtimes, OrderSeqs
  <2>3. \A a \in Arms : a = next =>
           /\ Checkpoint(a)'.cursor = rt[a].cursor /\ Checkpoint(a)'.days = rt[a].days
           /\ Checkpoint(a)'.taken = rt[a].taken /\ Checkpoint(a)'.orders = rows[a].orders
    <3>1. \A a \in Arms : a = next =>
             Checkpoint(a)' = [[r EXCEPT !.orders = <<>>] EXCEPT !.orders = rows[next].orders]
      BY <2>1 DEF Checkpoint
    <3>2. QED
      BY <1>4, <2>2, <3>1 DEF Runtimes
  <2>4. \A a \in Arms \ {next} : rows'[a] = rows[a] /\ rt'[a] = rt[a]
    BY <1>1, <1>2, <1>9
  <2>5. \A a \in Arms \ {next} : Checkpoint(a)' = Checkpoint(a)
    BY <2>4 DEF Checkpoint
  <2>6. Batch.hi # None
    BY <1>3 DEF None
  <2>7. rt[next].cursor <= now
    BY <1>2, <1>7, CheckpointFields DEF SameRun, Stored, RowsSound
  <2>8. RowsSound'
    <3> SUFFICES ASSUME NEW a \in Arms
                 PROVE  /\ rows'[a].last = None =>
                              SameRun(Checkpoint(a)', FreshRuntime) /\ ~rows'[a].state.invalid
                        /\ rows'[a].last # None => rows'[a].state.cursor # None
                        /\ ~rows'[a].state.invalid => rows'[a].state.cursor = rows'[a].last
                        /\ rows'[a].state.cursor <= now' /\ rows'[a].last <= now'
      BY DEF RowsSound
    <3>1. CASE a = next
      BY <1>1, <1>3, <1>4, <1>5, <2>1, <2>6, <2>7, <3>1
    <3>2. CASE a # next
      BY <1>5, <2>4, <2>5, <3>2 DEF RowsSound, Stored
    <3>3. QED
      BY <3>1, <3>2
  <2>9. \A a \in Arms : a = next =>
           SameRun(rt'[a], Checkpoint(a)') /\ rt'[a].invalid /\ rt'[a].cursor # None
    BY <1>1, <1>2, <1>4, <1>7, <2>1, <2>3, CheckpointFields DEF SameRun
  <2>10. signatures[next] = Flags(rows[next].orders)
    BY <1>1, <1>2 DEF Stored, MemoryIsStored
  <2>11. MemoryIsStored'
    BY <1>5, <1>9, <2>1, <2>4, <2>5, <2>9, <2>10 DEF MemoryIsStored, Stored
  <2>12. QED
    BY <1>6, <2>8, <2>11 DEF Stored
<1>10. QED
  BY <1>1, <1>8, <1>9

LEMMA AnalyserKeepsStored == TypeOK /\ Stored /\ AnalyserFails => Stored'
<1> SUFFICES ASSUME TypeOK, Stored, AnalyserFails
             PROVE  Stored'
  OBVIOUS
<1>1. /\ worker = "idle" /\ worker' = "batch" /\ UNCHANGED <<now, toPublish, eventQ, signatures, rows>>
      /\ failed \subseteq failed' /\ \A a \in Arms : a \notin failed' => rt'[a] = rt[a]
  BY AnalyserEffect DEF monitor, disk
<1>2. \A a \in Arms : Checkpoint(a)' = Checkpoint(a)
  BY <1>1 DEF Checkpoint
<1>3. RowsSound'
  BY <1>1, <1>2 DEF RowsSound, Stored
<1>4. MemoryIsStored'
  BY <1>1, <1>2 DEF MemoryIsStored, Stored
<1>5. DownKnowsNothing' /\ QueueIsPast'
  BY <1>1 DEF Stored, DownKnowsNothing, QueueIsPast
<1>6. QED
  BY <1>3, <1>4, <1>5 DEF Stored

LEMMA StopKeepsStored == TypeOK /\ Stored /\ Stop => Stored'
<1> SUFFICES ASSUME TypeOK, Stored, Stop
             PROVE  Stored'
  OBVIOUS
<1>1. /\ worker' = "down" /\ now' = now /\ rows' = rows /\ eventQ' = <<>> /\ toPublish' = None
      /\ rt' = [a \in Arms |-> FreshRuntime] /\ failed' = {} /\ retired' = {}
      /\ promotion' = Nothing /\ asks' = Nothing
  BY DEF Stop, disk
<1>2. RowsSound'
  BY <1>1 DEF RowsSound, Stored, Checkpoint
<1>3. MemoryIsStored' /\ DownKnowsNothing' /\ QueueIsPast'
  BY <1>1 DEF MemoryIsStored, DownKnowsNothing, QueueIsPast
<1>4. QED
  BY <1>2, <1>3 DEF Stored

LEMMA StepKeepsStored == TypeOK /\ Stored /\ [Next]_vars => Stored'
<1> SUFFICES ASSUME TypeOK, Stored, [Next]_vars
             PROVE  Stored'
  OBVIOUS
<1>1. now \in Nat /\ eventQ \in Seq(Batches)
  BY ExperimentAssumption DEF TypeOK, Minutes
<1>2. CASE Tick
  <2>1. QueueIsPast'
    BY <1>1, <1>2 DEF Stored, QueueIsPast, Tick, memory
  <2>2. QED
    BY <1>1, <1>2, <2>1, OtherStepsKeepStored DEF Tick, memory, disk
<1>3. CASE Publish
  <2>1. worker # "down"
    BY <1>3 DEF Publish, Stored, DownKnowsNothing
  <2>2. QueueIsPast'
    <3>1. PICK hi \in toPublish..now :
            /\ toPublish' = hi + 1
            /\ IF eventQ = <<>>
               THEN eventQ' = <<[lo |-> toPublish, hi |-> hi]>> /\ UNCHANGED faults
               ELSE Fault /\ UNCHANGED eventQ
      BY <1>3 DEF Publish
    <3>2. toPublish \in 1..now + 1 /\ now' = now
      BY <1>3, <2>1 DEF Publish, Stored, QueueIsPast
    <3>3. toPublish' \in 1..now' + 1 /\ toPublish < toPublish'
      BY <1>1, <3>1, <3>2
    <3>4. CASE eventQ = <<>>
      <4>1. Head(eventQ').hi = hi
        BY <3>1, <3>4
      <4>2. QED
        BY <1>1, <3>1, <3>2, <3>3, <4>1 DEF QueueIsPast
    <3>5. CASE eventQ # <<>>
      <4>1. eventQ' = eventQ /\ Head(eventQ).hi \in Int /\ Head(eventQ).hi < toPublish
        BY <3>1, <3>5, BatchIsPast, ExperimentAssumption DEF Batch, Minutes
      <4>2. QED
        BY <1>1, <3>2, <3>3, <4>1 DEF QueueIsPast
    <3>6. QED
      BY <3>4, <3>5
  <2>3. QED
    BY <1>1, <1>3, <2>1, <2>2, OtherStepsKeepStored DEF Publish, memory, disk
<1>4. CASE TakeBatch \/ ArmSkips
  <2>1. worker # "down" /\ worker' # "down" /\ UNCHANGED <<now, toPublish, eventQ>>
    BY <1>4 DEF TakeBatch, ArmSkips, Turn, monitor
  <2>2. QED
    BY <1>1, <1>4, <2>1, OtherStepsKeepStored DEF TakeBatch, ArmSkips, monitor, disk, Stored, QueueIsPast
<1>5. CASE EndBatch
  <2>1. worker # "down" /\ worker' # "down" /\ UNCHANGED <<now, toPublish>> /\ eventQ' = <<>>
    BY <1>5, BatchIsPast DEF EndBatch, monitor, TypeOK
  <2>2. QED
    BY <1>1, <1>5, <2>1, OtherStepsKeepStored DEF EndBatch, monitor, disk, Stored, QueueIsPast
<1>6. CASE Applied \/ Refused
  <2>1. worker # "down" /\ worker' # "down" /\ UNCHANGED <<now, toPublish, eventQ>>
    BY <1>6 DEF Applied, Refused, monitor
  <2>2. QED
    BY <1>1, <1>6, <2>1, OtherStepsKeepStored DEF Applied, Refused, monitor, disk, Stored, QueueIsPast
<1>7. CASE UNCHANGED vars
  BY <1>1, <1>7, OtherStepsKeepStored DEF vars, memory, disk, monitor, Stored, QueueIsPast
<1>8. QED
  BY <1>2, <1>3, <1>4, <1>5, <1>6, <1>7, StartKeepsStored, StopKeepsStored, TakesKeepStored,
     FreezesKeepStored, AnalyserKeepsStored DEF Next, Service, Arm

LEMMA AlwaysStored == Spec => []Stored
  BY InitStored, StepKeepsStored, ExperimentTypeCorrect, PTL DEF Spec

\* Only a gap in the minutes freezes an arm: an experiment is taken up again
\* only for a seed that is not ahead of an arm, and an arm whose state is sound
\* stands where its last event does.
THEOREM RestartsFreezeNoArm == Spec => RestartFreezesNone
<1>1. ASSUME TypeOK, Stored, [Next]_vars
      PROVE  [worker = "down" /\ worker' = "idle" =>
                \A a \in Arms : rt'[a].invalid => rows[a].state.invalid]_vars
  <2> SUFFICES ASSUME Next, worker = "down", worker' = "idle", NEW a \in Arms, rt'[a].invalid
               PROVE  rows[a].state.invalid
    BY <1>1
  <2>1. Start
    BY <1>1 DEF Next, Service, Tick, Publish, Stop, TakeBatch, AnalyserFails, Arm, ArmSkips, ArmTakes,
           ArmFreezes, Turn, EndBatch, Applied, Refused, memory
  <2>2. PICK seed \in -1..now - 1, same \in BOOLEAN : BuildOptimizer(seed, same)
    BY <2>1 DEF Start
  <2>3. ~FreshRuntime.invalid
    BY DEF FreshRuntime
  <2>4. same /\ Reusable(seed) /\ rt'[a] = Recovered(a, seed)
    BY <2>2, <2>3 DEF BuildOptimizer
  <2>5. rows[a].last # None /\ ~(seed > rows[a].last)
    BY <2>3, <2>4 DEF Recovered, Reusable, SeedAhead, Cursors
  <2>6. Checkpoint(a) \in Runtimes /\ Checkpoint(a).invalid = rows[a].state.invalid
        /\ Checkpoint(a).cursor = rows[a].state.cursor
    BY <1>1, CheckpointFields
  <2>7. rt'[a] = [Checkpoint(a) EXCEPT !.invalid = Checkpoint(a).invalid \/ seed > Checkpoint(a).cursor]
    BY <2>4, <2>5 DEF Recovered
  <2>8. Checkpoint(a).invalid \/ seed > Checkpoint(a).cursor
    BY <2>6, <2>7 DEF Runtimes
  <2>9. QED
    BY <1>1, <2>5, <2>6, <2>8 DEF Stored, RowsSound
<1>2. QED
  BY <1>1, AlwaysStored, ExperimentTypeCorrect, PTL DEF Spec, RestartFreezesNone
-----------------------------------------------------------------------------
(* Proof: the lifecycle *)

\* What the end of a batch at minute t sets aside, and what it asks for.
Evaluated(s, t) == s \in [from : {champion}, to : Eligible] /\ ~InCooldown(t)

AsksRollback(t) ==
    /\ exp.history # <<>> /\ LatestChange.kind = "PROMOTION" /\ LatestChange.to = champion
    /\ asks' = [kind |-> "ROLLBACK", from |-> champion, to |-> LatestChange.from, at |-> t]

AsksPromotion(s, t) ==
    /\ \/ s = promotion /\ promotion # Nothing
       \/ Evaluated(s, t)
    /\ asks' = [kind |-> "PROMOTION", from |-> s.from, to |-> s.to, at |-> t]
    /\ promotion' = Nothing

LEMMA EndOutcome ==
  ASSUME TypeOK, EndBatch
  PROVE  LET t == Batch.hi
         IN  /\ \/ promotion' = Nothing
                \/ Evaluated(promotion', t)
                \/ promotion' = promotion /\ asks' = asks
             /\ \/ asks' = asks
                \/ asks = Nothing /\ AsksRollback(t)
                \/ asks = Nothing /\ \E s : AsksPromotion(s, t)
<1> DEFINE t == Batch.hi
<1>1. PICK rollback \in Rollbacks(t),
           selected \in IF EvaluationDue(t) THEN Selected(t) ELSE {promotion, Nothing} :
         /\ ~EvaluationDue(t) => selected = IF rollback = Nothing THEN promotion ELSE Nothing
         /\ LET activates == /\ ActivationDue(t) /\ selected # Nothing
                             /\ asks = Nothing /\ rollback = Nothing
            IN  /\ promotion' = IF activates THEN Nothing ELSE selected
                /\ asks' = IF activates
                           THEN [kind |-> "PROMOTION", from |-> selected.from,
                                 to |-> selected.to, at |-> t]
                           ELSE IF rollback # Nothing THEN rollback ELSE asks
  BY DEF EndBatch
<1> HIDE DEF t
<1>2. selected # Nothing => Evaluated(selected, t) \/ (selected = promotion /\ rollback = Nothing)
  BY <1>1 DEF Selected, Evaluated
<1>3. rollback # Nothing =>
         /\ asks = Nothing /\ exp.history # <<>>
         /\ LatestChange.kind = "PROMOTION" /\ LatestChange.to = champion
         /\ rollback = [kind |-> "ROLLBACK", from |-> champion, to |-> LatestChange.from, at |-> t]
  BY <1>1 DEF Rollbacks
<1>4. CASE ActivationDue(t) /\ selected # Nothing /\ asks = Nothing /\ rollback = Nothing
  BY <1>1, <1>2, <1>4 DEF AsksPromotion, t
<1>5. CASE ~(ActivationDue(t) /\ selected # Nothing /\ asks = Nothing /\ rollback = Nothing)
  <2>1. promotion' = selected /\ asks' = IF rollback # Nothing THEN rollback ELSE asks
    BY <1>1, <1>5
  <2>2. QED
    BY <1>2, <1>3, <2>1 DEF AsksRollback, t
<1>6. QED
  BY <1>4, <1>5

\* A change that is recorded becomes the latest.
LEMMA RecordEffect ==
  ASSUME TypeOK, Applied
  PROVE  /\ asks \in Requests /\ asks.from = champion /\ asks' = Nothing /\ worker = "idle"
         /\ UNCHANGED <<now, toPublish, eventQ, worker, rt, failed, rows, promotion>>
         /\ \E at \in asks.at..now :
              LET new == [kind |-> asks.kind, from |-> asks.from, to |-> asks.to, at |-> at]
              IN  /\ new \in Requests
                  /\ exp'.history = Append(exp.history, new)
                  /\ Len(exp'.history) = Len(exp.history) + 1 /\ exp'.history \in Seq(Requests)
                  /\ \A i \in 1..Len(exp.history) : exp'.history[i] = exp.history[i]
                  /\ exp'.history[Len(exp.history) + 1] = new
                  /\ exp'.champion = asks.to /\ champion' = asks.to
                  /\ exp'.retired = IF asks.kind = "ROLLBACK" THEN exp.retired \cup {asks.from}
                                                              ELSE exp.retired
                  /\ retired' = IF asks.kind = "ROLLBACK" THEN retired \cup {asks.from} ELSE retired
<1>1. asks \in Requests /\ asks.from = champion /\ asks' = Nothing /\ worker = "idle"
      /\ UNCHANGED <<now, toPublish, eventQ, worker, rt, failed, rows, promotion>>
  BY DEF TypeOK, Applied, monitor
<1>2. PICK at \in asks.at..now : Record(at)
  BY DEF Applied
<1> DEFINE new == [kind |-> asks.kind, from |-> asks.from, to |-> asks.to, at |-> at]
<1>3. new \in Requests
  BY <1>1, <1>2, ExperimentAssumption DEF Requests, TypeOK, Minutes
<1>4. exp \in Experiments /\ exp.history \in Seq(Requests)
  BY DEF TypeOK, Experiments
<1>5. /\ exp'.history = Append(exp.history, new)
      /\ exp'.champion = asks.to /\ champion' = asks.to
      /\ exp'.retired = IF asks.kind = "ROLLBACK" THEN exp.retired \cup {asks.from} ELSE exp.retired
      /\ retired' = IF asks.kind = "ROLLBACK" THEN retired \cup {asks.from} ELSE retired
  BY <1>2, <1>4 DEF Record, Experiments
<1> HIDE DEF new
<1>6. /\ Len(exp'.history) = Len(exp.history) + 1 /\ exp'.history \in Seq(Requests)
      /\ \A i \in 1..Len(exp.history) : exp'.history[i] = exp.history[i]
      /\ exp'.history[Len(exp.history) + 1] = new
  BY <1>3, <1>4, <1>5, AppendProperties
<1>7. QED
  BY <1>1, <1>2, <1>3, <1>5, <1>6 DEF new

LEMMA InitLifecycle == Init => Lifecycle
  BY DEF Init, Lifecycle, LifecycleRecorded, RequestsSound

LEMMA OtherStepsKeepLifecycle ==
  ASSUME Lifecycle, UNCHANGED <<exp, champion, retired, promotion, asks>>,
         worker' # "down" => worker # "down"
  PROVE  Lifecycle'
  BY DEF Lifecycle, LifecycleRecorded, RequestsSound, LatestChange, Last

LEMMA StartKeepsLifecycle == TypeOK /\ Lifecycle /\ Start => Lifecycle'
<1> SUFFICES ASSUME TypeOK, Lifecycle, Start
             PROVE  Lifecycle'
  OBVIOUS
<1>1. PICK seed \in -1..now - 1, same \in BOOLEAN : BuildOptimizer(seed, same)
  BY DEF Start
<1>2. promotion' = Nothing /\ asks' = Nothing
  BY <1>1 DEF BuildOptimizer
<1>3. CASE same /\ Reusable(seed)
  BY <1>1, <1>2, <1>3 DEF BuildOptimizer, disk, Lifecycle, LifecycleRecorded, RequestsSound,
                          LatestChange
<1>4. CASE ~(same /\ Reusable(seed))
  <2>1. /\ exp' = [id |-> exp.id + 1, effectiveFrom |-> seed + 1, champion |-> 1,
                   retired |-> {}, history |-> <<>>]
        /\ champion' = 1 /\ retired' = {}
    BY <1>1, <1>4 DEF BuildOptimizer, CreateExperiment
  <2>2. exp'.champion = 1 /\ exp'.retired = {} /\ exp'.history = <<>>
    BY <2>1
  <2>3. QED
    BY <1>2, <2>1, <2>2 DEF Lifecycle, LifecycleRecorded, RequestsSound
<1>5. QED
  BY <1>3, <1>4

LEMMA EndKeepsLifecycle == TypeOK /\ Stored /\ Lifecycle /\ EndBatch => Lifecycle'
<1> SUFFICES ASSUME TypeOK, Stored, Lifecycle, EndBatch
             PROVE  Lifecycle'
  OBVIOUS
<1> USE DEF Lifecycle
<1>1. worker # "down" /\ UNCHANGED <<exp, champion, retired>>
  BY DEF EndBatch, disk
<1>2. LifecycleRecorded'
  BY <1>1 DEF LifecycleRecorded, LatestChange
<1>3. /\ \/ promotion' = Nothing
         \/ Evaluated(promotion', Batch.hi)
         \/ promotion' = promotion /\ asks' = asks
      /\ \/ asks' = asks
         \/ asks = Nothing /\ AsksRollback(Batch.hi)
         \/ asks = Nothing /\ \E s : AsksPromotion(s, Batch.hi)
  BY EndOutcome
<1>4. \A s : Evaluated(s, Batch.hi) => s.from = champion /\ s.to \notin retired /\ s.to # champion
  BY DEF Evaluated, Eligible
<1>5. asks' # Nothing => asks'.to \notin retired' /\ asks'.from # asks'.to
  <2>1. CASE asks' = asks
    BY <1>1, <2>1 DEF RequestsSound
  <2>2. CASE AsksRollback(Batch.hi)
    BY <1>1, <2>2 DEF AsksRollback, LifecycleRecorded
  <2>3. CASE \E s : AsksPromotion(s, Batch.hi)
    BY <1>1, <1>4, <2>3 DEF AsksPromotion, RequestsSound
  <2>4. QED
    BY <1>3, <2>1, <2>2, <2>3
<1>6. promotion' # Nothing => promotion'.to \notin retired' /\ promotion'.from # promotion'.to
  BY <1>1, <1>3, <1>4 DEF RequestsSound
<1>7. promotion' # Nothing /\ asks' # Nothing => promotion'.from = champion'
  BY <1>1, <1>3, <1>4 DEF RequestsSound
<1>8. QED
  BY <1>2, <1>5, <1>6, <1>7 DEF RequestsSound

LEMMA AppliedKeepsLifecycle == TypeOK /\ Lifecycle /\ Applied => Lifecycle'
<1> SUFFICES ASSUME TypeOK, Lifecycle, Applied
             PROVE  Lifecycle'
  OBVIOUS
<1> USE DEF Lifecycle
<1>1. /\ asks \in Requests /\ asks # Nothing /\ asks.from = champion /\ asks' = Nothing
      /\ worker = "idle" /\ worker' = worker /\ promotion' = promotion
  BY RecordEffect DEF Applied
<1>2. PICK at \in asks.at..now :
         LET new == [kind |-> asks.kind, from |-> asks.from, to |-> asks.to, at |-> at]
         IN  /\ exp'.history # <<>> /\ LatestChange' = new
             /\ exp'.champion = asks.to /\ champion' = asks.to
             /\ exp'.retired = IF asks.kind = "ROLLBACK" THEN exp.retired \cup {asks.from}
                                                         ELSE exp.retired
             /\ retired' = IF asks.kind = "ROLLBACK" THEN retired \cup {asks.from} ELSE retired
  <2>1. Len(exp.history) \in Nat
    BY LenProperties DEF TypeOK, Experiments
  <2> DEFINE new(at) == [kind |-> asks.kind, from |-> asks.from, to |-> asks.to, at |-> at]
  <2>2. PICK at \in asks.at..now :
            /\ exp'.history \in Seq(Requests)
            /\ Len(exp'.history) = Len(exp.history) + 1
            /\ exp'.history[Len(exp.history) + 1] = new(at)
            /\ exp'.champion = asks.to /\ champion' = asks.to
            /\ exp'.retired = IF asks.kind = "ROLLBACK" THEN exp.retired \cup {asks.from}
                                                        ELSE exp.retired
            /\ retired' = IF asks.kind = "ROLLBACK" THEN retired \cup {asks.from} ELSE retired
    BY RecordEffect
  <2> HIDE DEF new
  <2>3. exp'.history # <<>>
    BY <2>1, <2>2, EmptySeq
  <2>4. LatestChange' = new(at)
    BY <2>2 DEF LatestChange, Last
  <2>5. QED
    BY <2>2, <2>3, <2>4 DEF new
<1>3. champion = exp.champion /\ retired = exp.retired /\ champion \notin retired
      /\ asks.to \notin retired /\ asks.from # asks.to
  BY <1>1 DEF LifecycleRecorded, RequestsSound
<1>4. LifecycleRecorded'
  BY <1>1, <1>2, <1>3 DEF LifecycleRecorded
<1>5. RequestsSound'
  BY <1>1, <1>2, <1>3 DEF RequestsSound
<1>6. QED
  BY <1>4, <1>5

LEMMA StepKeepsLifecycle == TypeOK /\ Stored /\ Lifecycle /\ [Next]_vars => Lifecycle'
<1> SUFFICES ASSUME TypeOK, Stored, Lifecycle, [Next]_vars
             PROVE  Lifecycle'
  OBVIOUS
<1>1. CASE Tick \/ Publish \/ TakeBatch \/ AnalyserFails \/ Arm \/ UNCHANGED vars
  BY <1>1, OtherStepsKeepLifecycle
     DEF Tick, Publish, TakeBatch, AnalyserFails, Arm, ArmSkips, ArmTakes, ArmFreezes, Turn, vars, memory, disk
<1>2. CASE Stop
  BY <1>2 DEF Stop, disk, Lifecycle, LifecycleRecorded, RequestsSound, LatestChange, Last
<1>3. CASE Refused
  BY <1>3 DEF Refused, disk, Lifecycle, LifecycleRecorded, RequestsSound, LatestChange, Last
<1>4. QED
  BY <1>1, <1>2, <1>3, StartKeepsLifecycle, EndKeepsLifecycle, AppliedKeepsLifecycle
     DEF Next, Service

LEMMA AlwaysLifecycle == Spec => []Lifecycle
  BY InitLifecycle, StepKeepsLifecycle, AlwaysStored, ExperimentTypeCorrect, PTL DEF Spec

\* An arm that was rolled back takes no more batches and is never champion
\* again, not even by a promotion or a rollback that was asked for before.
THEOREM RetiredArmsStay == Spec => RetiredStays
<1>1. ASSUME TypeOK, Stored, Stored', Lifecycle', [Next]_vars
      PROVE  [\A a \in retired \cap retired' : rt'[a] = rt[a] /\ champion' # a]_vars
  <2> SUFFICES ASSUME Next, NEW a \in retired \cap retired'
               PROVE  rt'[a] = rt[a] /\ champion' # a
    BY <1>1
  <2>1. worker # "down" /\ worker' # "down"
    BY <1>1 DEF Stored, DownKnowsNothing
  <2>2. champion' # a
    BY <1>1, <2>1 DEF Lifecycle, LifecycleRecorded
  <2>3. ~Start /\ ~Stop
    BY <2>1 DEF Start, Stop
  <2>4. CASE Arm
    <3>1. a \in Arms /\ rt \in [Arms -> Runtimes]
      BY <1>1 DEF TypeOK
    <3>2. CASE ArmSkips
      BY <2>2, <3>2 DEF ArmSkips
    <3>3. CASE ArmTakes
      <4>1. a # next
        BY <3>3 DEF ArmTakes, Skipped
      <4>2. QED
        BY <2>2, <3>1, <3>3, <4>1 DEF ArmTakes
    <3>4. CASE ArmFreezes
      <4>1. a # next
        BY <3>4 DEF ArmFreezes, Skipped
      <4>2. QED
        BY <2>2, <3>1, <3>4, <4>1 DEF ArmFreezes
    <3>5. QED
      BY <2>4, <3>2, <3>3, <3>4 DEF Arm
  <2>5. CASE AnalyserFails
    BY <1>1, <2>2, <2>5, AnalyserEffect DEF Skipped, TypeOK
  <2>6. CASE ~Arm /\ ~AnalyserFails
    BY <2>2, <2>3, <2>6
       DEF Next, Service, Tick, Publish, TakeBatch, EndBatch, Applied, Refused, memory
  <2>7. QED
    BY <2>4, <2>5, <2>6
<1>2. QED
  BY <1>1, AlwaysStored, AlwaysLifecycle, ExperimentTypeCorrect, PTL DEF Spec, RetiredStays
-----------------------------------------------------------------------------
(* Proof: the promotions are apart *)

Spaced == PromotionsApart /\ ChosenOutOfCooldown

\* What was applied before a minute was applied before a later one.
LEMMA PromotedBeforeLater ==
  ASSUME TypeOK, NEW s \in Int, NEW t \in Int, s <= t, PromotedBefore(s)
  PROVE  PromotedBefore(t)
<1>1. Cooldown * DayLength \in Nat
  BY ExperimentAssumption, SMT
<1>2. \A i \in 1..Len(exp.history) : exp.history[i].at \in Nat
  <2>1. exp.history \in Seq(Requests) /\ \A r \in Requests : r.at \in Nat
    BY ExperimentAssumption DEF TypeOK, Experiments, Requests, Minutes
  <2>2. QED
    BY <2>1, ElementOfSeq
<1> DEFINE gap == Cooldown * DayLength
<1>3. \A i \in 1..Len(exp.history) :
         exp.history[i].kind = "PROMOTION" => exp.history[i].at + gap <= s
  BY DEF PromotedBefore
<1> HIDE DEF gap
<1>4. \A i \in 1..Len(exp.history) :
         exp.history[i].kind = "PROMOTION" => exp.history[i].at + gap <= t
  BY <1>1, <1>2, <1>3 DEF gap
<1>5. QED
  BY <1>4 DEF PromotedBefore, gap

LEMMA OutOfCooldown ==
  ASSUME TypeOK, NEW t \in Int, ~InCooldown(t)
  PROVE  PromotedBefore(t)
<1>1. Cooldown * DayLength \in Nat
  BY ExperimentAssumption, SMT
<1>2. \A i \in 1..Len(exp.history) : exp.history[i].at \in Nat
  <2>1. exp.history \in Seq(Requests) /\ \A r \in Requests : r.at \in Nat
    BY ExperimentAssumption DEF TypeOK, Experiments, Requests, Minutes
  <2>2. QED
    BY <2>1, ElementOfSeq
<1> DEFINE gap == Cooldown * DayLength
<1>3. \A i \in 1..Len(exp.history) :
         exp.history[i].kind = "PROMOTION" => ~(exp.history[i].at > t - gap)
  BY DEF InCooldown
<1> HIDE DEF gap
<1>4. \A i \in 1..Len(exp.history) :
         exp.history[i].kind = "PROMOTION" => exp.history[i].at + gap <= t
  BY <1>1, <1>2, <1>3 DEF gap
<1>5. QED
  BY <1>4 DEF PromotedBefore, gap

LEMMA InitSpaced == Init => Spaced
  BY DEF Init, Spaced, PromotionsApart, ChosenOutOfCooldown

LEMMA PublishKeepsSpaced == TypeOK /\ Stored /\ Spaced /\ Publish => Spaced'
<1> SUFFICES ASSUME TypeOK, Stored, Spaced, Publish
             PROVE  Spaced'
  OBVIOUS
<1>1. UNCHANGED <<exp, champion, promotion, asks>>
  BY DEF Publish, memory, disk
<1>2. PICK hi \in toPublish..now :
          /\ toPublish' = hi + 1
          /\ IF eventQ = <<>>
             THEN eventQ' = <<[lo |-> toPublish, hi |-> hi]>> /\ UNCHANGED faults
             ELSE Fault /\ UNCHANGED eventQ
  BY DEF Publish
<1>3. toPublish \in Int /\ now \in Int /\ hi \in Int
  BY <1>2, ExperimentAssumption DEF TypeOK, Minutes, None
<1>4. PromotionsApart'
  BY <1>1 DEF PromotionsApart, Spaced
<1>5. \A t : PromotedBefore(t)' <=> PromotedBefore(t')
  BY <1>1 DEF PromotedBefore
<1>6. ASSUME promotion # Nothing, promotion.from = champion
      PROVE  /\ PromotedBefore(hi)
             /\ eventQ # <<>> => PromotedBefore(Head(eventQ).hi)
  <2>1. PromotedBefore(toPublish - 1) /\ toPublish - 1 <= hi
    BY <1>2, <1>3, <1>6 DEF Spaced, ChosenOutOfCooldown
  <2>2. QED
    BY <1>3, <1>6, <2>1, PromotedBeforeLater DEF Spaced, ChosenOutOfCooldown
<1>7. Head(<<[lo |-> toPublish, hi |-> hi]>>).hi = hi /\ toPublish' - 1 = hi
  BY <1>2, <1>3
<1>8. ASSUME promotion # Nothing, promotion.from = champion
      PROVE  /\ PromotedBefore(toPublish' - 1)
             /\ eventQ' # <<>> => PromotedBefore(Head(eventQ').hi)
  <2>1. PromotedBefore(hi) /\ (eventQ # <<>> => PromotedBefore(Head(eventQ).hi))
    BY <1>6, <1>8
  <2>2. CASE eventQ = <<>>
    BY <1>2, <1>7, <2>1, <2>2
  <2>3. CASE eventQ # <<>>
    BY <1>2, <1>7, <2>1, <2>3
  <2>4. QED
    BY <2>2, <2>3
<1>9. ChosenOutOfCooldown'
  BY <1>1, <1>8 DEF ChosenOutOfCooldown, Spaced, PromotedBefore
<1>10. QED
  BY <1>4, <1>9 DEF Spaced

LEMMA EndKeepsSpaced == TypeOK /\ Stored /\ Spaced /\ EndBatch => Spaced'
<1> SUFFICES ASSUME TypeOK, Stored, Spaced, EndBatch
             PROVE  Spaced'
  OBVIOUS
<1>1. UNCHANGED <<exp, champion, toPublish>> /\ worker = "batch" /\ eventQ # <<>>
  BY DEF EndBatch, disk, monitor, TypeOK
<1>2. eventQ' = <<>> /\ Batch.hi \in Int /\ toPublish \in Int /\ Batch.hi <= toPublish - 1
  <2>1. eventQ' = <<>> /\ Batch.hi \in Minutes /\ Batch.hi < toPublish
    BY <1>1, BatchIsPast DEF EndBatch
  <2>2. QED
    BY <2>1, ExperimentAssumption DEF TypeOK, None, Minutes
<1>3. PromotionsApart'
  BY <1>1 DEF PromotionsApart, Spaced
<1>4. /\ \/ promotion' = Nothing
         \/ Evaluated(promotion', Batch.hi)
         \/ promotion' = promotion /\ asks' = asks
      /\ \/ asks' = asks
         \/ asks = Nothing /\ AsksRollback(Batch.hi)
         \/ asks = Nothing /\ \E s : AsksPromotion(s, Batch.hi)
  BY EndOutcome
<1>5. \A s : Evaluated(s, Batch.hi) => PromotedBefore(Batch.hi) /\ PromotedBefore(toPublish - 1)
  BY <1>2, OutOfCooldown, PromotedBeforeLater DEF Evaluated
<1>6. promotion # Nothing /\ promotion.from = champion =>
         PromotedBefore(toPublish - 1) /\ PromotedBefore(Batch.hi)
  BY <1>1 DEF Spaced, ChosenOutOfCooldown, Batch
<1>7. promotion' # Nothing /\ promotion'.from = champion => PromotedBefore(toPublish - 1)
  BY <1>4, <1>5, <1>6
<1>8. ASSUME asks' # Nothing, asks'.from = champion, asks'.kind = "PROMOTION"
      PROVE  PromotedBefore(asks'.at)
  <2>1. CASE asks' = asks
    BY <1>8, <2>1 DEF Spaced, ChosenOutOfCooldown
  <2>2. CASE AsksRollback(Batch.hi)
    BY <1>8, <2>2 DEF AsksRollback
  <2>3. CASE \E s : AsksPromotion(s, Batch.hi)
    BY <1>5, <1>6, <1>8, <2>3 DEF AsksPromotion
  <2>4. QED
    BY <1>4, <2>1, <2>2, <2>3
<1>9. ChosenOutOfCooldown'
  BY <1>1, <1>2, <1>7, <1>8 DEF ChosenOutOfCooldown, PromotedBefore
<1>10. QED
  BY <1>3, <1>9 DEF Spaced

LEMMA AppliedKeepsSpaced == TypeOK /\ Lifecycle /\ Spaced /\ Applied => Spaced'
<1> SUFFICES ASSUME TypeOK, Lifecycle, Spaced, Applied
             PROVE  Spaced'
  OBVIOUS
<1>1. PICK at \in asks.at..now :
         /\ asks \in Requests /\ asks # Nothing /\ asks.from = champion /\ asks' = Nothing
         /\ UNCHANGED promotion /\ champion' = asks.to
         /\ Len(exp'.history) = Len(exp.history) + 1
         /\ \A i \in 1..Len(exp.history) : exp'.history[i] = exp.history[i]
         /\ exp'.history[Len(exp.history) + 1] =
              [kind |-> asks.kind, from |-> asks.from, to |-> asks.to, at |-> at]
  BY RecordEffect DEF Applied
<1>2. exp.history \in Seq(Requests) /\ Len(exp.history) \in Nat
  BY LenProperties DEF TypeOK, Experiments
<1>3. at \in Nat /\ asks.at \in Nat /\ asks.at <= at /\ at \in Int /\ asks.at \in Int
  BY <1>1, ExperimentAssumption DEF TypeOK, Requests, Minutes
<1>4. asks.kind = "PROMOTION" => PromotedBefore(at)
  BY <1>1, <1>3, PromotedBeforeLater DEF Spaced, ChosenOutOfCooldown
<1>5. ASSUME NEW i \in 1..Len(exp'.history), NEW j \in 1..Len(exp'.history), i < j,
             exp'.history[i].kind = "PROMOTION", exp'.history[j].kind = "PROMOTION"
      PROVE  exp'.history[j].at >= exp'.history[i].at + Cooldown * DayLength
  <2>1. i \in 1..Len(exp.history) /\ exp'.history[i] = exp.history[i]
    BY <1>1, <1>2, <1>5
  <2>2. CASE j \in 1..Len(exp.history)
    BY <1>1, <1>5, <2>1, <2>2 DEF Spaced, PromotionsApart
  <2>3. CASE j = Len(exp.history) + 1
    <3>1. exp'.history[j].at = at /\ asks.kind = "PROMOTION"
      BY <1>1, <1>5, <2>3
    <3>2. exp.history[i].at + Cooldown * DayLength <= at
      BY <1>4, <1>5, <2>1, <3>1 DEF PromotedBefore
    <3>3. exp.history[i].at \in Nat /\ Cooldown * DayLength \in Nat
      <4>1. exp.history[i] \in Requests
        BY <1>2, <2>1, ElementOfSeq
      <4>2. QED
        BY <4>1, ExperimentAssumption, SMT DEF Requests, Minutes
    <3>4. QED
      BY <1>3, <2>1, <3>1, <3>2, <3>3
  <2>4. QED
    BY <1>1, <1>2, <2>2, <2>3
<1>6. PromotionsApart'
  BY <1>5 DEF PromotionsApart
<1>7. promotion' # Nothing => promotion'.from # champion'
  BY <1>1 DEF Lifecycle, RequestsSound
<1>8. ChosenOutOfCooldown'
  BY <1>1, <1>7 DEF ChosenOutOfCooldown
<1>9. QED
  BY <1>6, <1>8 DEF Spaced

LEMMA StepKeepsSpaced == TypeOK /\ Stored /\ Lifecycle /\ Spaced /\ [Next]_vars => Spaced'
<1> SUFFICES ASSUME TypeOK, Stored, Lifecycle, Spaced, [Next]_vars
             PROVE  Spaced'
  OBVIOUS
<1>1. CASE Tick \/ TakeBatch \/ AnalyserFails \/ Arm \/ UNCHANGED vars
  <2>1. UNCHANGED <<exp, champion, promotion, asks, toPublish, eventQ>>
    BY <1>1 DEF Tick, TakeBatch, AnalyserFails, Arm, ArmSkips, ArmTakes, ArmFreezes, Turn, vars, memory,
                disk, monitor
  <2>2. QED
    BY <2>1 DEF Spaced, PromotionsApart, ChosenOutOfCooldown, PromotedBefore
<1>2. CASE Stop
  BY <1>2 DEF Stop, disk, Spaced, PromotionsApart, ChosenOutOfCooldown
<1>3. CASE Refused
  BY <1>3 DEF Refused, disk, monitor, Spaced, PromotionsApart, ChosenOutOfCooldown, PromotedBefore
<1>4. CASE Start
  <2>1. PICK seed \in -1..now - 1, same \in BOOLEAN : BuildOptimizer(seed, same)
    BY <1>4 DEF Start
  <2>2. promotion' = Nothing /\ asks' = Nothing
    BY <2>1 DEF BuildOptimizer
  <2>3. exp' = exp \/ exp'.history = <<>>
    BY <2>1 DEF BuildOptimizer, CreateExperiment, disk
  <2>4. PromotionsApart'
    <3>1. CASE exp' = exp
      BY <3>1 DEF Spaced, PromotionsApart
    <3>2. CASE exp'.history = <<>>
      <4>1. Len(exp'.history) = 0
        BY <3>2
      <4>2. 1..Len(exp'.history) = {}
        BY <4>1
      <4>3. QED
        BY <4>2 DEF PromotionsApart
    <3>3. QED
      BY <2>3, <3>1, <3>2
  <2>5. QED
    BY <2>2, <2>4 DEF Spaced, ChosenOutOfCooldown
<1>5. QED
  BY <1>1, <1>2, <1>3, <1>4, PublishKeepsSpaced, EndKeepsSpaced, AppliedKeepsSpaced
     DEF Next, Service

\* The promotions of an experiment are the cooldown apart, counted from when
\* they were applied: a promotion that was set aside or asked for before another
\* was applied no longer starts from the champion, and is refused.
THEOREM PromotionsAreApart == Spec => []PromotionsApart
<1>1. Spaced => PromotionsApart
  BY DEF Spaced
<1>2. QED
  BY <1>1, InitSpaced, StepKeepsSpaced, AlwaysLifecycle, AlwaysStored, ExperimentTypeCorrect, PTL
     DEF Spec
-----------------------------------------------------------------------------
(* Proof: an arm is its batches *)

\* The part of the minutes lo..hi that falls on day d, by its ends.
FirstOn(lo, d) == IF lo > d * DayLength THEN lo - d * DayLength ELSE 0
LastOn(hi, d) == IF hi < (d + 1) * DayLength THEN hi - d * DayLength ELSE DayLength - 1

\* What Coverage does to one day.
LEMMA CoverageOfDay ==
  ASSUME NEW days, NEW lo \in Nat, NEW hi \in Nat, lo <= hi, NEW d \in DayNums
  PROVE  /\ FirstOn(lo, d) \in Nat /\ LastOn(hi, d) \in Int
         /\ Coverage(days, lo, hi)[d] =
              IF FirstOn(lo, d) > LastOn(hi, d) THEN days[d]
              ELSE [first |-> IF days[d].count = 0 THEN FirstOn(lo, d)
                              ELSE LesserOf(days[d].first, FirstOn(lo, d)),
                    last |-> IF days[d].count = 0 THEN LastOn(hi, d)
                             ELSE GreaterOf(days[d].last, LastOn(hi, d)),
                    count |-> days[d].count + (LastOn(hi, d) - FirstOn(lo, d) + 1)]
<1> DEFINE new == {MinuteOfDay(m) : m \in {k \in lo..hi : Day(k) = d}}
           least == CHOOSE x \in new : \A y \in new : x <= y
           most == CHOOSE x \in new : \A y \in new : y <= x
<1>1. Coverage(days, lo, hi)[d] =
        IF new = {} THEN days[d]
        ELSE [first |-> IF days[d].count = 0 THEN least ELSE LesserOf(days[d].first, least),
              last |-> IF days[d].count = 0 THEN most ELSE GreaterOf(days[d].last, most),
              count |-> days[d].count + Cardinality(new)]
  BY DEF Coverage
<1>2. new = FirstOn(lo, d)..LastOn(hi, d)
      /\ (new # {} => least = FirstOn(lo, d) /\ most = LastOn(hi, d))
  <2>1. d \in Nat
    BY DEF DayNums
  <2>2. QED
    BY <2>1, DayPart DEF FirstOn, LastOn
<1>3. FirstOn(lo, d) \in Nat /\ LastOn(hi, d) \in Int
  <2>1. d * DayLength \in Nat /\ DayLength \in Nat /\ d \in Nat
    BY ExperimentAssumption, SMT DEF DayNums
  <2>2. QED
    BY <2>1 DEF FirstOn, LastOn
<1> HIDE DEF new, least, most
<1>4. CASE FirstOn(lo, d) > LastOn(hi, d)
  <2>1. new = {}
    BY <1>2, <1>3, <1>4
  <2>2. QED
    BY <1>1, <1>3, <1>4, <2>1
<1>5. CASE ~(FirstOn(lo, d) > LastOn(hi, d))
  <2>1. new # {}
    BY <1>2, <1>3, <1>5
  <2>2. Cardinality(new) = LastOn(hi, d) - FirstOn(lo, d) + 1
    BY <1>2, <1>3, <1>5, FS_Interval
  <2>3. QED
    BY <1>1, <1>2, <1>3, <1>5, <2>1, <2>2
<1>6. QED
  BY <1>4, <1>5

\* The first batch covers its minutes.
LEMMA FirstCoverage ==
  ASSUME NEW lo \in Nat, NEW hi \in Nat, lo <= hi, NEW d \in DayNums
  PROVE  /\ FirstOn(lo, d) \in Nat /\ LastOn(hi, d) \in Int
         /\ Coverage(NoDays, lo, hi)[d] =
              IF FirstOn(lo, d) > LastOn(hi, d) THEN NoDay
              ELSE [first |-> FirstOn(lo, d), last |-> LastOn(hi, d),
                    count |-> LastOn(hi, d) - FirstOn(lo, d) + 1]
<1> DEFINE days == NoDays
<1>1. days[d] = NoDay /\ NoDay.count = 0
  BY DEF NoDays, NoDay
<1> HIDE DEF days
<1>2. /\ FirstOn(lo, d) \in Nat /\ LastOn(hi, d) \in Int
      /\ Coverage(days, lo, hi)[d] =
           IF FirstOn(lo, d) > LastOn(hi, d) THEN days[d]
           ELSE [first |-> IF days[d].count = 0 THEN FirstOn(lo, d)
                           ELSE LesserOf(days[d].first, FirstOn(lo, d)),
                 last |-> IF days[d].count = 0 THEN LastOn(hi, d)
                          ELSE GreaterOf(days[d].last, LastOn(hi, d)),
                 count |-> days[d].count + (LastOn(hi, d) - FirstOn(lo, d) + 1)]
  BY CoverageOfDay
<1>3. QED
  BY <1>1, <1>2 DEF days

\* Batches that follow each other cover what the minutes cover together.
LEMMA CoverageJoins ==
  ASSUME NEW s \in Nat, NEW c \in Nat, NEW h \in Nat, s <= c, c < h
  PROVE  Coverage(Coverage(NoDays, s, c), c + 1, h) = Coverage(NoDays, s, h)
<1> DEFINE days == Coverage(NoDays, s, c)
<1>1. ASSUME NEW d \in DayNums
      PROVE  Coverage(days, c + 1, h)[d] = Coverage(NoDays, s, h)[d]
  <2> DEFINE base == d * DayLength
  <2>1. base \in Nat /\ (d + 1) * DayLength = base + DayLength /\ DayLength \in Nat \ {0}
    BY ExperimentAssumption, SMT DEF DayNums
  <2> HIDE DEF base
  <2>2. /\ FirstOn(s, d) = IF s > base THEN s - base ELSE 0
        /\ FirstOn(c + 1, d) = IF c + 1 > base THEN c + 1 - base ELSE 0
        /\ LastOn(c, d) = IF c < base + DayLength THEN c - base ELSE DayLength - 1
        /\ LastOn(h, d) = IF h < base + DayLength THEN h - base ELSE DayLength - 1
    BY <2>1 DEF FirstOn, LastOn, base
  <2>3. NoDays[d] = NoDay /\ NoDay.count = 0
    BY DEF NoDays, NoDay
  <2>4. days[d] = IF FirstOn(s, d) > LastOn(c, d) THEN NoDay
                  ELSE [first |-> FirstOn(s, d), last |-> LastOn(c, d),
                        count |-> LastOn(c, d) - FirstOn(s, d) + 1]
    BY FirstCoverage
  <2>5. Coverage(NoDays, s, h)[d] =
           IF FirstOn(s, d) > LastOn(h, d) THEN NoDay
           ELSE [first |-> FirstOn(s, d), last |-> LastOn(h, d),
                 count |-> LastOn(h, d) - FirstOn(s, d) + 1]
    BY FirstCoverage
  <2> HIDE DEF days
  <2>6. Coverage(days, c + 1, h)[d] =
           IF FirstOn(c + 1, d) > LastOn(h, d) THEN days[d]
           ELSE [first |-> IF days[d].count = 0 THEN FirstOn(c + 1, d)
                           ELSE LesserOf(days[d].first, FirstOn(c + 1, d)),
                 last |-> IF days[d].count = 0 THEN LastOn(h, d)
                          ELSE GreaterOf(days[d].last, LastOn(h, d)),
                 count |-> days[d].count + (LastOn(h, d) - FirstOn(c + 1, d) + 1)]
    <3>1. c + 1 \in Nat /\ c + 1 <= h
      OBVIOUS
    <3>2. QED
      BY <3>1, CoverageOfDay
  <2>7. CASE FirstOn(s, d) > LastOn(c, d)
    <3>1. days[d] = NoDay
      BY <2>4, <2>7
    <3>2. \/ FirstOn(c + 1, d) = FirstOn(s, d)
          \/ FirstOn(c + 1, d) > LastOn(h, d) /\ FirstOn(s, d) > LastOn(h, d)
      BY <2>1, <2>2, <2>7
    <3>3. LastOn(h, d) \in Int /\ FirstOn(s, d) \in Nat
      <4>1. s <= h
        OBVIOUS
      <4>2. QED
        BY <4>1, FirstCoverage
    <3>4. QED
      BY <2>3, <2>5, <2>6, <3>1, <3>2, <3>3
  <2>8. CASE ~(FirstOn(s, d) > LastOn(c, d))
    <3>1. /\ days[d].first = FirstOn(s, d) /\ days[d].last = LastOn(c, d)
          /\ days[d].count = LastOn(c, d) - FirstOn(s, d) + 1
          /\ days[d] = [first |-> FirstOn(s, d), last |-> LastOn(c, d),
                        count |-> LastOn(c, d) - FirstOn(s, d) + 1]
      BY <2>4, <2>8
    <3>2. ~(FirstOn(s, d) > LastOn(h, d)) /\ LastOn(c, d) - FirstOn(s, d) + 1 # 0
      BY <2>1, <2>2, <2>8
    <3>3. CASE FirstOn(c + 1, d) > LastOn(h, d)
      <4>1. LastOn(c, d) = LastOn(h, d)
        BY <2>1, <2>2, <2>8, <3>3
      <4>2. QED
        BY <2>5, <2>6, <3>1, <3>2, <3>3, <4>1
    <3>4. CASE ~(FirstOn(c + 1, d) > LastOn(h, d))
      <4>1. /\ LesserOf(FirstOn(s, d), FirstOn(c + 1, d)) = FirstOn(s, d)
            /\ GreaterOf(LastOn(c, d), LastOn(h, d)) = LastOn(h, d)
        BY <2>1, <2>2, <2>8, <3>4 DEF LesserOf, GreaterOf
      <4>2. LastOn(c, d) - FirstOn(s, d) + 1 + (LastOn(h, d) - FirstOn(c + 1, d) + 1)
              = LastOn(h, d) - FirstOn(s, d) + 1
        BY <2>1, <2>2, <2>8, <3>4
      <4>3. QED
        BY <2>5, <2>6, <3>1, <3>2, <3>4, <4>1, <4>2
    <3>5. QED
      BY <3>3, <3>4
  <2>9. QED
    BY <2>7, <2>8
<1>2. /\ Coverage(days, c + 1, h) = [d \in DayNums |-> Coverage(days, c + 1, h)[d]]
      /\ Coverage(NoDays, s, h) = [d \in DayNums |-> Coverage(NoDays, s, h)[d]]
  BY DEF Coverage
<1>3. QED
  BY <1>1, <1>2

\* A day counts as complete when each of its minutes is among those covered.
LEMMA CompleteIsCovered ==
  ASSUME NEW s \in Nat, NEW c \in Nat, s <= c, NEW r, r.days = Coverage(NoDays, s, c)
  PROVE  CompleteDays(r) = DaysWithin(s..c)
<1> SUFFICES ASSUME NEW d \in DayNums
             PROVE  r.days[d] = [first |-> 0, last |-> DayLength - 1, count |-> DayLength]
                      <=> d * DayLength..(d + 1) * DayLength - 1 \subseteq s..c
  BY DEF CompleteDays, DaysWithin
<1> DEFINE base == d * DayLength
<1>1. base \in Nat /\ (d + 1) * DayLength = base + DayLength /\ DayLength \in Nat \ {0}
  BY ExperimentAssumption, SMT DEF DayNums
<1> HIDE DEF base
<1>2. /\ FirstOn(s, d) = IF s > base THEN s - base ELSE 0
      /\ LastOn(c, d) = IF c < base + DayLength THEN c - base ELSE DayLength - 1
  BY <1>1 DEF FirstOn, LastOn, base
<1>3. r.days[d] = IF FirstOn(s, d) > LastOn(c, d) THEN NoDay
                  ELSE [first |-> FirstOn(s, d), last |-> LastOn(c, d),
                        count |-> LastOn(c, d) - FirstOn(s, d) + 1]
  BY FirstCoverage
<1>4. base..base + DayLength - 1 \subseteq s..c <=> s <= base /\ base + DayLength - 1 <= c
  <2>1. base \in base..base + DayLength - 1 /\ base + DayLength - 1 \in base..base + DayLength - 1
    BY <1>1
  <2>2. QED
    BY <1>1, <2>1
<1>5. r.days[d] = [first |-> 0, last |-> DayLength - 1, count |-> DayLength]
        <=> s <= base /\ base + DayLength - 1 <= c
  <2>1. CASE FirstOn(s, d) > LastOn(c, d)
    <3>1. r.days[d].count = 0
      BY <1>3, <2>1 DEF NoDay
    <3>2. ~(s <= base /\ base + DayLength - 1 <= c)
      BY <1>1, <1>2, <2>1
    <3>3. QED
      BY <1>1, <3>1, <3>2
  <2>2. CASE ~(FirstOn(s, d) > LastOn(c, d))
    <3>1. r.days[d] = [first |-> FirstOn(s, d), last |-> LastOn(c, d),
                       count |-> LastOn(c, d) - FirstOn(s, d) + 1]
      BY <1>3, <2>2
    <3>2. r.days[d] = [first |-> 0, last |-> DayLength - 1, count |-> DayLength]
            <=> FirstOn(s, d) = 0 /\ LastOn(c, d) = DayLength - 1
      <4>1. CASE FirstOn(s, d) = 0 /\ LastOn(c, d) = DayLength - 1
        BY <1>1, <3>1, <4>1
      <4>2. CASE ~(FirstOn(s, d) = 0 /\ LastOn(c, d) = DayLength - 1)
        BY <3>1, <4>2
      <4>3. QED
        BY <4>1, <4>2
    <3>3. QED
      BY <1>1, <1>2, <2>2, <3>2
  <2>3. QED
    BY <2>1, <2>2
<1>6. QED
  BY <1>1, <1>4, <1>5 DEF base
\* An arm that goes on with the batch that comes next is that of one batch more.
LEMMA RunExtends ==
  ASSUME NEW a \in Arms, NEW r \in Runtimes, NEW batch \in Batches,
         RunOf(a, r), Continues(r, batch)
  PROVE  /\ RunOf(a, Process(a, r, batch))
         /\ Process(a, r, batch).taken # <<>>
         /\ StartOf(Process(a, r, batch)) = IF r.taken = <<>> THEN batch.lo ELSE StartOf(r)
<1> DEFINE p == Process(a, r, batch)
           n == Len(r.taken)
<1>1. /\ batch.lo \in Nat /\ batch.hi \in Nat /\ batch.lo <= batch.hi /\ batch.hi \in Minutes
      /\ r.taken \in Seq(Batches) /\ r.orders \in OrderSeqs /\ r.cursor \in Int
      /\ n \in Nat /\ Lasts \in Nat \ {0}
  BY LenProperties, ExperimentAssumption DEF Batches, Minutes, Runtimes, None
<1>2. /\ p.cursor = batch.hi /\ p.days = Coverage(r.days, batch.lo, batch.hi)
      /\ p.orders = Orders(a, r.orders, batch.hi) /\ p.taken = Append(r.taken, batch)
  BY DEF Process, Runtimes
<1> HIDE DEF p
<1>3. /\ p.taken \in Seq(Batches) /\ Len(p.taken) = n + 1 /\ p.taken # <<>>
      /\ p.taken[n + 1] = batch /\ \A k \in 1..n : p.taken[k] = r.taken[k]
  BY <1>1, <1>2, AppendProperties
<1>4. r.taken = <<>> <=> n = 0
  BY <1>1, EmptySeq
<1>5. \A k \in 1..n : r.taken[k].hi \in Nat /\ r.taken[k].lo \in Nat
  BY <1>1, ElementOfSeq, ExperimentAssumption DEF Batches, Minutes
<1> HIDE DEF n
<1>6. CASE r.taken = <<>>
  <2>1. n = 0 /\ r.days = NoDays /\ r.orders = <<>> /\ StartOf(p) = batch.lo
    BY <1>3, <1>4, <1>6 DEF RunOf, StartOf
  <2>2. ToSet(p.taken) = {batch}
    BY <1>3, <2>1, LenProperties DEF ToSet
  <2>3. MinutesOf(ToSet(p.taken)) = batch.lo..batch.hi
    BY <2>2 DEF MinutesOf
  <2>4. /\ Len(r.orders) = 0
        /\ Len(p.orders) = IF DecidesToOpen(a, batch.hi) THEN 1 ELSE 0
        /\ DecidesToOpen(a, batch.hi) => p.orders[1] = [at |-> batch.hi, settled |-> FALSE]
    <3>1. Len(r.orders) = 0
      BY <2>1
    <3>2. QED
      BY <1>1, <1>2, <3>1, OrdersEffect
  <2>5. \A i \in 1..Len(p.orders) : i = 1 /\ DecidesToOpen(a, batch.hi)
    BY <2>4
  <2>6. p.taken[1] = batch /\ Len(p.taken) = 1
    BY <1>3, <2>1
  <2>7. \A i \in 1..Len(p.orders) :
          /\ p.orders[i].settled <=> p.orders[i].at + Lasts <= p.cursor
          /\ p.orders[i].at = p.taken[1].hi /\ DecidesToOpen(a, p.taken[1].hi)
    <3>1. ~(batch.hi + Lasts <= batch.hi)
      BY <1>1
    <3>2. QED
      BY <1>2, <2>4, <2>5, <2>6, <3>1
  <2>8. DecidesToOpen(a, p.taken[1].hi) => 1 \in 1..Len(p.orders) /\ p.orders[1].at = p.taken[1].hi
    BY <2>4, <2>6
  <2>9. RunOf(a, p)
    BY <1>1, <1>2, <1>3, <2>1, <2>3, <2>5, <2>6, <2>7, <2>8 DEF RunOf
  <2>10. QED
    BY <1>3, <1>6, <2>1, <2>9 DEF p
<1>7. CASE r.taken # <<>>
  <2>1. /\ n > 0 /\ r.cursor = r.taken[n].hi /\ r.cursor \in Nat /\ batch.lo = r.cursor + 1
        /\ StartOf(r) \in Nat /\ StartOf(r) <= r.cursor
        /\ MinutesOf(ToSet(r.taken)) = StartOf(r)..r.cursor
        /\ r.days = Coverage(NoDays, StartOf(r), r.cursor)
    <3>1. n \in 1..n /\ 1 \in 1..n
      BY <1>1, <1>4, <1>7
    <3>2. r.cursor = r.taken[n].hi
      BY <1>7 DEF RunOf, n
    <3>3. r.cursor # None
      BY <1>5, <3>1, <3>2 DEF None
    <3>4. QED
      BY <1>1, <1>5, <1>7, <3>1, <3>2, <3>3 DEF RunOf, Continues, StartOf
  <2>2. p.taken[1] = r.taken[1] /\ StartOf(p) = StartOf(r) /\ r.cursor < batch.hi
    <3>1. 1 \in 1..n /\ r.cursor < batch.hi
      BY <1>1, <2>1
    <3>2. QED
      BY <1>3, <3>1 DEF StartOf
  <2>3. ToSet(p.taken) = ToSet(r.taken) \cup {batch}
    <3>1. ToSet(p.taken) = {p.taken[k] : k \in 1..n + 1} /\ ToSet(r.taken) = {r.taken[k] : k \in 1..n}
      BY <1>1, <1>3, LenProperties DEF ToSet, n
    <3>2. 1..n + 1 = (1..n) \cup {n + 1}
      BY <1>1
    <3>3. QED
      BY <1>3, <3>1, <3>2
  <2>4. MinutesOf(ToSet(p.taken)) = StartOf(p)..p.cursor
    <3>1. MinutesOf(ToSet(p.taken)) = MinutesOf(ToSet(r.taken)) \cup (batch.lo..batch.hi)
      BY <2>3 DEF MinutesOf
    <3>2. (StartOf(r)..r.cursor) \cup (batch.lo..batch.hi) = StartOf(r)..batch.hi
      BY <1>1, <2>1
    <3>3. QED
      BY <1>2, <2>1, <2>2, <3>1, <3>2
  <2>5. p.days = Coverage(NoDays, StartOf(p), p.cursor)
    BY <1>1, <1>2, <2>1, <2>2, CoverageJoins
  <2>6. \A k \in 1..Len(p.taken) - 1 : p.taken[k + 1].lo = p.taken[k].hi + 1
    <3>1. ASSUME NEW k \in 1..n PROVE p.taken[k + 1].lo = p.taken[k].hi + 1
      <4>1. CASE k = n
        BY <1>3, <2>1, <4>1
      <4>2. CASE k # n
        <5>1. k \in 1..n - 1 /\ k + 1 \in 1..n
          BY <1>1, <4>2
        <5>2. r.taken[k + 1].lo = r.taken[k].hi + 1
          BY <5>1 DEF RunOf, n
        <5>3. QED
          BY <1>3, <5>1, <5>2
      <4>3. QED
        BY <4>1, <4>2
    <3>2. Len(p.taken) - 1 = n
      BY <1>1, <1>3
    <3>3. QED
      BY <3>1, <3>2
  <2>7. \A k \in 1..n : r.taken[k].hi <= r.cursor
    BY DEF RunOf, n
  <2>8. \A k \in 1..Len(p.taken) : p.taken[k].hi <= p.cursor
    <3>1. \A k \in 1..n : r.taken[k].hi <= batch.hi
      BY <1>1, <1>5, <2>1, <2>2, <2>7
    <3>2. QED
      BY <1>1, <1>2, <1>3, <3>1
  <2> DEFINE m == Len(r.orders)
  <2>9. /\ m \in Nat /\ Len(p.orders) = IF DecidesToOpen(a, batch.hi) THEN m + 1 ELSE m
        /\ \A i \in 1..m : /\ p.orders[i].at = r.orders[i].at
                           /\ p.orders[i].settled <=> r.orders[i].settled
                                                      \/ r.orders[i].at + Lasts <= batch.hi
        /\ DecidesToOpen(a, batch.hi) => p.orders[m + 1] = [at |-> batch.hi, settled |-> FALSE]
    BY <1>1, <1>2, OrdersEffect
  <2>10. /\ \A i, j \in 1..m : i < j => r.orders[i].at < r.orders[j].at
         /\ \A i \in 1..m :
              /\ r.orders[i].settled <=> r.orders[i].at + Lasts <= r.cursor
              /\ \E k \in 1..n : r.orders[i].at = r.taken[k].hi /\ DecidesToOpen(a, r.taken[k].hi)
         /\ \A k \in 1..n : DecidesToOpen(a, r.taken[k].hi) =>
              \E i \in 1..m : r.orders[i].at = r.taken[k].hi
    BY DEF RunOf, n
  <2> HIDE DEF m
  <2>11. \A i \in 1..m : r.orders[i].at \in Nat /\ r.orders[i].at < batch.hi
    <3> SUFFICES ASSUME NEW i \in 1..m
                 PROVE  r.orders[i].at \in Nat /\ r.orders[i].at < batch.hi
      OBVIOUS
    <3>1. PICK k \in 1..n : r.orders[i].at = r.taken[k].hi
      BY <2>10
    <3>2. QED
      BY <1>1, <1>5, <2>1, <2>2, <2>7, <3>1
  <2>12. \A i \in 1..Len(p.orders) : \/ i \in 1..m
                                     \/ i = m + 1 /\ DecidesToOpen(a, batch.hi)
                                        /\ p.orders[i] = [at |-> batch.hi, settled |-> FALSE]
    BY <2>9
  <2>13. \A i, j \in 1..Len(p.orders) : i < j => p.orders[i].at < p.orders[j].at
    <3> SUFFICES ASSUME NEW i \in 1..Len(p.orders), NEW j \in 1..Len(p.orders), i < j
                 PROVE  p.orders[i].at < p.orders[j].at
      OBVIOUS
    <3>1. i \in 1..m
      BY <2>9, <2>12
    <3>2. CASE j \in 1..m
      BY <2>9, <2>10, <3>1, <3>2
    <3>3. CASE j = m + 1 /\ p.orders[j] = [at |-> batch.hi, settled |-> FALSE]
      BY <2>9, <2>11, <3>1, <3>3
    <3>4. QED
      BY <2>12, <3>2, <3>3
  <2>14. ASSUME NEW i \in 1..Len(p.orders)
         PROVE  /\ p.orders[i].settled <=> p.orders[i].at + Lasts <= p.cursor
                /\ \E k \in 1..Len(p.taken) :
                     p.orders[i].at = p.taken[k].hi /\ DecidesToOpen(a, p.taken[k].hi)
    <3>1. CASE i \in 1..m
      <4>1. p.orders[i].settled <=> p.orders[i].at + Lasts <= p.cursor
        <5>1. /\ p.orders[i].at = r.orders[i].at
              /\ p.orders[i].settled <=> r.orders[i].settled \/ r.orders[i].at + Lasts <= batch.hi
          BY <2>9, <3>1
        <5>2. r.orders[i].settled <=> r.orders[i].at + Lasts <= r.cursor
          BY <2>10, <3>1
        <5>3. r.orders[i].at \in Nat
          BY <2>11, <3>1
        <5>4. r.orders[i].at + Lasts <= r.cursor => r.orders[i].at + Lasts <= batch.hi
          BY <1>1, <2>1, <2>2, <5>3
        <5>5. QED
          BY <1>2, <5>1, <5>2, <5>4
      <4>2. PICK k \in 1..n : r.orders[i].at = r.taken[k].hi /\ DecidesToOpen(a, r.taken[k].hi)
        BY <2>10, <3>1
      <4>3. k \in 1..Len(p.taken)
        BY <1>1, <1>3
      <4>4. QED
        BY <1>3, <2>9, <3>1, <4>1, <4>2, <4>3
    <3>2. CASE i = m + 1 /\ DecidesToOpen(a, batch.hi)
               /\ p.orders[i] = [at |-> batch.hi, settled |-> FALSE]
      <4>1. n + 1 \in 1..Len(p.taken) /\ ~(batch.hi + Lasts <= batch.hi)
        BY <1>1, <1>3
      <4>2. QED
        BY <1>2, <1>3, <3>2, <4>1
    <3>3. QED
      BY <2>12, <3>1, <3>2
  <2>15. ASSUME NEW k \in 1..Len(p.taken), DecidesToOpen(a, p.taken[k].hi)
         PROVE  \E i \in 1..Len(p.orders) : p.orders[i].at = p.taken[k].hi
    <3>1. CASE k \in 1..n
      <4>1. PICK i \in 1..m : r.orders[i].at = r.taken[k].hi
        BY <1>3, <2>10, <2>15, <3>1
      <4>2. i \in 1..Len(p.orders)
        BY <2>9
      <4>3. QED
        BY <1>3, <2>9, <3>1, <4>1, <4>2
    <3>2. CASE k = n + 1
      <4>1. m + 1 \in 1..Len(p.orders) /\ p.orders[m + 1].at = batch.hi
        BY <1>3, <2>9, <2>15, <3>2
      <4>2. QED
        BY <1>3, <3>2, <4>1
    <3>3. QED
      BY <1>1, <1>3, <3>1, <3>2
  <2>16. StartOf(p) <= p.cursor
    BY <1>1, <1>2, <2>1, <2>2
  <2>17. p.cursor = p.taken[Len(p.taken)].hi
    BY <1>2, <1>3
  <2>18. RunOf(a, p)
    BY <1>3, <2>4, <2>5, <2>6, <2>8, <2>13, <2>14, <2>15, <2>16, <2>17 DEF RunOf
  <2>19. QED
    BY <1>3, <1>7, <2>2, <2>18 DEF p
<1>8. QED
  BY <1>6, <1>7

\* The form that is kept says what IsOf says.
LEMMA RunIsOf ==
  ASSUME NEW a \in Arms, NEW r \in Runtimes, RunOf(a, r)
  PROVE  IsOf(a, r)
<1> DEFINE n == Len(r.taken)
           m == Len(r.orders)
           batches == ToSet(r.taken)
           orders == {[at |-> b.hi, settled |-> b.hi + Lasts <= r.cursor] :
                        b \in {c \in batches : DecidesToOpen(a, c.hi)}}
<1>1. /\ r.taken \in Seq(Batches) /\ r.orders \in OrderSeqs /\ n \in Nat /\ m \in Nat
      /\ batches = {r.taken[k] : k \in 1..n} /\ ToSet(r.orders) = {r.orders[i] : i \in 1..m}
      /\ \A i \in 1..m : r.orders[i] \in [at : Minutes, settled : BOOLEAN]
      /\ \A k \in 1..n : r.taken[k].lo \in Nat /\ r.taken[k].hi \in Nat
      /\ r.taken = <<>> <=> n = 0
  <2>1. r.taken \in Seq(Batches) /\ r.orders \in OrderSeqs
    BY DEF Runtimes
  <2>2. \A b \in Batches : b.lo \in Nat /\ b.hi \in Nat
    BY ExperimentAssumption DEF Batches, Minutes
  <2>3. \A k \in 1..n : r.taken[k] \in Batches
    BY <2>1, ElementOfSeq
  <2>4. n \in Nat /\ m \in Nat /\ DOMAIN r.taken = 1..n /\ DOMAIN r.orders = 1..m
    BY <2>1, LenProperties DEF OrderSeqs
  <2>5. \A i \in 1..m : r.orders[i] \in [at : Minutes, settled : BOOLEAN]
    BY <2>1, ElementOfSeq DEF OrderSeqs
  <2>6. r.taken = <<>> <=> n = 0
    BY <2>1, EmptySeq
  <2>7. QED
    BY <2>1, <2>2, <2>3, <2>4, <2>5, <2>6 DEF ToSet
<1>2. /\ \A i, j \in 1..m : i < j => r.orders[i].at < r.orders[j].at
      /\ \A i \in 1..m :
           /\ r.orders[i].settled <=> r.orders[i].at + Lasts <= r.cursor
           /\ \E k \in 1..n : r.orders[i].at = r.taken[k].hi /\ DecidesToOpen(a, r.taken[k].hi)
      /\ \A k \in 1..n : DecidesToOpen(a, r.taken[k].hi) =>
           \E i \in 1..m : r.orders[i].at = r.taken[k].hi
  BY DEF RunOf
<1>3. CompleteDays(r) = DaysWithin(MinutesOf(batches))
  <2>1. CASE r.taken = <<>>
    <3>1. r.days = NoDays /\ MinutesOf(batches) = {}
      BY <1>1, <2>1 DEF RunOf, MinutesOf
    <3>2. \A d \in DayNums : NoDays[d].count = 0 /\ d * DayLength \in d * DayLength..(d + 1) * DayLength - 1
      <4>1. \A d \in DayNums : d * DayLength \in Nat /\ (d + 1) * DayLength = d * DayLength + DayLength
        BY ExperimentAssumption, SMT DEF DayNums
      <4>2. QED
        BY <4>1, ExperimentAssumption DEF NoDays, NoDay
    <3>3. CompleteDays(r) = {}
      BY <3>1, <3>2, ExperimentAssumption DEF CompleteDays
    <3>4. DaysWithin(MinutesOf(batches)) = {}
      BY <3>1, <3>2 DEF DaysWithin
    <3>5. QED
      BY <3>3, <3>4
  <2>2. CASE r.taken # <<>>
    <3>1. 1 \in 1..n /\ n \in 1..n
      BY <1>1, <2>2
    <3>2. /\ r.cursor = r.taken[n].hi /\ StartOf(r) <= r.cursor
          /\ MinutesOf(batches) = StartOf(r)..r.cursor
          /\ r.days = Coverage(NoDays, StartOf(r), r.cursor)
      BY <2>2 DEF RunOf
    <3>3. StartOf(r) \in Nat /\ r.cursor \in Nat
      BY <1>1, <3>1, <3>2 DEF StartOf
    <3>4. QED
      BY <3>2, <3>3, CompleteIsCovered
  <2>3. QED
    BY <2>1, <2>2
<1>4. ToSet(r.orders) = orders
  <2>1. \A o, p \in [at : Minutes, settled : BOOLEAN] : o.at = p.at /\ o.settled = p.settled => o = p
    OBVIOUS
  <2>2. ASSUME NEW i \in 1..m, NEW k \in 1..n, r.orders[i].at = r.taken[k].hi
        PROVE  r.orders[i] = [at |-> r.taken[k].hi, settled |-> r.taken[k].hi + Lasts <= r.cursor]
    <3>1. r.orders[i].settled = (r.taken[k].hi + Lasts <= r.cursor)
      <4>1. r.orders[i].settled \in BOOLEAN
        BY <1>1
      <4>2. r.orders[i].settled <=> r.taken[k].hi + Lasts <= r.cursor
        BY <1>2, <2>2
      <4>3. QED
        BY <4>1, <4>2
    <3>2. QED
      BY <1>1, <2>2, <3>1
  <2>3. ASSUME NEW i \in 1..m PROVE r.orders[i] \in orders
    <3>1. PICK k \in 1..n : r.orders[i].at = r.taken[k].hi /\ DecidesToOpen(a, r.taken[k].hi)
      BY <1>2
    <3>2. r.taken[k] \in batches
      BY <1>1
    <3>3. QED
      BY <2>2, <3>1, <3>2
  <2>4. ASSUME NEW b \in batches, DecidesToOpen(a, b.hi)
        PROVE  [at |-> b.hi, settled |-> b.hi + Lasts <= r.cursor] \in ToSet(r.orders)
    <3>1. PICK k \in 1..n : b = r.taken[k]
      BY <1>1
    <3>2. PICK i \in 1..m : r.orders[i].at = r.taken[k].hi
      BY <1>2, <2>4, <3>1
    <3>3. QED
      BY <1>1, <2>2, <3>1, <3>2
  <2>5. QED
    BY <1>1, <2>3, <2>4
<1>5. Cardinality(ToSet(r.orders)) = m
  <2>1. r.orders \in [1..m -> ToSet(r.orders)]
    BY <1>1, LenProperties DEF OrderSeqs
  <2>2. \A i, j \in 1..m : r.orders[i] = r.orders[j] => i = j
    <3> SUFFICES ASSUME NEW i \in 1..m, NEW j \in 1..m, r.orders[i] = r.orders[j], i # j
                 PROVE  FALSE
      OBVIOUS
    <3>1. r.orders[i].at \in Int /\ (i < j \/ j < i)
      BY <1>1, ExperimentAssumption DEF Minutes
    <3>2. /\ i < j => r.orders[i].at < r.orders[j].at
          /\ j < i => r.orders[j].at < r.orders[i].at
      BY <1>2
    <3>3. QED
      BY <3>1, <3>2
  <2>3. r.orders \in Bijection(1..m, ToSet(r.orders))
    BY <1>1, <2>1, <2>2 DEF Bijection, Injection, Surjection, IsInjective
  <2>4. QED
    BY <1>1, <2>3, FS_CountingElements DEF ExistsBijection
<1>6. r.cursor = IF r.taken = <<>> THEN None ELSE Last(r.taken).hi
  BY DEF RunOf, Last
<1>7. \A k \in 1..n - 1 : r.taken[k + 1].lo = r.taken[k].hi + 1
  BY DEF RunOf
<1>8. QED
  BY <1>3, <1>4, <1>5, <1>6, <1>7 DEF IsOf
\* Runs that are the same are of the same batches.
LEMMA SameRunOf ==
  ASSUME NEW a, NEW r, NEW s, SameRun(r, s), RunOf(a, r)
  PROVE  RunOf(a, s)
  BY DEF SameRun, RunOf, StartOf

LEMMA FreshRunOf == \A a \in Arms : RunOf(a, FreshRuntime)
  BY EmptySeq DEF RunOf, FreshRuntime, NoDays, NoDay

\* What a step stores of an arm: nothing new, nothing at all, or one batch more.
LEMMA StoredRuns ==
  ASSUME TypeOK, Stored, [Next]_vars
  PROVE  \/ \A a \in Arms : SameRun(Checkpoint(a), Checkpoint(a)')
         \/ /\ Start /\ rows' = [a \in Arms |-> NoRows]
            /\ \A a \in Arms : SameRun(FreshRuntime, Checkpoint(a)')
         \/ /\ ArmTakes /\ eventQ # <<>> /\ next \in Arms \ Skipped
            /\ Continues(rt[next], Batch) /\ ~Known(rt[next], Batch)
            /\ \A a \in Arms :
                 IF a = next THEN SameRun(Process(a, rt[a], Batch), Checkpoint(a)')
                 ELSE SameRun(Checkpoint(a), Checkpoint(a)')
<1>1. CASE rows' = rows
  BY <1>1 DEF SameRun, Checkpoint
<1>2. CASE Start /\ rows' # rows
  <2>1. PICK seed \in -1..now - 1, same \in BOOLEAN : BuildOptimizer(seed, same)
    BY <1>2 DEF Start
  <2>2. rows' = [a \in Arms |-> NoRows]
    BY <1>2, <2>1 DEF BuildOptimizer, CreateExperiment, disk
  <2>3. \A a \in Arms : SameRun(FreshRuntime, Checkpoint(a)')
    BY <2>2 DEF SameRun, Checkpoint, NoRows, FreshRuntime
  <2>4. QED
    BY <1>2, <2>2, <2>3
<1>3. CASE ArmTakes /\ rows' # rows
  <2> DEFINE processed == Process(next, rt[next], Batch)
  <2>1. /\ next \in Arms \ Skipped /\ eventQ # <<>>
        /\ Continues(rt[next], Batch) /\ ~Known(rt[next], Batch)
        /\ rows' = [rows EXCEPT ![next] =
                      [last |-> Batch.hi, state |-> [processed EXCEPT !.orders = <<>>],
                       orders |-> processed.orders, gaps |-> rows[next].gaps]]
    BY <1>3, TakesEffect
  <2>2. processed \in Runtimes /\ rows \in [Arms -> Rows]
    BY <2>1, BatchIsPast, ProcessType DEF TypeOK
  <2>3. [[processed EXCEPT !.orders = <<>>] EXCEPT !.orders = processed.orders] = processed
    BY <2>2 DEF Runtimes
  <2> HIDE DEF processed
  <2>4. /\ rows'[next].state = [processed EXCEPT !.orders = <<>>]
        /\ rows'[next].orders = processed.orders
        /\ \A a \in Arms : a # next => rows'[a] = rows[a]
    BY <2>1, <2>2
  <2>5. \A a \in Arms : IF a = next THEN Checkpoint(a)' = processed ELSE Checkpoint(a)' = Checkpoint(a)
    BY <2>3, <2>4 DEF Checkpoint
  <2>6. \A a \in Arms : a = next => processed = Process(a, rt[a], Batch)
    BY DEF processed
  <2>7. QED
    BY <1>3, <2>1, <2>5, <2>6 DEF SameRun
<1>4. CASE ArmFreezes /\ rows' # rows
  <2> DEFINE r == [rt[next] EXCEPT !.invalid = TRUE]
  <2>1. /\ next \in Arms \ Skipped
        /\ rows' = [rows EXCEPT ![next] = [rows[next] EXCEPT
                      !.last = Batch.hi, !.state = [r EXCEPT !.orders = <<>>], !.gaps = @ + 1]]
    BY <1>4, FreezesEffect
  <2>2. rt[next] \in Runtimes /\ rows \in [Arms -> Rows] /\ rows[next] \in Rows
        /\ SameRun(rt[next], Checkpoint(next)) /\ next \in Arms
    BY <1>4, <2>1 DEF TypeOK, Stored, MemoryIsStored, Skipped, ArmFreezes, Turn
  <2>3. /\ rows'[next].state = [r EXCEPT !.orders = <<>>]
        /\ rows'[next].orders = rows[next].orders
        /\ \A a \in Arms : a # next => rows'[a] = rows[a]
    BY <2>1, <2>2 DEF Rows
  <2>4. /\ [[r EXCEPT !.orders = <<>>] EXCEPT !.orders = rows[next].orders].cursor = rt[next].cursor
        /\ [[r EXCEPT !.orders = <<>>] EXCEPT !.orders = rows[next].orders].days = rt[next].days
        /\ [[r EXCEPT !.orders = <<>>] EXCEPT !.orders = rows[next].orders].taken = rt[next].taken
        /\ [[r EXCEPT !.orders = <<>>] EXCEPT !.orders = rows[next].orders].orders = rows[next].orders
    BY <2>2 DEF Runtimes
  <2>5. Checkpoint(next).orders = rows[next].orders
    BY <2>2, CheckpointFields
  <2> HIDE DEF r
  <2>6. \A a \in Arms : SameRun(Checkpoint(a), Checkpoint(a)')
    <3> SUFFICES ASSUME NEW a \in Arms
                 PROVE  SameRun(Checkpoint(a), Checkpoint(a)')
      OBVIOUS
    <3>1. CASE a = next
      <4>1. Checkpoint(a)' = [[r EXCEPT !.orders = <<>>] EXCEPT !.orders = rows[next].orders]
        BY <2>3, <3>1 DEF Checkpoint
      <4>2. QED
        BY <2>2, <2>4, <2>5, <3>1, <4>1 DEF SameRun
    <3>2. CASE a # next
      BY <2>3, <3>2 DEF SameRun, Checkpoint
    <3>3. QED
      BY <3>1, <3>2
  <2>7. QED
    BY <2>6
<1>5. QED
  BY <1>1, <1>2, <1>3, <1>4
     DEF Next, Service, Tick, Publish, Stop, TakeBatch, AnalyserFails, Arm, ArmSkips, EndBatch, Applied,
         Refused, vars, memory, disk

LEMMA StepKeepsRuns == TypeOK /\ Stored /\ RunsOf /\ [Next]_vars => RunsOf'
<1> SUFFICES ASSUME TypeOK, Stored, RunsOf, [Next]_vars, NEW a \in Arms
             PROVE  RunOf(a, Checkpoint(a)')
  BY DEF RunsOf
<1>1. RunOf(a, Checkpoint(a)) /\ RunOf(a, FreshRuntime)
  BY FreshRunOf DEF RunsOf
<1>2. CASE SameRun(Checkpoint(a), Checkpoint(a)') \/ SameRun(FreshRuntime, Checkpoint(a)')
  BY <1>1, <1>2, SameRunOf
<1>3. CASE /\ eventQ # <<>> /\ a \in Arms \ Skipped /\ Continues(rt[a], Batch) /\ worker # "down"
           /\ SameRun(Process(a, rt[a], Batch), Checkpoint(a)')
  <2>1. SameRun(Checkpoint(a), rt[a]) /\ rt[a] \in Runtimes /\ Batch \in Batches
    BY <1>3, BatchIsPast DEF Stored, MemoryIsStored, SameRun, Skipped, TypeOK
  <2>2. RunOf(a, rt[a])
    BY <1>1, <2>1, SameRunOf
  <2>3. RunOf(a, Process(a, rt[a], Batch))
    BY <1>3, <2>1, <2>2, RunExtends
  <2>4. QED
    BY <1>3, <2>3, SameRunOf
<1>4. QED
  BY <1>2, <1>3, StoredRuns DEF ArmTakes, Turn

LEMMA AlwaysRuns == Spec => []RunsOf
<1>1. Init => RunsOf
  <2> SUFFICES ASSUME Init, NEW a \in Arms
               PROVE  RunOf(a, Checkpoint(a))
    BY DEF RunsOf
  <2>1. SameRun(FreshRuntime, Checkpoint(a))
    BY DEF Init, SameRun, Checkpoint, NoRows, FreshRuntime
  <2>2. QED
    BY <2>1, FreshRunOf, SameRunOf
<1>2. QED
  BY <1>1, StepKeepsRuns, AlwaysStored, ExperimentTypeCorrect, PTL DEF Spec

\* What an arm has committed is the outcome of the batches it took: whatever
\* failed, crashed or was replayed, no order is lost, doubled or left open, no
\* minute is passed over, and a day is complete if and only if the arm took
\* each of its minutes.  So is what an arm that did not fail holds in memory.
THEOREM ArmsAreTheirBatches == Spec => []ArmIsItsBatches
<1>1. ASSUME TypeOK, Stored, RunsOf
      PROVE  ArmIsItsBatches
  <2> SUFFICES ASSUME NEW a \in Arms
               PROVE  /\ IsOf(a, Checkpoint(a))
                      /\ a \notin failed => IsOf(a, rt[a])
    BY DEF ArmIsItsBatches, Checkpoint
  <2>1. RunOf(a, Checkpoint(a)) /\ Checkpoint(a) \in Runtimes /\ rt[a] \in Runtimes
    BY <1>1, CheckpointFields DEF RunsOf, TypeOK
  <2>2. a \notin failed => RunOf(a, rt[a])
    <3>1. CASE worker = "down"
      BY <1>1, <3>1, FreshRunOf DEF Stored, DownKnowsNothing
    <3>2. CASE worker # "down"
      <4>1. a \notin failed => SameRun(Checkpoint(a), rt[a])
        BY <1>1, <3>2 DEF Stored, MemoryIsStored, SameRun
      <4>2. QED
        BY <2>1, <4>1, SameRunOf
    <3>3. QED
      BY <3>1, <3>2
  <2>3. QED
    BY <2>1, <2>2, RunIsOf
<1>2. QED
  BY <1>1, AlwaysRuns, AlwaysStored, ExperimentTypeCorrect, PTL DEF Spec
-----------------------------------------------------------------------------
(* Proof: the arms in step *)

\* An arm has rows if and only if it took a batch.
LEMMA RowsHaveRun ==
  ASSUME TypeOK, Stored, RunsOf, NEW a \in Arms
  PROVE  /\ rows[a].last # None <=> rows[a].state.taken # <<>>
         /\ rows[a].last # None <=> rows[a].state.cursor # None
         /\ rows[a].state.taken \in Seq(Batches)
<1>1. /\ Checkpoint(a).taken = rows[a].state.taken /\ Checkpoint(a).cursor = rows[a].state.cursor
      /\ Checkpoint(a) \in Runtimes
  BY CheckpointFields
<1>2. Checkpoint(a).taken \in Seq(Batches)
  BY <1>1 DEF Runtimes
<1>3. Checkpoint(a).taken = <<>> => Checkpoint(a).cursor = None
  BY DEF RunsOf, RunOf
<1>4. rows[a].last = None => Checkpoint(a).taken = <<>> /\ Checkpoint(a).cursor = None
  BY DEF Stored, RowsSound, SameRun, FreshRuntime
<1>5. rows[a].last # None => rows[a].state.cursor # None
  BY DEF Stored, RowsSound
<1>6. QED
  BY <1>1, <1>2, <1>3, <1>4, <1>5

\* What an arm that did not fail holds in memory tells whether it has rows.
LEMMA MemoryHasRun ==
  ASSUME TypeOK, Stored, RunsOf, worker # "down", NEW a \in Arms \ failed
  PROVE  /\ rt[a].taken = rows[a].state.taken /\ rt[a].cursor = rows[a].state.cursor
         /\ rt[a].days = rows[a].state.days
         /\ rt[a].cursor # None <=> rows[a].last # None
         /\ rt[a].invalid => rows[a].last # None
<1>1. SameRun(rt[a], Checkpoint(a)) /\ (rt[a].invalid => rt[a].cursor # None)
  BY DEF Stored, MemoryIsStored
<1>2. QED
  BY <1>1, CheckpointFields, RowsHaveRun DEF SameRun

LEMMA CursorsTyped ==
  ASSUME TypeOK, NEW a \in Arms
  PROVE  /\ rt[a].cursor \in None..MaxMinute /\ rows[a].state.cursor \in None..MaxMinute
         /\ None = -1 /\ now \in Nat /\ toPublish \in Int /\ next \in Nat
<1>1. rt[a] \in Runtimes /\ rows[a] \in Rows
  BY DEF TypeOK
<1>2. rows[a].state \in Runtimes
  BY <1>1 DEF Rows
<1>3. QED
  BY <1>1, <1>2, ExperimentAssumption DEF Runtimes, TypeOK, None, Minutes, Arms, NoneActive

LEMMA InitInStep == Init => InStep
<1> SUFFICES ASSUME Init PROVE InStep
  OBVIOUS
<1>1. \A a \in Arms : rows[a].last = None /\ rows[a].state.taken = <<>>
  BY DEF Init, NoRows, FreshRuntime
<1>2. QED
  BY <1>1 DEF Init, InStep, StartTogether, StandAtBatch, ChosenHaveRun

\* Until a batch is taken, nobody asks which arms stand where in it.
LEMMA OtherStepsKeepInStep ==
  ASSUME TypeOK, Stored, InStep, Tick \/ Publish \/ TakeBatch \/ Refused \/ UNCHANGED vars
  PROVE  InStep'
<1>1. UNCHANGED <<rt, failed, retired, exp, rows, promotion>> /\ (asks' = asks \/ asks' = Nothing)
      /\ Skipped' = Skipped
  BY DEF Tick, Publish, TakeBatch, Refused, vars, memory, disk, Skipped
<1>2. ChosenHaveRun'
  BY <1>1 DEF InStep, ChosenHaveRun
<1>3. worker = "batch" => /\ worker' = worker /\ eventQ' = eventQ /\ next' = next
  BY DEF Tick, Publish, TakeBatch, Refused, vars, memory, TypeOK
<1>4. worker' # "down" => worker # "down"
  BY DEF Tick, Publish, TakeBatch, Refused, vars, memory
<1>5. StartTogether'
  BY <1>1, <1>3, <1>4 DEF InStep, StartTogether, Batch
<1>6. /\ worker' # "down" => \A a \in Arms \ failed : rt[a].cursor < toPublish'
      /\ eventQ' # <<>> => \A a \in Arms \ failed : rt[a].cursor <= Head(eventQ').hi
  <2>1. CASE Publish
    <3>1. PICK hi \in toPublish..now :
             /\ toPublish' = hi + 1
             /\ \/ eventQ' = <<[lo |-> toPublish, hi |-> hi]>>
                \/ eventQ' = eventQ
      BY <2>1 DEF Publish
    <3>2. worker # "down" /\ toPublish \in 1..now + 1
      BY <2>1 DEF Publish, Stored, DownKnowsNothing, QueueIsPast
    <3>3. Head(<<[lo |-> toPublish, hi |-> hi]>>).hi = hi
      OBVIOUS
    <3>4. \A a \in Arms \ failed : rt[a].cursor < toPublish /\ rt[a].cursor \in Int /\ now \in Nat
      BY <3>2, CursorsTyped DEF InStep, StandAtBatch
    <3>5. QED
      BY <3>1, <3>2, <3>3, <3>4 DEF InStep, StandAtBatch
  <2>2. CASE ~Publish
    <3>1. toPublish' = toPublish /\ eventQ' = eventQ
      BY <2>2 DEF Tick, TakeBatch, Refused, vars, monitor
    <3>2. QED
      BY <1>4, <3>1 DEF InStep, StandAtBatch
  <2>3. QED
    BY <2>1, <2>2
<1>7. worker' = "batch" =>
         /\ \A a \in Arms \ Skipped : a < next' /\ ~rt[a].invalid => rt[a].cursor = Batch'.hi
         /\ next' > NumArms + 1 => Arms \subseteq Skipped
  <2>1. CASE worker = "batch"
    BY <1>3, <2>1 DEF InStep, StandAtBatch, Batch
  <2>2. CASE worker # "batch" /\ worker' = "batch"
    <3>1. next' = IF Arms \subseteq Skipped THEN NoneActive ELSE 1
      BY <2>2 DEF Tick, Publish, TakeBatch, Refused, vars, memory
    <3>2. QED
      BY <3>1, ExperimentAssumption DEF NoneActive, Arms
  <2>3. QED
    BY <2>1, <2>2
<1>8. StandAtBatch'
  BY <1>1, <1>6, <1>7 DEF StandAtBatch, Batch
<1>9. QED
  BY <1>2, <1>5, <1>8 DEF InStep

\* The arms of which the analysis failed stand nowhere any more.
LEMMA AnalyserKeepsInStep == TypeOK /\ Stored /\ InStep /\ AnalyserFails => InStep'
<1> SUFFICES ASSUME TypeOK, Stored, InStep, AnalyserFails PROVE InStep'
  OBVIOUS
<1>1. /\ worker = "idle" /\ worker' = "batch" /\ next' = 1
      /\ UNCHANGED <<toPublish, eventQ, retired, promotion, asks, exp, rows>>
      /\ failed \subseteq failed' /\ \A a \in Arms : a \notin failed' => rt'[a] = rt[a]
  BY AnalyserEffect DEF monitor, disk
<1>2. ChosenHaveRun'
  BY <1>1 DEF InStep, ChosenHaveRun
<1>3. StartTogether'
  BY <1>1 DEF InStep, StartTogether
<1>4. (\A a \in Arms : ~(a < 1)) /\ ~(1 > NumArms + 1)
  BY ExperimentAssumption DEF Arms
<1>5. StandAtBatch'
  BY <1>1, <1>4 DEF InStep, StandAtBatch
<1>6. QED
  BY <1>2, <1>3, <1>5 DEF InStep

LEMMA StopKeepsInStep == InStep /\ Stop => InStep'
<1> SUFFICES ASSUME InStep, Stop PROVE InStep'
  OBVIOUS
<1>1. /\ worker' = "down" /\ eventQ' = <<>> /\ rows' = rows /\ exp' = exp
      /\ retired' = {} /\ promotion' = Nothing /\ asks' = Nothing
  BY DEF Stop, disk
<1>2. QED
  BY <1>1 DEF InStep, StartTogether, StandAtBatch, ChosenHaveRun

\* The experiment is taken up with all arms at work or none.
LEMMA StartKeepsInStep == TypeOK /\ Stored /\ InStep /\ Start => InStep'
<1> SUFFICES ASSUME TypeOK, Stored, InStep, Start PROVE InStep'
  OBVIOUS
<1>1. PICK seed \in -1..now - 1, same \in BOOLEAN :
          /\ \E first \in seed + 1..now : eventQ' = <<[lo |-> first, hi |-> now]>>
          /\ BuildOptimizer(seed, same)
  BY DEF Start
<1>2. /\ worker' = "idle" /\ toPublish' = now + 1 /\ failed' = {}
      /\ promotion' = Nothing /\ asks' = Nothing
  BY <1>1 DEF Start, BuildOptimizer
<1>3. Head(eventQ').hi = now
  BY <1>1
<1>4. CASE same /\ Reusable(seed)
  <2>1. /\ rows' = rows /\ exp' = exp /\ retired' = exp.retired
        /\ rt' = [a \in Arms |-> Recovered(a, seed)]
    BY <1>1, <1>4 DEF BuildOptimizer, disk
  <2>2. ChosenHaveRun'
    BY <1>2, <2>1 DEF InStep, ChosenHaveRun
  <2>3. \A a, b \in Arms : ~(rows[b].last = None /\ rows[a].last # None)
    BY <1>4 DEF Reusable, IncompleteCheckpoint, Cursors
  <2>4. StartTogether'
    BY <2>1, <2>3 DEF InStep, StartTogether
  <2>5. ASSUME NEW a \in Arms
        PROVE  rt'[a].cursor <= now /\ rt'[a].cursor \in Int
    <3>1. CASE rows[a].last = None
      BY <2>1, <3>1, CursorsTyped DEF Recovered, FreshRuntime
    <3>2. CASE rows[a].last # None
      <4>1. rt'[a] = [Checkpoint(a) EXCEPT !.invalid = @ \/ seed > Checkpoint(a).cursor]
        BY <2>1, <3>2 DEF Recovered
      <4>2. rt'[a].cursor = rows[a].state.cursor
        BY <4>1, CheckpointFields DEF Runtimes
      <4>3. QED
        BY <4>2, CursorsTyped DEF Stored, RowsSound
    <3>3. QED
      BY <3>1, <3>2
  <2>6. StandAtBatch'
    BY <1>2, <1>3, <2>5, ExperimentAssumption DEF StandAtBatch, TypeOK, Minutes
  <2>7. QED
    BY <2>2, <2>4, <2>6 DEF InStep
<1>5. CASE ~(same /\ Reusable(seed))
  <2>1. /\ rows' = [a \in Arms |-> NoRows] /\ rt' = [a \in Arms |-> FreshRuntime]
        /\ exp'.retired = {} /\ exp'.history = <<>> /\ retired' = {}
    BY <1>1, <1>5 DEF BuildOptimizer, CreateExperiment
  <2>2. \A a \in Arms : rows'[a].last = None /\ rows'[a].state.taken = <<>> /\ rt'[a].cursor = None
    BY <2>1 DEF NoRows, FreshRuntime
  <2>3. StandAtBatch'
    BY <1>2, <1>3, <2>2, ExperimentAssumption DEF StandAtBatch, TypeOK, Minutes, None
  <2>4. QED
    BY <1>2, <2>1, <2>2, <2>3 DEF InStep, StartTogether, ChosenHaveRun
<1>6. QED
  BY <1>4, <1>5

\* What an arm's turn in a batch does: it takes the batch, or its rows stand,
\* or it is frozen and only the event is recorded.
ArmTakesBatch ==
    /\ next \notin Skipped /\ Continues(rt[next], Batch)
    /\ rt'[next].cursor = Batch.hi
    /\ rows'[next].last = Batch.hi
    /\ rows'[next].state.taken = Append(rt[next].taken, Batch)

ArmRests ==
    /\ rows' = rows
    /\ \/ next \in failed'
       \/ /\ rt'[next].cursor = rt[next].cursor
          /\ \/ next \in Skipped \/ rt'[next].invalid
             \/ Known(rt[next], Batch)

ArmIsFrozen ==
    /\ next \notin Skipped /\ rt[next].cursor # None
    /\ rt'[next].cursor = rt[next].cursor /\ rt'[next].invalid
    /\ rows'[next].last = Batch.hi
    /\ rows'[next].state.taken = rt[next].taken

LEMMA ArmOutcome ==
  ASSUME TypeOK, Stored, RunsOf, Arm
  PROVE  /\ worker = "batch" /\ worker' = "batch" /\ next \in Arms /\ next' = next + 1
         /\ UNCHANGED <<toPublish, eventQ, exp, retired, promotion, asks>>
         /\ failed \subseteq failed' /\ failed' \subseteq failed \cup {next}
         /\ \A a \in Arms \ {next} : rt'[a] = rt[a] /\ rows'[a] = rows[a]
         /\ ArmTakesBatch \/ ArmRests \/ ArmIsFrozen
<1>1. /\ worker = "batch" /\ worker' = "batch" /\ next \in Arms /\ next' = next + 1
      /\ UNCHANGED <<toPublish, eventQ, exp, retired, promotion, asks>>
  BY DEF Arm, ArmSkips, ArmTakes, ArmFreezes, Turn, Passed, monitor, disk, TypeOK
<1>2. rt \in [Arms -> Runtimes] /\ rows \in [Arms -> Rows] /\ rt[next] \in Runtimes
      /\ rt[next].taken \in Seq(Batches)
  BY <1>1 DEF TypeOK, Runtimes
<1>3. CASE ArmSkips
  <2>1. rt' = rt /\ rows' = rows /\ failed' = failed
    BY <1>3 DEF ArmSkips, disk
  <2>2. next \in Skipped \/ Known(rt[next], Batch) \/ rt[next].invalid
    BY <1>3 DEF ArmSkips
  <2>3. QED
    BY <1>1, <2>1, <2>2 DEF ArmRests
<1>4. CASE ArmTakes
  <2> DEFINE processed == Process(next, rt[next], Batch)
  <2>1. /\ next \notin Skipped /\ Continues(rt[next], Batch)
        /\ \/ /\ rt' = [rt EXCEPT ![next] = processed] /\ failed' = failed
              /\ rows' = [rows EXCEPT ![next] =
                            [last |-> Batch.hi, state |-> [processed EXCEPT !.orders = <<>>],
                             orders |-> processed.orders, gaps |-> rows[next].gaps]]
           \/ /\ rt' = [rt EXCEPT ![next] = [processed EXCEPT !.invalid = TRUE]]
              /\ failed' = failed \cup {next} /\ rows' = rows
    BY <1>4, TakesEffect
  <2>2. processed.cursor = Batch.hi /\ [processed EXCEPT !.orders = <<>>].taken = Append(rt[next].taken, Batch)
    BY <1>2 DEF Process, Runtimes
  <2> HIDE DEF processed
  <2>3. CASE failed' = failed \cup {next} /\ rows' = rows
    BY <1>1, <1>2, <2>1, <2>3 DEF ArmRests
  <2>4. CASE ~(failed' = failed \cup {next} /\ rows' = rows)
    <3>1. rt'[next] = processed /\ rows'[next].last = Batch.hi
          /\ rows'[next].state = [processed EXCEPT !.orders = <<>>] /\ failed' = failed
      BY <1>1, <1>2, <2>1, <2>4
    <3>2. ArmTakesBatch
      BY <2>1, <2>2, <3>1 DEF ArmTakesBatch
    <3>3. QED
      BY <1>1, <1>2, <2>1, <2>4, <3>1, <3>2
  <2>5. QED
    BY <2>3, <2>4
<1>5. CASE ArmFreezes
  <2> DEFINE r == [rt[next] EXCEPT !.invalid = TRUE]
  <2>1. /\ next \notin Skipped /\ rt' = [rt EXCEPT ![next] = r]
        /\ rt[next].invalid \/ ~Continues(rt[next], Batch)
        /\ \/ rows' = [rows EXCEPT ![next] = GapBundle(next, r, Batch.hi)] /\ failed' = failed
           \/ rows' = rows /\ (failed' = failed \/ failed' = failed \cup {next})
    BY <1>5 DEF ArmFreezes
  <2>2. r.invalid /\ r.cursor = rt[next].cursor /\ r.taken = rt[next].taken
        /\ [r EXCEPT !.orders = <<>>].taken = rt[next].taken
    BY <1>2 DEF Runtimes
  <2>3. rt[next].cursor # None
    BY <1>1, <2>1 DEF Stored, MemoryIsStored, Skipped, Continues
  <2> HIDE DEF r
  <2>4. rt'[next] = r
    BY <1>1, <1>2, <2>1
  <2>5. CASE rows' = rows
    BY <1>1, <1>2, <2>1, <2>2, <2>4, <2>5 DEF ArmRests
  <2>6. CASE rows' = [rows EXCEPT ![next] = GapBundle(next, r, Batch.hi)] /\ failed' = failed
    <3>1. rows[next] \in Rows
      BY <1>1, <1>2
    <3>2. GapBundle(next, r, Batch.hi).last = Batch.hi
          /\ GapBundle(next, r, Batch.hi).state = [r EXCEPT !.orders = <<>>]
      BY <3>1 DEF GapBundle, Rows
    <3>3. rows'[next] = GapBundle(next, r, Batch.hi)
      BY <1>1, <1>2, <2>6
    <3>4. ArmIsFrozen
      BY <2>1, <2>2, <2>3, <2>4, <3>2, <3>3 DEF ArmIsFrozen
    <3>5. QED
      BY <1>1, <1>2, <2>1, <2>6, <3>4
  <2>7. QED
    BY <2>1, <2>5, <2>6
<1>6. QED
  BY <1>3, <1>4, <1>5 DEF Arm

LEMMA ArmStandsAtBatch ==
  ASSUME TypeOK, Stored, RunsOf, InStep, Arm
  PROVE  StandAtBatch'
<1>1. /\ worker = "batch" /\ worker' = "batch" /\ next \in Arms /\ next' = next + 1
      /\ UNCHANGED <<toPublish, eventQ, retired>>
      /\ failed \subseteq failed' /\ failed' \subseteq failed \cup {next}
      /\ \A a \in Arms \ {next} : rt'[a] = rt[a]
      /\ ArmTakesBatch \/ ArmRests \/ ArmIsFrozen
  BY ArmOutcome
<1>2. eventQ # <<>> /\ Batch' = Batch /\ Skipped \subseteq Skipped' /\ failed' \subseteq Skipped'
  BY <1>1 DEF TypeOK, Batch, Skipped
<1>3. Batch.hi < toPublish /\ Batch.hi \in Int /\ toPublish \in Int
  BY <1>1, <1>2, BatchIsPast, CursorsTyped, ExperimentAssumption DEF Minutes
<1>4. \A a \in Arms : rt[a].cursor \in Int
  BY CursorsTyped DEF None
<1>5. \A a \in Arms \ failed : rt[a].cursor < toPublish /\ rt[a].cursor <= Batch.hi
  BY <1>1, <1>2 DEF InStep, StandAtBatch, Batch
<1>6. \A a \in Arms \ failed' : rt'[a].cursor < toPublish /\ rt'[a].cursor <= Batch.hi
  <2> SUFFICES ASSUME NEW a \in Arms \ failed'
               PROVE  rt'[a].cursor < toPublish /\ rt'[a].cursor <= Batch.hi
    OBVIOUS
  <2>1. CASE a # next
    BY <1>1, <1>5, <2>1
  <2>2. CASE a = next
    <3>1. rt'[a].cursor = Batch.hi \/ rt'[a].cursor = rt[a].cursor
      BY <1>1, <2>2 DEF ArmTakesBatch, ArmRests, ArmIsFrozen
    <3>2. QED
      BY <1>1, <1>3, <1>5, <3>1
  <2>3. QED
    BY <2>1, <2>2
<1>7. \A a \in Arms \ Skipped' : a < next + 1 /\ ~rt'[a].invalid => rt'[a].cursor = Batch.hi
  <2> SUFFICES ASSUME NEW a \in Arms \ Skipped', a < next + 1, ~rt'[a].invalid
               PROVE  rt'[a].cursor = Batch.hi
    OBVIOUS
  <2>1. CASE a # next
    <3>1. a < next
      BY <1>1, <2>1, ExperimentAssumption DEF Arms
    <3>2. QED
      BY <1>1, <1>2, <2>1, <3>1 DEF InStep, StandAtBatch
  <2>2. CASE a = next
    <3>1. rt'[a].cursor = Batch.hi \/ (rt'[a].cursor = rt[a].cursor /\ Known(rt[a], Batch))
      BY <1>1, <1>2, <2>2 DEF ArmTakesBatch, ArmRests, ArmIsFrozen
    <3>2. a \notin failed
      BY <1>2 DEF Skipped
    <3>3. QED
      BY <1>3, <1>4, <1>5, <3>1, <3>2 DEF Known
  <2>3. QED
    BY <2>1, <2>2
<1>8. ~(next + 1 > NumArms + 1)
  BY <1>1, ExperimentAssumption DEF Arms
<1>9. QED
  BY <1>1, <1>2, <1>6, <1>7, <1>8 DEF StandAtBatch, Batch

\* After its turn in a batch an arm that has rows began with this batch, if it
\* had none before, and where it began already otherwise.
LEMMA ArmStart ==
  ASSUME TypeOK, Stored, RunsOf, Arm, ArmTakesBatch \/ ArmIsFrozen
  PROVE  /\ rows'[next].last # None /\ rows'[next].state.taken # <<>>
         /\ rows[next].last = None => StartOf(rows'[next].state) = Batch.lo
         /\ rows[next].last # None => StartOf(rows'[next].state) = StartOf(rows[next].state)
<1>1. worker = "batch" /\ next \in Arms \ failed /\ eventQ # <<>>
  BY ArmOutcome DEF ArmTakesBatch, ArmIsFrozen, Skipped, TypeOK
<1>2. /\ rt[next].taken = rows[next].state.taken
      /\ rt[next].cursor # None <=> rows[next].last # None
  BY <1>1, MemoryHasRun
<1>3. /\ rows[next].last # None <=> rows[next].state.taken # <<>>
      /\ rows[next].state.taken \in Seq(Batches)
  BY <1>1, RowsHaveRun
<1>4. Batch \in Batches /\ Batch.hi # None
  BY <1>1, BatchIsPast, ExperimentAssumption DEF Minutes, None
<1>5. CASE ArmTakesBatch
  <2>1. rows'[next].state.taken = Append(rows[next].state.taken, Batch) /\ rows'[next].last # None
    BY <1>2, <1>4, <1>5 DEF ArmTakesBatch
  <2>2. \A t \in Seq(Batches) : /\ Append(t, Batch) # <<>>
                                /\ t = <<>> => Append(t, Batch)[1] = Batch
                                /\ t # <<>> => Append(t, Batch)[1] = t[1]
    BY <1>4, AppendProperties, EmptySeq, LenProperties
  <2>3. QED
    BY <1>3, <2>1, <2>2 DEF StartOf
<1>6. CASE ArmIsFrozen
  BY <1>2, <1>3, <1>4, <1>6 DEF ArmIsFrozen, StartOf
<1>7. QED
  BY <1>5, <1>6

LEMMA ArmKeepsInStep == TypeOK /\ Stored /\ RunsOf /\ InStep /\ Arm => InStep'
<1> SUFFICES ASSUME TypeOK, Stored, RunsOf, InStep, Arm PROVE InStep'
  OBVIOUS
<1>1. /\ worker = "batch" /\ worker' = "batch" /\ next \in Arms
      /\ UNCHANGED <<eventQ, exp, retired, promotion, asks>>
      /\ failed \subseteq failed'
      /\ \A a \in Arms \ {next} : rows'[a] = rows[a]
      /\ ArmTakesBatch \/ ArmRests \/ ArmIsFrozen
  BY ArmOutcome
<1>2. Batch' = Batch
  BY <1>1 DEF Batch
<1>3. \A a \in Arms : rows[a].last # None => rows'[a].last # None
  BY <1>1, ArmStart DEF ArmRests
<1>4. ChosenHaveRun'
  <2>1. /\ exp.retired \cup retired \subseteq Arms
        /\ \A i \in 1..Len(exp.history) : exp.history[i].to \in Arms
        /\ promotion # Nothing => promotion.to \in Arms
        /\ asks # Nothing => asks.to \in Arms /\ asks.from \in Arms
    <3>1. exp.history \in Seq(Requests) /\ exp.retired \subseteq Arms
      BY DEF TypeOK, Experiments
    <3>2. \A i \in 1..Len(exp.history) : exp.history[i] \in Requests
      BY <3>1, ElementOfSeq
    <3>3. QED
      BY <3>1, <3>2 DEF TypeOK, Requests
  <2>2. QED
    BY <1>1, <1>3, <2>1 DEF InStep, ChosenHaveRun
<1>5. StartTogether'
  <2>1. CASE ArmRests
    BY <1>1, <1>2, <2>1 DEF ArmRests, InStep, StartTogether
  <2>2. CASE ArmTakesBatch \/ ArmIsFrozen
    <3>1. /\ rows'[next].last # None /\ rows'[next].state.taken # <<>>
          /\ rows[next].last = None => StartOf(rows'[next].state) = Batch.lo
          /\ rows[next].last # None => StartOf(rows'[next].state) = StartOf(rows[next].state)
      BY <2>2, ArmStart
    <3>2. next \notin failed
      BY <2>2 DEF ArmTakesBatch, ArmIsFrozen, Skipped
    <3>3. \A a \in Arms : rows[a].last # None <=> rows[a].state.taken # <<>>
      BY RowsHaveRun
    <3>4. \A a \in Arms \ {next} : rows'[a].state.taken # <<>> =>
             StartOf(rows'[a].state) = StartOf(rows'[next].state)
      BY <1>1, <3>1, <3>2, <3>3 DEF InStep, StartTogether
    <3>5. \A a, b \in Arms : b \notin failed' /\ rows'[b].last = None /\ rows'[a].last # None =>
             StartOf(rows'[a].state) = Batch.lo
      <4> SUFFICES ASSUME NEW a \in Arms, NEW b \in Arms,
                          b \notin failed', rows'[b].last = None, rows'[a].last # None
                   PROVE  StartOf(rows'[a].state) = Batch.lo
        OBVIOUS
      <4>1. b # next /\ rows[b].last = None /\ b \notin failed
        BY <1>1, <3>1
      <4>2. \A c \in Arms : rows[c].last # None => StartOf(rows[c].state) = Batch.lo
        BY <1>1, <4>1 DEF InStep, StartTogether
      <4>3. QED
        BY <1>1, <3>1, <4>2
    <3>6. QED
      BY <1>1, <1>2, <3>4, <3>5 DEF StartTogether
  <2>3. QED
    BY <1>1, <2>1, <2>2
<1>6. QED
  BY <1>4, <1>5, ArmStandsAtBatch DEF InStep

\* At the end of a batch every arm that is still in the running has taken it,
\* unless it was frozen, and has rows.
LEMMA AllHaveRun ==
  ASSUME TypeOK, Stored, RunsOf, InStep, EndBatch, NEW a \in Arms \ Skipped
  PROVE  /\ ~rt[a].invalid => rt[a].cursor = Batch.hi
         /\ Batch.hi # None /\ worker # "down" /\ a \notin failed
         /\ rows[a].last # None
<1>1. worker = "batch" /\ next > NumArms /\ next \in 1..NoneActive /\ eventQ # <<>>
  BY DEF EndBatch, TypeOK
<1>2. ~(next > NumArms + 1)
  BY <1>1 DEF InStep, StandAtBatch
<1>3. a < next
  BY <1>1, ExperimentAssumption DEF Arms, NoneActive
<1>4. ~rt[a].invalid => rt[a].cursor = Batch.hi
  BY <1>1, <1>3 DEF InStep, StandAtBatch
<1>5. Batch.hi # None
  BY <1>1, BatchIsPast, ExperimentAssumption DEF Minutes, None
<1>6. a \in Arms \ failed /\ worker # "down"
  BY <1>1 DEF Skipped
<1>7. rows[a].last # None
  BY <1>4, <1>5, <1>6, MemoryHasRun
<1>8. QED
  BY <1>4, <1>5, <1>6, <1>7

LEMMA EndKeepsInStep == TypeOK /\ Stored /\ RunsOf /\ InStep /\ EndBatch => InStep'
<1> SUFFICES ASSUME TypeOK, Stored, RunsOf, InStep, EndBatch PROVE InStep'
  OBVIOUS
<1>1. /\ worker = "batch" /\ worker' = "idle" /\ eventQ' = <<>>
      /\ UNCHANGED <<toPublish, rt, failed, retired, exp, rows>>
  BY BatchIsPast DEF EndBatch, disk, monitor, TypeOK
<1>2. StandAtBatch'
  BY <1>1 DEF InStep, StandAtBatch
<1>3. \A a, b \in Arms : b \notin failed /\ rows[b].last = None => rows[a].last = None
  <2> SUFFICES ASSUME NEW b \in Arms, b \notin failed, rows[b].last = None
               PROVE  FALSE
    OBVIOUS
  <2>1. b \notin retired
    BY DEF InStep, ChosenHaveRun
  <2>2. QED
    BY <2>1, AllHaveRun DEF Skipped
<1>4. StartTogether'
  BY <1>1, <1>3 DEF InStep, StartTogether
<1>5. \A s : Evaluated(s, Batch.hi) => rows[s.to].last # None
  <2> SUFFICES ASSUME NEW s, Evaluated(s, Batch.hi)
               PROVE  rows[s.to].last # None
    OBVIOUS
  <2>1. s.to \in Arms \ Skipped
    BY DEF Evaluated, Eligible, Skipped
  <2>2. QED
    BY <2>1, AllHaveRun
<1>6. /\ \/ promotion' = Nothing
         \/ Evaluated(promotion', Batch.hi)
         \/ promotion' = promotion /\ asks' = asks
      /\ \/ asks' = asks
         \/ asks = Nothing /\ AsksRollback(Batch.hi)
         \/ asks = Nothing /\ \E s : AsksPromotion(s, Batch.hi)
  BY EndOutcome
<1>7. promotion' # Nothing => rows[promotion'.to].last # None
  BY <1>5, <1>6 DEF InStep, ChosenHaveRun
<1>8. asks' # Nothing => rows[IF asks'.kind = "PROMOTION" THEN asks'.to ELSE asks'.from].last # None
  <2>1. CASE asks' = asks
    BY <2>1 DEF InStep, ChosenHaveRun
  <2>2. CASE AsksRollback(Batch.hi)
    <3>1. /\ exp.history # <<>> /\ LatestChange.kind = "PROMOTION" /\ LatestChange.to = champion
          /\ asks'.kind = "ROLLBACK" /\ asks'.from = champion
      BY <2>2 DEF AsksRollback
    <3>2. Len(exp.history) \in 1..Len(exp.history) /\ LatestChange = exp.history[Len(exp.history)]
      BY <3>1, EmptySeq, LenProperties DEF LatestChange, Last, TypeOK, Experiments
    <3>3. QED
      BY <3>1, <3>2 DEF InStep, ChosenHaveRun
  <2>3. CASE \E s : AsksPromotion(s, Batch.hi)
    <3>1. PICK s : AsksPromotion(s, Batch.hi)
      BY <2>3
    <3>2. rows[s.to].last # None
      BY <1>5, <3>1 DEF AsksPromotion, InStep, ChosenHaveRun
    <3>3. asks'.kind = "PROMOTION" /\ asks'.to = s.to
      BY <3>1 DEF AsksPromotion
    <3>4. QED
      BY <3>2, <3>3
  <2>4. QED
    BY <1>6, <2>1, <2>2, <2>3
<1>9. ChosenHaveRun'
  BY <1>1, <1>7, <1>8 DEF InStep, ChosenHaveRun
<1>10. QED
  BY <1>2, <1>4, <1>9 DEF InStep

LEMMA AppliedKeepsInStep == TypeOK /\ InStep /\ Applied => InStep'
<1> SUFFICES ASSUME TypeOK, InStep, Applied PROVE InStep'
  OBVIOUS
<1>1. /\ asks \in Requests /\ asks # Nothing /\ asks' = Nothing /\ worker = "idle"
      /\ UNCHANGED <<toPublish, eventQ, worker, rt, failed, rows, promotion>>
  BY RecordEffect DEF Applied
<1>2. PICK at \in asks.at..now :
         LET new == [kind |-> asks.kind, from |-> asks.from, to |-> asks.to, at |-> at]
         IN  /\ Len(exp'.history) = Len(exp.history) + 1
             /\ \A i \in 1..Len(exp.history) : exp'.history[i] = exp.history[i]
             /\ exp'.history[Len(exp.history) + 1] = new
             /\ exp'.retired = IF asks.kind = "ROLLBACK" THEN exp.retired \cup {asks.from}
                                                         ELSE exp.retired
             /\ retired' = IF asks.kind = "ROLLBACK" THEN retired \cup {asks.from} ELSE retired
  BY RecordEffect
<1>3. Len(exp.history) \in Nat
  BY LenProperties DEF TypeOK, Experiments
<1>4. rows[IF asks.kind = "PROMOTION" THEN asks.to ELSE asks.from].last # None
  BY <1>1 DEF InStep, ChosenHaveRun
<1>5. \A i \in 1..Len(exp'.history) :
         exp'.history[i].kind = "PROMOTION" => rows[exp'.history[i].to].last # None
  <2> SUFFICES ASSUME NEW i \in 1..Len(exp'.history), exp'.history[i].kind = "PROMOTION"
               PROVE  rows[exp'.history[i].to].last # None
    OBVIOUS
  <2>1. CASE i \in 1..Len(exp.history)
    BY <1>2, <2>1 DEF InStep, ChosenHaveRun
  <2>2. CASE i = Len(exp.history) + 1
    BY <1>2, <1>4, <2>2
  <2>3. QED
    BY <1>2, <1>3, <2>1, <2>2
<1>6. \A a \in exp'.retired \cup retired' : rows[a].last # None
  BY <1>2, <1>4 DEF InStep, ChosenHaveRun
<1>7. ChosenHaveRun'
  BY <1>1, <1>5, <1>6 DEF InStep, ChosenHaveRun
<1>8. StartTogether' /\ StandAtBatch'
  BY <1>1 DEF InStep, StartTogether, StandAtBatch
<1>9. QED
  BY <1>7, <1>8 DEF InStep

LEMMA StepKeepsInStep == TypeOK /\ Stored /\ RunsOf /\ InStep /\ [Next]_vars => InStep'
BY OtherStepsKeepInStep, StartKeepsInStep, StopKeepsInStep, ArmKeepsInStep, EndKeepsInStep,
   AppliedKeepsInStep, AnalyserKeepsInStep DEF Next, Service

LEMMA AlwaysInStep == Spec => []InStep
BY InitInStep, StepKeepsInStep, AlwaysRuns, AlwaysStored, ExperimentTypeCorrect, PTL DEF Spec

\* The evaluation compares like with like: the arms that are neither frozen
\* nor failed nor retired have the same complete days, although each arm
\* commits by itself and a crash can come between two of them.
THEOREM ArmsAreComparable == Spec => LikeForLike
<1>1. ASSUME TypeOK, Stored, RunsOf, InStep, [Next]_vars
      PROVE  [evaluatedDay' # evaluatedDay /\ worker' = "idle" /\ worker = "batch" =>
                \A a, b \in Arms \ Skipped :
                   ~rt[a].invalid /\ ~rt[b].invalid => CompleteDays(rt[a]) = CompleteDays(rt[b])]_vars
  <2> SUFFICES ASSUME Next, evaluatedDay' # evaluatedDay, worker' = "idle", worker = "batch",
                      NEW a \in Arms \ Skipped, NEW b \in Arms \ Skipped,
                      ~rt[a].invalid, ~rt[b].invalid
               PROVE  CompleteDays(rt[a]) = CompleteDays(rt[b])
    BY <1>1
  <2>1. EndBatch
    BY <1>1 DEF Next, Service, Tick, Publish, Stop, Start, TakeBatch, AnalyserFails, Arm, ArmSkips,
                ArmTakes, ArmFreezes, Turn, Applied, Refused, memory, scheduler
  <2>2. ASSUME NEW c \in Arms \ Skipped, ~rt[c].invalid
        PROVE  /\ rows[c].state.taken # <<>>
               /\ rt[c].days = Coverage(NoDays, StartOf(rows[c].state), Batch.hi)
    <3>1. /\ rt[c].cursor = Batch.hi /\ worker # "down" /\ c \in Arms \ failed
          /\ rows[c].last # None
      BY <1>1, <2>1, <2>2, AllHaveRun
    <3>2. rows[c].state.taken # <<>>
      BY <1>1, <3>1, RowsHaveRun
    <3>3. RunOf(c, Checkpoint(c))
      BY <1>1 DEF RunsOf
    <3>4. /\ rt[c].cursor = rows[c].state.cursor /\ rt[c].days = rows[c].state.days
      BY <1>1, <3>1, MemoryHasRun
    <3>5. /\ Checkpoint(c).taken = rows[c].state.taken /\ Checkpoint(c).days = rows[c].state.days
          /\ Checkpoint(c).cursor = rows[c].state.cursor
      BY <1>1, CheckpointFields
    <3>6. QED
      BY <3>1, <3>2, <3>3, <3>4, <3>5 DEF RunOf, StartOf
  <2>3. StartOf(rows[a].state) = StartOf(rows[b].state)
    BY <1>1, <2>2 DEF InStep, StartTogether
  <2>4. rt[a].days = rt[b].days
    BY <2>2, <2>3
  <2>5. QED
    BY <2>4 DEF CompleteDays
<1>2. QED
  BY <1>1, AlwaysInStep, AlwaysRuns, AlwaysStored, ExperimentTypeCorrect, PTL DEF Spec, LikeForLike
=============================================================================
