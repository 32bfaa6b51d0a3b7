------------------------- MODULE ProfileSummaryProofs -------------------------
(***************************************************************************)
(* Proofs about ProfileSummary, for every set of processes, every window   *)
(* and any number of orders and faults.                                    *)
(*                                                                         *)
(* What is materialised is exact because it is tied to a revision: the     *)
(* inductive invariant says so of everything that may yet become the       *)
(* guard, the branches, the successors and the input of a rebuild that is  *)
(* about to write.                                                         *)
(***************************************************************************)
EXTENDS ProfileSummary, TLAPS, SequenceTheorems

-----------------------------------------------------------------------------
(* Type correctness *)

\* A guard is drawn from settled snapshots, a summary from all.
LEMMA GuardType ==
  ASSUME NEW snaps \in Snapshots
  PROVE  /\ GuardOf(snaps) \in SUBSET (Nat \X Results)
         /\ SummaryOf(snaps) \in SUBSET (Nat \X ({"OPEN"} \cup Results))
<1>1. \A i \in Window(snaps) : i \in Nat /\ snaps[i] \in {"OPEN"} \cup Results
  BY DEF Window, Snapshots
<1>2. QED
  BY <1>1 DEF GuardOf, SummaryOf

\* Writing a result keeps a sequence of snapshots one.
LEMMA ResultType ==
  ASSUME NEW snaps \in Snapshots, NEW i \in 1..Len(snaps), NEW r \in Results
  PROVE  /\ [snaps EXCEPT ![i] = r] \in Snapshots
         /\ Len([snaps EXCEPT ![i] = r]) = Len(snaps)
<1>1. r \in {"OPEN"} \cup Results
  OBVIOUS
<1>2. QED
  BY <1>1, ExceptSeq DEF Snapshots

\* The open orders of a window are places in it.
LEMMA OpenInType ==
  ASSUME NEW snaps \in Snapshots
  PROVE  OpenIn(snaps) \subseteq 1..Len(snaps) /\ OpenIn(snaps) \subseteq Nat
  BY DEF OpenIn, Window, Snapshots

\* Branches and successors are well typed.
LEMMA BranchType ==
  ASSUME NEW snaps \in Snapshots, NEW rev \in Nat
  PROVE  /\ BranchesOf(snaps, rev) \subseteq Branches
         /\ SuccessorsOf(snaps, rev) \subseteq Successors
<1>1. OpenIn(snaps) \subseteq Nat
  BY OpenInType
<1>2. ASSUME NEW i \in OpenIn(snaps), NEW r \in Results
      PROVE  GuardOf([snaps EXCEPT ![i] = r]) \in SUBSET (Nat \X Results)
  BY OpenInType, GuardType, ResultType
<1>3. BranchesOf(snaps, rev) \subseteq Branches
  <2> SUFFICES ASSUME NEW b \in BranchesOf(snaps, rev)
               PROVE  b \in Branches
    OBVIOUS
  <2>1. PICK i \in OpenIn(snaps), r \in Results :
            b = [base |-> rev, order |-> i, result |-> r, of |-> GuardOf([snaps EXCEPT ![i] = r])]
    BY DEF BranchesOf
  <2>2. QED
    BY <1>1, <1>2, <2>1 DEF Branches
<1>4. ASSUME NEW i \in OpenIn(snaps), NEW r \in Results,
             NEW j \in OpenIn(snaps), NEW q \in Results
      PROVE  GuardOf([snaps EXCEPT ![i] = r, ![j] = q]) \in SUBSET (Nat \X Results)
  <2> DEFINE once == [snaps EXCEPT ![i] = r]
  <2>1. once \in Snapshots /\ j \in 1..Len(once)
    BY OpenInType, ResultType
  <2>2. [once EXCEPT ![j] = q] \in Snapshots
    BY <2>1, ResultType
  <2>3. QED
    BY <2>2, GuardType
<1>5. SuccessorsOf(snaps, rev) \subseteq Successors
  <2> SUFFICES ASSUME NEW t \in SuccessorsOf(snaps, rev)
               PROVE  t \in Successors
    OBVIOUS
  <2>1. PICK p \in OpenIn(snaps) \X OpenIn(snaps), q \in Results \X Results :
            t = [base |-> rev, first |-> p[1], result |-> q[1], second |-> p[2], then |-> q[2],
                 of |-> GuardOf([snaps EXCEPT ![p[1]] = q[1], ![p[2]] = q[2]])]
    BY DEF SuccessorsOf
  <2>2. t.of \in SUBSET (Nat \X Results)
    BY <1>4, <2>1
  <2>3. QED
    BY <1>1, <2>1, <2>2 DEF Successors
<1>6. QED
  BY <1>3, <1>5

\* Scheduling changes a job that rests into one that is queued.
LEMMA ScheduledEffect ==
  ASSUME NEW s \in Stores, job \in [Stores -> Jobs]
  PROVE  /\ Scheduled(s) \in [Stores -> Jobs]
         /\ \A t \in Stores : \/ Scheduled(s)[t] = job[t]
                              \/ /\ t = s /\ mode[s] = "OPEN"
                                 /\ job[t].pc = "none" /\ Scheduled(s)[t].pc = "queued"
<1>1. Queued \in Jobs /\ Queued.pc = "queued"
  BY EmptySeq DEF Queued, NoJob, Jobs, JobPlaces, Snapshots
<1>2. QED
  BY <1>1 DEF Scheduled, Stopped

LEMMA InitTypeOK == Init => TypeOK
<1> SUFFICES ASSUME Init PROVE TypeOK
  OBVIOUS
<1>1. NoJob \in Jobs
  BY EmptySeq DEF NoJob, Jobs, JobPlaces, Snapshots
<1>2. snapshots \in Snapshots /\ revision \in Nat
  BY SummaryAssumption DEF Init, Snapshots, Results
<1>3. QED
  BY <1>1, <1>2 DEF Init, TypeOK, Summaries, Guards, None

\* The commits, the rebuild and what happens to a process keep the types.
LEMMA CommitTypeOK == TypeOK /\ Commit => TypeOK'
<1> SUFFICES ASSUME TypeOK, Commit
             PROVE  TypeOK'
  OBVIOUS
<1> USE DEF TypeOK
<1>1. Service \in Stores /\ Scheduled(Service) \in [Stores -> Jobs]
  BY SummaryAssumption, ScheduledEffect
<1>2. CASE SaveOpen
  <2>1. snapshots' \in Snapshots
    BY <1>2, AppendProperties DEF SaveOpen, WithOpening, Snapshots
  <2>2. guard' \in Guards
    BY <1>2 DEF SaveOpen, Guards
  <2>3. QED
    BY <1>1, <1>2, <2>1, <2>2 DEF SaveOpen
<1>3. CASE SaveSettled
  <2>1. PICK i \in 1..Len(snapshots), r \in Results :
            /\ snapshots[i] = "OPEN"
            /\ snapshots' = WithResult(i, r)
            /\ revision' = revision + 1
            /\ LET met == {b \in branches : b.base = revision /\ b.order = i /\ b.result = r}
                   next == {t \in successors : t.base = revision /\ t.first = i /\ t.result = r}
               IN  /\ \/ met = {} /\ UNCHANGED guard
                      \/ \E b \in met : guard' = [source |-> revision', of |-> b.of]
                   /\ branches' =
                        {[base |-> revision', order |-> t.second, result |-> t.then, of |-> t.of] :
                            t \in next}
    BY <1>3 DEF SaveSettled
  <2>2. snapshots' \in Snapshots
    BY <2>1, ResultType DEF WithResult
  <2>3. guard' \in Guards
    BY <2>1 DEF Guards, Branches
  <2>4. branches' \subseteq Branches
    BY <2>1 DEF Branches, Successors
  <2>5. QED
    BY <1>1, <1>3, <2>1, <2>2, <2>3, <2>4 DEF SaveSettled
<1>4. QED
  BY <1>2, <1>3 DEF Commit

LEMMA RebuildTypeOK ==
  ASSUME TypeOK, NEW s \in Stores, Rebuild(s)
  PROVE  TypeOK'
<1> USE DEF TypeOK
<1>1. job[s] \in Jobs
  OBVIOUS
<1>2. /\ NoJob \in Jobs
      /\ \A pc \in JobPlaces : [NoJob EXCEPT !.pc = pc] \in Jobs
      /\ \A n \in Nat : [NoJob EXCEPT !.pc = "begin", !.attempt = n] \in Jobs
  BY EmptySeq DEF NoJob, Jobs, JobPlaces, Snapshots
<1>3. \A pc \in JobPlaces : Goto(s, pc) => job' \in [Stores -> Jobs]
  BY <1>1 DEF Goto, Jobs
<1>4. Return(s) => job' \in [Stores -> Jobs]
  BY <1>2 DEF Return, JobPlaces
<1>5. Again(s) => job' \in [Stores -> Jobs]
  <2>1. job[s].attempt + 1 \in Nat
    BY <1>1 DEF Jobs
  <2>2. QED
    BY <1>2, <1>4, <2>1 DEF Again
<1>6. CASE Claim(s)
  <2>1. \A pc \in JobPlaces : [job[s] EXCEPT !.pc = pc, !.rev = revision] \in Jobs
    BY <1>1 DEF Jobs
  <2>2. job' \in [Stores -> Jobs]
    BY <1>4, <1>6, <2>1 DEF Claim, JobPlaces
  <2>3. leases' \subseteq [rev : Nat, owner : Stores \cup {Nobody}]
    BY <1>6 DEF Claim
  <2>4. QED
    BY <1>6, <2>2, <2>3 DEF Claim, orders, materialized
<1>7. CASE Wait(s)
  BY <1>4, <1>5, <1>7 DEF Wait, Unchanged, database, orders, materialized
<1>8. CASE Input(s)
  <2>1. [job[s] EXCEPT !.pc = "write", !.input = snapshots] \in Jobs
    BY <1>1 DEF Jobs, JobPlaces
  <2>2. job' \in [Stores -> Jobs]
    BY <1>3, <1>8, <2>1 DEF Input, JobPlaces
  <2>3. QED
    BY <1>8, <2>2 DEF Input, Unchanged, database, orders, materialized
<1>9. CASE Write(s)
  <2>1. job[s].rev \in Nat /\ job[s].input \in Snapshots
    BY <1>1 DEF Jobs
  <2>2. [job[s] EXCEPT !.pc = "release", !.input = <<>>, !.done = TRUE] \in Jobs
    BY <1>1, EmptySeq DEF Jobs, JobPlaces, Snapshots
  <2>3. summary' \in Summaries /\ guard' \in Guards
    BY <1>9, <2>1, GuardType DEF Write, Summaries, Guards
  <2>4. branches' \subseteq Branches /\ successors' \subseteq Successors
    BY <1>9, <2>1, BranchType DEF Write
  <2>5. QED
    BY <1>9, <2>2, <2>3, <2>4 DEF Write, orders
<1>10. CASE WriteNothing(s)
  <2>1. [job[s] EXCEPT !.pc = "release", !.input = <<>>] \in Jobs
    BY <1>1, EmptySeq DEF Jobs, JobPlaces, Snapshots
  <2>2. QED
    BY <1>10, <2>1 DEF WriteNothing, Unchanged, database, orders, materialized
<1>11. CASE Release(s)
  BY <1>4, <1>5, <1>11 DEF Release, orders, materialized
<1>12. CASE Completed(s)
  BY <1>2, <1>12 DEF Completed, Unchanged, database, orders, materialized
<1>13. QED
  BY <1>6, <1>7, <1>8, <1>9, <1>10, <1>11, <1>12 DEF Rebuild

LEMMA ProcessTypeOK ==
  ASSUME TypeOK, NEW s \in Stores, Read(s) \/ Process(s)
  PROVE  TypeOK'
<1> USE DEF TypeOK
<1>1. NoJob \in Jobs /\ Scheduled(s) \in [Stores -> Jobs]
  BY ScheduledEffect, EmptySeq DEF NoJob, Jobs, JobPlaces, Snapshots
<1>2. CASE Read(s)
  BY <1>1, <1>2 DEF Read, database, orders, materialized
<1>3. CASE Close(s)
  BY <1>1, <1>3 DEF Close, database, orders, materialized
<1>4. CASE Closed(s)
  BY <1>4 DEF Closed, orders, materialized
<1>5. CASE Crash(s)
  BY <1>1, <1>5 DEF Crash, orders, materialized
<1>6. CASE Open(s)
  BY <1>6 DEF Open, database, orders, materialized
<1>7. QED
  BY <1>2, <1>3, <1>4, <1>5, <1>6 DEF Process

\* Every action keeps the types.
LEMMA StepTypeOK == TypeOK /\ [Next]_vars => TypeOK'
<1> SUFFICES ASSUME TypeOK, [Next]_vars
             PROVE  TypeOK'
  OBVIOUS
<1>1. CASE Outside
  BY <1>1 DEF TypeOK, Outside, LeaseExpires, FillsUp, RoomAgain, orders, materialized, processes
<1>2. CASE UNCHANGED vars
  BY <1>2 DEF TypeOK, vars, database, orders, materialized, processes
<1>3. QED
  BY <1>1, <1>2, CommitTypeOK, RebuildTypeOK, ProcessTypeOK DEF Next

\* What the tables and the processes hold has its type.
THEOREM SummaryTypeCorrect == Spec => []TypeOK
  BY InitTypeOK, StepTypeOK, PTL DEF Spec

-----------------------------------------------------------------------------
(* A closed store holds nothing *)

\* A step of another process leaves a closed one as it is: it has no job, and
\* only a job takes a lease or gives one back.
LEMMA StepClosedHoldsNothing ==
  TypeOK /\ ClosedHoldsNothing /\ [Next]_vars => ClosedHoldsNothing'
<1> SUFFICES ASSUME TypeOK, ClosedHoldsNothing, [Next]_vars,
                    NEW c \in Stores, mode'[c] = "CLOSED"
             PROVE  job'[c].pc = "none" /\ \A l \in leases' : l.owner # c
  BY DEF ClosedHoldsNothing
<1> USE DEF TypeOK
<1>1. NoJob.pc = "none" /\ c # Nobody
  BY NobodyIsNoStore DEF NoJob
<1>2. ASSUME mode[c] = "CLOSED" PROVE job[c].pc = "none" /\ \A l \in leases : l.owner # c
  BY <1>2 DEF ClosedHoldsNothing
<1>3. CASE Commit
  <2>1. mode' = mode /\ leases' = leases /\ job' = Scheduled(Service)
    BY <1>3 DEF Commit, SaveOpen, SaveSettled
  <2>2. QED
    BY <1>2, <2>1, SummaryAssumption DEF Scheduled, Stopped
<1>4. ASSUME NEW s \in Stores, Read(s)
      PROVE  job'[c].pc = "none" /\ \A l \in leases' : l.owner # c
  BY <1>2, <1>4 DEF Read, database, Scheduled, Stopped
<1>5. ASSUME NEW s \in Stores, Rebuild(s)
      PROVE  job'[c].pc = "none" /\ \A l \in leases' : l.owner # c
  <2>1. mode' = mode /\ job[c].pc = "none"
    BY <1>2, <1>5 DEF Rebuild, Claim, Wait, Input, Write, WriteNothing, Release, Completed, Unchanged
  <2>2. job[s].pc # "none"
    BY <1>5 DEF Rebuild, Claim, Wait, Input, Write, WriteNothing, Release, Completed, At
  <2>3. s # c /\ job'[c] = job[c]
    BY <1>5, <2>1, <2>2 DEF Rebuild, Claim, Wait, Input, Write, WriteNothing, Release, Completed,
                            Goto, Return, Again
  <2>4. \A l \in leases' : l \in leases \/ l.owner = s
    BY <1>5 DEF Rebuild, Claim, Wait, Input, Write, WriteNothing, Release, Completed,
                Unchanged, database
  <2>5. QED
    BY <1>2, <2>1, <2>3, <2>4
<1>6. ASSUME NEW s \in Stores, Close(s)
      PROVE  job'[c].pc = "none" /\ \A l \in leases' : l.owner # c
  BY <1>1, <1>2, <1>6 DEF Close, database
<1>7. ASSUME NEW s \in Stores, Closed(s)
      PROVE  job'[c].pc = "none" /\ \A l \in leases' : l.owner # c
  BY <1>2, <1>7 DEF Closed, Drained
<1>8. ASSUME NEW s \in Stores, Crash(s)
      PROVE  job'[c].pc = "none" /\ \A l \in leases' : l.owner # c
  <2>1. mode[c] = "CLOSED" /\ c # s /\ job'[c] = job[c]
    BY <1>8 DEF Crash
  <2>2. \A l \in leases' : l.owner = Nobody \/ l \in leases
    BY <1>8 DEF Crash
  <2>3. QED
    BY <1>1, <1>2, <2>1, <2>2
<1>9. ASSUME NEW s \in Stores, Open(s)
      PROVE  job'[c].pc = "none" /\ \A l \in leases' : l.owner # c
  BY <1>2, <1>9 DEF Open, database
<1>10. CASE Outside
  BY <1>2, <1>10 DEF Outside, LeaseExpires, FillsUp, RoomAgain, processes
<1>11. CASE UNCHANGED vars
  BY <1>2, <1>11 DEF vars, database, processes
<1>12. QED
  BY <1>3, <1>4, <1>5, <1>6, <1>7, <1>8, <1>9, <1>10, <1>11 DEF Next, Process

\* A closed store has no rebuild under way and no lease others would wait for.
THEOREM ClosedStoresHoldNothing == Spec => []ClosedHoldsNothing
<1>1. Init => ClosedHoldsNothing
  BY DEF Init, ClosedHoldsNothing
<1>2. QED
  BY <1>1, StepClosedHoldsNothing, SummaryTypeCorrect, PTL DEF Spec

-----------------------------------------------------------------------------
(* What is current is exact *)

\* Nothing is dated after the revision of the database.
SourcesPast ==
    /\ summary.source <= revision /\ guard.source <= revision
    /\ \A s \in Stores : job[s].rev <= revision

\* A rebuild that will pass the comparison of its write has read what the
\* tables hold now.
InputsPresent ==
    \A s \in Stores : At(s, "write") /\ job[s].rev = revision => job[s].input = snapshots

\* A branch a commit may promote is the guard of the settlement it is for, and
\* a successor that of the two.
BranchesExact ==
    \A b \in branches : b.base = revision =>
        /\ b.order \in OpenIn(snapshots)
        /\ b.of = GuardOf([snapshots EXCEPT ![b.order] = b.result])

SuccessorsExact ==
    \A t \in successors : t.base = revision =>
        /\ t.first \in OpenIn(snapshots) /\ t.second \in OpenIn(snapshots) /\ t.first # t.second
        /\ t.of = GuardOf([snapshots EXCEPT ![t.first] = t.result, ![t.second] = t.then])

IInv == SourcesPast /\ InputsPresent /\ BranchesExact /\ SuccessorsExact /\ CurrentIsExact

\* An opened order is no settled sample, and while the window has room it
\* pushes none out: the guard may be carried over.
LEMMA GuardKeptByOpening ==
  ASSUME NEW snaps \in Snapshots, Fits(Append(snaps, "OPEN"))
  PROVE  GuardOf(Append(snaps, "OPEN")) = GuardOf(snaps)
<1> DEFINE more == Append(snaps, "OPEN")
<1>1. /\ Len(snaps) \in Nat /\ Len(more) = Len(snaps) + 1
      /\ \A i \in 1..Len(snaps) : more[i] = snaps[i]
      /\ more[Len(snaps) + 1] = "OPEN"
  BY AppendProperties, LenProperties DEF Snapshots
<1>2. Window(snaps) = 1..Len(snaps) /\ Window(more) = 1..Len(snaps) + 1
  BY <1>1, SummaryAssumption DEF Window, Fits
<1>3. {j \in Window(more) : more[j] \in Results} = {j \in Window(snaps) : snaps[j] \in Results}
  BY <1>1, <1>2 DEF Results
<1>4. \A j \in Window(snaps) : more[j] = snaps[j]
  BY <1>1, <1>2
<1>5. QED
  BY <1>3, <1>4 DEF GuardOf

\* An opening: what was current is past, but for the guard that is carried over.
LEMMA OpeningKeepsExact == TypeOK /\ IInv /\ SaveOpen => IInv'
<1> SUFFICES ASSUME TypeOK, IInv, SaveOpen
             PROVE  IInv'
  OBVIOUS
<1> USE DEF TypeOK, IInv
<1>1. /\ summary' = summary /\ revision' = revision + 1 /\ revision \in Nat
      /\ summary.source \in Int /\ guard.source \in Int
      /\ \A s \in Stores : job[s].rev \in Nat
  BY DEF SaveOpen, Summaries, Guards, Jobs, None
<1>2. \A s \in Stores : job'[s] = job[s] \/ (job'[s].rev = 0 /\ job'[s].pc = "queued")
  BY DEF SaveOpen, Scheduled, Queued, NoJob
<1>3. SourcesPast'
  BY <1>1, <1>2 DEF SourcesPast, SaveOpen
<1>4. InputsPresent'
  BY <1>1, <1>2 DEF InputsPresent, SourcesPast, At
<1>5. BranchesExact' /\ SuccessorsExact'
  BY DEF SaveOpen, BranchesExact, SuccessorsExact
<1>6. CurrentIsExact'
  <2>1. summary'.source # revision'
    BY <1>1 DEF SourcesPast
  <2>2. ASSUME guard'.source = revision' PROVE guard'.of = GuardOf(snapshots')
    <3>1. guard.source = revision /\ Fits(snapshots') /\ guard'.of = guard.of
      BY <1>1, <2>2 DEF SourcesPast, SaveOpen, Guards
    <3>2. QED
      BY <3>1, GuardKeptByOpening DEF SaveOpen, WithOpening, CurrentIsExact
  <2>3. QED
    BY <2>1, <2>2 DEF CurrentIsExact
<1>7. QED
  BY <1>3, <1>4, <1>5, <1>6

\* A settlement: the branch that is promoted was computed for it, and the
\* successors that become branches for what may follow it.
LEMMA SettlementKeepsExact == TypeOK /\ IInv /\ SaveSettled => IInv'
<1> SUFFICES ASSUME TypeOK, IInv, SaveSettled
             PROVE  IInv'
  OBVIOUS
<1> USE DEF TypeOK, IInv
<1>1. /\ summary' = summary /\ revision' = revision + 1 /\ revision \in Nat
      /\ summary.source \in Int /\ guard.source \in Int
      /\ \A s \in Stores : job[s].rev \in Nat
  BY DEF SaveSettled, Summaries, Guards, Jobs, None
<1>2. \A s \in Stores : job'[s] = job[s] \/ (job'[s].rev = 0 /\ job'[s].pc = "queued")
  BY DEF SaveSettled, Scheduled, Queued, NoJob
<1>3. PICK i \in 1..Len(snapshots), r \in Results :
          /\ snapshots' = [snapshots EXCEPT ![i] = r]
          /\ \/ guard' = guard
             \/ \E b \in branches : /\ b.base = revision /\ b.order = i /\ b.result = r
                                    /\ guard' = [source |-> revision', of |-> b.of]
          /\ \A c \in branches' : \E t \in successors :
                /\ t.base = revision /\ t.first = i /\ t.result = r
                /\ c = [base |-> revision', order |-> t.second, result |-> t.then, of |-> t.of]
  <2>1. PICK i \in 1..Len(snapshots), r \in Results :
            /\ snapshots[i] = "OPEN"
            /\ snapshots' = WithResult(i, r)
            /\ revision' = revision + 1
            /\ LET met == {b \in branches : b.base = revision /\ b.order = i /\ b.result = r}
                   next == {t \in successors : t.base = revision /\ t.first = i /\ t.result = r}
               IN  /\ \/ met = {} /\ UNCHANGED guard
                      \/ \E b \in met : guard' = [source |-> revision', of |-> b.of]
                   /\ branches' =
                        {[base |-> revision', order |-> t.second, result |-> t.then, of |-> t.of] :
                            t \in next}
    BY DEF SaveSettled
  <2> WITNESS i \in 1..Len(snapshots), r \in Results
  <2>2. snapshots' = [snapshots EXCEPT ![i] = r]
    BY <2>1 DEF WithResult
  <2>3. \/ guard' = guard
        \/ \E b \in branches : /\ b.base = revision /\ b.order = i /\ b.result = r
                               /\ guard' = [source |-> revision', of |-> b.of]
    BY <2>1
  <2>4. ASSUME NEW c \in branches'
        PROVE  \E t \in successors :
                 /\ t.base = revision /\ t.first = i /\ t.result = r
                 /\ c = [base |-> revision', order |-> t.second, result |-> t.then, of |-> t.of]
    BY <2>1, <2>4
  <2>5. QED
    BY <2>2, <2>3, <2>4
<1>4. SourcesPast'
  BY <1>1, <1>2, <1>3 DEF SourcesPast
<1>5. InputsPresent'
  BY <1>1, <1>2 DEF InputsPresent, SourcesPast, At
<1>6. SuccessorsExact'
  BY DEF SaveSettled, SuccessorsExact
<1>7. ASSUME NEW c \in branches'
      PROVE  /\ c.order \in OpenIn(snapshots')
             /\ c.of = GuardOf([snapshots' EXCEPT ![c.order] = c.result])
  <2>1. PICK t \in successors :
            /\ t.base = revision /\ t.first = i /\ t.result = r
            /\ c = [base |-> revision', order |-> t.second, result |-> t.then, of |-> t.of]
    BY <1>3, <1>7
  <2>2. /\ t.second \in OpenIn(snapshots) /\ t.second # i
        /\ t.of = GuardOf([snapshots EXCEPT ![i] = r, ![t.second] = t.then])
    BY <2>1 DEF SuccessorsExact
  <2>3. Len(snapshots') = Len(snapshots) /\ snapshots'[t.second] = snapshots[t.second]
    <3>1. t.second \in 1..Len(snapshots)
      BY <2>2, OpenInType
    <3>2. r \in {"OPEN"} \cup Results
      OBVIOUS
    <3>3. QED
      BY <1>3, <2>2, <3>1, <3>2, ExceptSeq DEF Snapshots
  <2>4. QED
    BY <1>3, <2>1, <2>2, <2>3 DEF OpenIn, Window
<1>8. CurrentIsExact'
  <2>1. summary'.source # revision'
    BY <1>1 DEF SourcesPast
  <2>2. ASSUME guard'.source = revision' PROVE guard'.of = GuardOf(snapshots')
    <3>1. guard' # guard
      BY <1>1, <2>2 DEF SourcesPast
    <3>2. PICK b \in branches : /\ b.base = revision /\ b.order = i /\ b.result = r
                               /\ guard' = [source |-> revision', of |-> b.of]
      BY <1>3, <3>1
    <3>3. QED
      BY <1>3, <3>2 DEF BranchesExact
  <2>3. QED
    BY <2>1, <2>2 DEF CurrentIsExact
<1>9. QED
  BY <1>4, <1>5, <1>6, <1>7, <1>8 DEF BranchesExact

\* A rebuild writes what it read, and what it read is what is there.
LEMMA WriteKeepsExact ==
  ASSUME TypeOK, IInv, NEW s \in Stores, Write(s)
  PROVE  IInv'
<1> USE DEF TypeOK, IInv
<1>1. /\ revision' = revision /\ snapshots' = snapshots /\ revision \in Nat
      /\ job[s].rev = revision /\ job[s].input = snapshots
  BY DEF Write, MayWrite, orders, InputsPresent
<1>2. /\ summary' = [source |-> revision, of |-> SummaryOf(snapshots)]
      /\ guard' = [source |-> revision, of |-> GuardOf(snapshots)]
      /\ branches' = BranchesOf(snapshots, revision)
      /\ successors' = SuccessorsOf(snapshots, revision)
  BY <1>1 DEF Write, SourcesPast
<1>3. \A t \in Stores : job'[t] = job[t] \/ (job'[t].rev = job[t].rev /\ job'[t].pc = "release")
  BY DEF Write, Jobs
<1>4. SourcesPast' /\ InputsPresent' /\ CurrentIsExact'
  BY <1>1, <1>2, <1>3 DEF SourcesPast, InputsPresent, CurrentIsExact, At
<1>5. BranchesExact'
  <2> SUFFICES ASSUME NEW b \in BranchesOf(snapshots, revision)
               PROVE  /\ b.order \in OpenIn(snapshots)
                      /\ b.of = GuardOf([snapshots EXCEPT ![b.order] = b.result])
    BY <1>1, <1>2 DEF BranchesExact
  <2>1. PICK i \in OpenIn(snapshots), r \in Results :
            b = [base |-> revision, order |-> i, result |-> r,
                 of |-> GuardOf([snapshots EXCEPT ![i] = r])]
    BY DEF BranchesOf
  <2>2. QED
    BY <2>1
<1>6. SuccessorsExact'
  <2> SUFFICES ASSUME NEW t \in SuccessorsOf(snapshots, revision)
               PROVE  /\ t.first \in OpenIn(snapshots) /\ t.second \in OpenIn(snapshots)
                      /\ t.first # t.second
                      /\ t.of = GuardOf([snapshots EXCEPT ![t.first] = t.result,
                                                          ![t.second] = t.then])
    BY <1>1, <1>2 DEF SuccessorsExact
  <2>1. PICK p \in {o \in OpenIn(snapshots) \X OpenIn(snapshots) : o[1] # o[2]},
             q \in Results \X Results :
            t = [base |-> revision, first |-> p[1], result |-> q[1], second |-> p[2], then |-> q[2],
                 of |-> GuardOf([snapshots EXCEPT ![p[1]] = q[1], ![p[2]] = q[2]])]
    BY DEF SuccessorsOf
  <2>2. QED
    BY <2>1
<1>7. QED
  BY <1>4, <1>5, <1>6

\* Whatever else happens, the tables stay, and a job that is about to write was
\* so before or has just read them.
LEMMA OtherStepsKeepExact ==
  ASSUME TypeOK, IInv, UNCHANGED <<orders, materialized>>,
         \A s \in Stores :
            \/ job'[s] = job[s]
            \/ job'[s].rev \in {0, job[s].rev, revision} /\ job'[s].pc # "write"
            \/ job'[s].rev = revision /\ job'[s].input = snapshots
  PROVE  IInv'
<1> USE DEF TypeOK, IInv, orders, materialized
<1>1. SourcesPast'
  BY DEF SourcesPast
<1>2. InputsPresent'
  BY DEF InputsPresent, At
<1>3. BranchesExact' /\ SuccessorsExact' /\ CurrentIsExact'
  BY DEF BranchesExact, SuccessorsExact, CurrentIsExact
<1>4. QED
  BY <1>1, <1>2, <1>3

LEMMA RebuildKeepsExact ==
  ASSUME TypeOK, IInv, NEW s \in Stores, Rebuild(s)
  PROVE  IInv'
<1>1. job \in [Stores -> Jobs] /\ job[s] \in Jobs
  BY DEF TypeOK
<1>2. CASE Claim(s)
  BY <1>1, <1>2, OtherStepsKeepExact DEF Claim, Return, NoJob, Jobs
<1>3. CASE Wait(s)
  BY <1>1, <1>3, OtherStepsKeepExact DEF Wait, Return, Again, NoJob, Unchanged, database
<1>4. CASE Input(s)
  BY <1>1, <1>4, OtherStepsKeepExact DEF Input, Goto, Unchanged, database, Jobs
<1>5. CASE WriteNothing(s)
  BY <1>1, <1>5, OtherStepsKeepExact DEF WriteNothing, Unchanged, database, Jobs
<1>6. CASE Release(s)
  BY <1>1, <1>6, OtherStepsKeepExact DEF Release, Return, Again, NoJob
<1>7. CASE Completed(s)
  BY <1>1, <1>7, OtherStepsKeepExact DEF Completed, NoJob, Unchanged, database
<1>8. QED
  BY <1>2, <1>3, <1>4, <1>5, <1>6, <1>7, WriteKeepsExact DEF Rebuild

LEMMA ProcessKeepsExact ==
  ASSUME TypeOK, IInv, NEW s \in Stores, Read(s) \/ Process(s)
  PROVE  IInv'
<1>1. job \in [Stores -> Jobs]
  BY DEF TypeOK
<1>2. CASE Read(s)
  BY <1>1, <1>2, OtherStepsKeepExact DEF Read, Scheduled, Queued, NoJob, database
<1>3. CASE Close(s)
  BY <1>1, <1>3, OtherStepsKeepExact DEF Close, NoJob, database
<1>4. CASE Closed(s)
  BY <1>1, <1>4, OtherStepsKeepExact DEF Closed
<1>5. CASE Crash(s)
  BY <1>1, <1>5, OtherStepsKeepExact DEF Crash, NoJob
<1>6. CASE Open(s)
  BY <1>1, <1>6, OtherStepsKeepExact DEF Open, database
<1>7. QED
  BY <1>2, <1>3, <1>4, <1>5, <1>6 DEF Process

LEMMA StepKeepsExact == TypeOK /\ IInv /\ [Next]_vars => IInv'
<1> SUFFICES ASSUME TypeOK, IInv, [Next]_vars
             PROVE  IInv'
  OBVIOUS
<1>1. CASE Outside
  BY <1>1, OtherStepsKeepExact DEF Outside, LeaseExpires, FillsUp, RoomAgain, processes
<1>2. CASE UNCHANGED vars
  BY <1>2, OtherStepsKeepExact DEF vars, database, processes
<1>3. QED
  BY <1>1, <1>2, OpeningKeepsExact, SettlementKeepsExact, RebuildKeepsExact, ProcessKeepsExact
     DEF Next, Commit

\* What is served as current is what a rebuild would compute now, however it
\* came about: written by any process, carried over the opening of an order,
\* or promoted from the branch of a settlement or of two in a row.
THEOREM WhatIsCurrentIsExact == Spec => []CurrentIsExact
<1>1. Init => IInv
  BY SummaryAssumption DEF Init, IInv, SourcesPast, InputsPresent, BranchesExact, SuccessorsExact,
                           CurrentIsExact, NoJob, At, None
<1>2. IInv => CurrentIsExact
  BY DEF IInv
<1>3. QED
  BY <1>1, <1>2, StepKeepsExact, SummaryTypeCorrect, PTL DEF Spec
=============================================================================
