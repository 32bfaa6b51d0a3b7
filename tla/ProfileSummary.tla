--------------------------- MODULE ProfileSummary ---------------------------
(***************************************************************************)
(* The profile summary of the orders and the profile guard drawn from it,  *)
(* materialised in the database and rebuilt in the background by every     *)
(* process that has the database open.                                     *)
(*                                                                         *)
(* Each transaction that changes an entry snapshot moves the revision on.  *)
(* A materialisation carries the revision it was computed from and is      *)
(* served as current while the two are equal.  A rebuild takes a lease,    *)
(* reads the snapshots, and writes only if the revision has not moved.  So *)
(* that the guard is current in the minute after a commit without waiting  *)
(* for a rebuild, a commit carries it over, or promotes a guard that a     *)
(* rebuild computed in advance for the settlement that has now come.       *)
(*                                                                         *)
(* Here: one symbol and one set of parameters.  A summary stands for the   *)
(* snapshots it was computed from, a guard for the settled ones.  Branches *)
(* and successors of an earlier revision stay in their tables until they   *)
(* are pruned; no commit looks them up again, so they are dropped here.    *)
(***************************************************************************)
EXTENDS Integers, Sequences, FiniteSets

CONSTANTS
    Stores,         \* processes with the database open: SQLiteMonitorStore
    Service,        \* the one that trades; the others read
    Limit,          \* snapshot_limit
    MaxRetries,     \* PROFILE_SUMMARY_MAX_CAS_RETRIES
    MaxOrders,      \* bound: orders
    MaxOpen,        \* orders open together
    PastOrders,     \* orders settled in earlier runs
    MaxFaults       \* bound: crashes, closes, times the file fills up

Results == {"WIN", "LOSS"}

ASSUME SummaryAssumption ==
    /\ Service \in Stores /\ Limit \in Nat \ {0} /\ MaxRetries \in Nat \ {0}
    /\ MaxOrders \in Nat /\ MaxOpen \in Nat
    /\ PastOrders \in Nat /\ MaxFaults \in Nat

Nobody == "nobody"   \* the owner of a lease after its process crashed
None == -1      \* the source revision of what was never computed

ASSUME NobodyIsNoStore == Nobody \notin Stores

VARIABLES
    (* the database *)
    snapshots,      \* order_entry_snapshots: the result of each order, "OPEN" before
    revision,       \* profile_summary_revisions
    summary,        \* profile_summary_materializations
    guard,          \* profile_guard_materializations
    branches,       \* profile_guard_settlement_branches, those of this revision
    successors,     \* profile_guard_settlement_successors, those of this revision
    leases,         \* profile_summary_leases
    full,           \* no room for what can be rebuilt
    (* the processes *)
    mode,           \* "OPEN", "CLOSING", "CLOSED" or "DOWN"
    job,            \* the rebuild submitted to the executor
    (* bound *)
    faults

orders == <<snapshots, revision>>
materialized == <<summary, guard, branches, successors>>
database == <<orders, materialized, leases, full>>
processes == <<mode, job>>
vars == <<database, processes, faults>>

\* FitsAlways, UnreadUnlessMissing and DrainedAtOnce are deliberate mistakes
\* that show what the properties notice.

Fault == faults < MaxFaults /\ faults' = faults + 1

-----------------------------------------------------------------------------
(* The summary and the guard of a sequence of snapshots *)

\* The latest Limit snapshots.
Window(snaps) == {i \in 1..Len(snaps) : i > Len(snaps) - Limit}

\* summarize_order_samples_with_guard
SummaryOf(snaps) == {<<i, snaps[i]>> : i \in Window(snaps)}

\* evaluate_profile_guard looks at settled samples only.
GuardOf(snaps) == {<<i, snaps[i]>> : i \in {j \in Window(snaps) : snaps[j] \in Results}}

OpenIn(snaps) == {i \in Window(snaps) : snaps[i] = "OPEN"}

\* The guard after the next settlement, for each open order and result.
BranchesOf(snaps, rev) ==
    {[base |-> rev, order |-> i, result |-> r, of |-> GuardOf([snaps EXCEPT ![i] = r])] :
        i \in OpenIn(snaps), r \in Results}

\* The guard after the next two, if exactly two orders are open.
SuccessorsOf(snaps, rev) ==
    IF Cardinality(OpenIn(snaps)) # 2 THEN {}
    ELSE {[base |-> rev, first |-> p[1], result |-> q[1], second |-> p[2], then |-> q[2],
           of |-> GuardOf([snaps EXCEPT ![p[1]] = q[1], ![p[2]] = q[2]])] :
             p \in {o \in OpenIn(snaps) \X OpenIn(snaps) : o[1] # o[2]}, q \in Results \X Results}

-----------------------------------------------------------------------------
(* Scheduling a rebuild *)

NoJob == [pc |-> "none", attempt |-> 0, rev |-> 0, input |-> <<>>, done |-> FALSE]
Queued == [NoJob EXCEPT !.pc = "queued"]

Stopped(s) == mode[s] # "OPEN"

UnreadUnlessMissing == summary.source = None
Stale == summary.source # revision

\* A rebuild under way is left to itself; a closed worker refuses.
Scheduled(s) ==
    IF ~Stopped(s) /\ job[s].pc = "none" THEN [job EXCEPT ![s] = Queued] ELSE job

-----------------------------------------------------------------------------
(* The commits that change a snapshot, and what follows them *)

\* A snapshot is frozen when its order opens; only its result is written later.
WithOpening == Append(snapshots, "OPEN")
WithResult(i, r) == [snapshots EXCEPT ![i] = r]

FitsAlways(snaps) == TRUE
Fits(snaps) == Len(snaps) <= Limit

\* An order opens: the guard is carried over if no older order leaves the window.
SaveOpen ==
    /\ mode[Service] # "DOWN" /\ Len(snapshots) < MaxOrders
    /\ Cardinality({i \in 1..Len(snapshots) : snapshots[i] = "OPEN"}) < MaxOpen
    /\ snapshots' = WithOpening
    /\ revision' = revision + 1
    /\ guard' = IF guard.source = revision /\ Fits(snapshots')
                THEN [guard EXCEPT !.source = revision'] ELSE guard
    /\ job' = Scheduled(Service)
    /\ branches' = {} /\ successors' = {}
    /\ UNCHANGED <<summary, leases, full, mode, faults>>

\* An order is settled: the branch computed for this becomes the guard, and
\* the successors become the branches of the new revision.
SaveSettled ==
    /\ mode[Service] # "DOWN"
    /\ \E i \in 1..Len(snapshots), r \in Results :
          /\ snapshots[i] = "OPEN"
          /\ snapshots' = WithResult(i, r)
          /\ revision' = revision + 1
          /\ LET met == {b \in branches : b.base = revision /\ b.order = i /\ b.result = r}
                 next == {t \in successors : t.base = revision /\ t.first = i /\ t.result = r}
             IN  /\ \/ met = {} /\ UNCHANGED guard
                    \/ \E b \in met : guard' = [source |-> revision', of |-> b.of]
                 /\ branches' =
                      {[base |-> revision', order |-> t.second, result |-> t.then, of |-> t.of] : t \in next}
    /\ successors' = {}
    /\ job' = Scheduled(Service)
    /\ UNCHANGED <<summary, leases, full, mode, faults>>

\* A candidate or the dashboard asks for the summary, and finds it stale.
Read(s) ==
    /\ Stale /\ job' = Scheduled(s) /\ job' # job
    /\ UNCHANGED <<database, mode, faults>>

-----------------------------------------------------------------------------
(* _rebuild_profile_summary, on the executor's one thread *)

At(s, pc) == job[s].pc = pc
Goto(s, pc) == job' = [job EXCEPT ![s].pc = pc]
Return(s) == job' = [job EXCEPT ![s] = [NoJob EXCEPT !.pc = "returned"]]
\* After the last attempt the rebuild fails.
Again(s) ==
    IF job[s].attempt + 1 = MaxRetries THEN Return(s)
    ELSE job' = [job EXCEPT ![s] = [NoJob EXCEPT !.pc = "begin", !.attempt = job[s].attempt + 1]]
Unchanged == UNCHANGED <<database, mode, faults>>

Held(s) == \E l \in leases : l.rev = job[s].rev

\* The revision is read, then the lease is taken for it unless it is another's;
\* a commit between the two is no different from one right after.
Claim(s) ==
    /\ job[s].pc \in {"queued", "begin"}
    /\ \/ (Stopped(s) \/ full) /\ Return(s) /\ UNCHANGED leases
       \/ /\ ~Stopped(s) /\ ~full
          /\ IF \E l \in leases : l.rev = revision
             THEN /\ job' = [job EXCEPT ![s].pc = "wait", ![s].rev = revision]
                  /\ UNCHANGED leases
             ELSE /\ job' = [job EXCEPT ![s].pc = "input", ![s].rev = revision]
                  /\ leases' = leases \cup {[rev |-> revision, owner |-> s]}
    /\ UNCHANGED <<orders, materialized, full, mode, faults>>

\* One poll for the holder's result; at the deadline the rebuild tries again.
Wait(s) ==
    /\ At(s, "wait")
    /\ LET moved == Stopped(s) \/ revision # job[s].rev
           ready == ~moved /\ summary.source = revision
       IN  \/ ready /\ Return(s)
           \/ ~ready /\ Again(s)
           \/ ~moved /\ ~ready /\ Held(s) /\ UNCHANGED job
    /\ Unchanged

\* The revision and the snapshots are read in one transaction.
Input(s) ==
    /\ At(s, "input")
    /\ \/ Stopped(s) /\ Goto(s, "release")
       \/ ~Stopped(s) /\ revision # job[s].rev /\ Goto(s, "release")
       \/ /\ ~Stopped(s) /\ revision = job[s].rev
          /\ job' = [job EXCEPT ![s].pc = "write", ![s].input = snapshots]
    /\ Unchanged

MayWrite(s) ==
    ~full /\ revision = job[s].rev /\ summary.source <= job[s].rev

\* The write, in one transaction that compares the revision again.
Write(s) ==
    /\ At(s, "write") /\ MayWrite(s) /\ ~Stopped(s)
    /\ LET rev == job[s].rev
           input == job[s].input
       IN  /\ summary' = [source |-> rev, of |-> SummaryOf(input)]
           /\ guard' = IF rev >= guard.source THEN [source |-> rev, of |-> GuardOf(input)] ELSE guard
           /\ branches' = BranchesOf(input, rev)
           /\ successors' = SuccessorsOf(input, rev)
    /\ job' = [job EXCEPT ![s].pc = "release", ![s].input = <<>>, ![s].done = TRUE]
    /\ UNCHANGED <<orders, leases, full, mode, faults>>

WriteNothing(s) ==
    /\ At(s, "write") /\ (Stopped(s) \/ ~MayWrite(s))
    /\ job' = [job EXCEPT ![s].pc = "release", ![s].input = <<>>]
    /\ Unchanged

Release(s) ==
    /\ At(s, "release")
    /\ leases' = leases \ {[rev |-> job[s].rev, owner |-> s]}
    /\ IF job[s].done \/ Stopped(s) THEN Return(s) ELSE Again(s)
    /\ UNCHANGED <<orders, materialized, full, mode, faults>>

\* Only now is the future done: until then Scheduled submits no other.
Completed(s) ==
    /\ At(s, "returned")
    /\ job' = [job EXCEPT ![s] = NoJob]
    /\ Unchanged

-----------------------------------------------------------------------------
(* close, crashes, and the outside *)

\* A rebuild that has not begun is cancelled; one under way is told to stop.
Close(s) ==
    /\ mode[s] = "OPEN" /\ Fault
    /\ mode' = [mode EXCEPT ![s] = "CLOSING"]
    /\ job' = IF At(s, "queued") THEN [job EXCEPT ![s] = NoJob] ELSE job
    /\ UNCHANGED database

DrainedAtOnce(s) == TRUE
Drained(s) == job[s].pc = "none"

\* close waits until no rebuild is under way, or gives up and is called again.
Closed(s) ==
    /\ mode[s] = "CLOSING" /\ Drained(s)
    /\ leases' = {l \in leases : l.owner # s}
    /\ mode' = [mode EXCEPT ![s] = "CLOSED"]
    /\ UNCHANGED <<orders, materialized, full, job, faults>>

\* The owner's name dies with the process: nobody can give its leases back.
Crash(s) ==
    /\ mode[s] # "DOWN" /\ Fault
    /\ mode' = [mode EXCEPT ![s] = "DOWN"]
    /\ job' = [job EXCEPT ![s] = NoJob]
    /\ leases' = {[l EXCEPT !.owner = IF @ = s THEN Nobody ELSE @] : l \in leases}
    /\ UNCHANGED <<orders, materialized, full>>

Open(s) ==
    /\ mode[s] = "DOWN"
    /\ mode' = [mode EXCEPT ![s] = "OPEN"]
    /\ UNCHANGED <<database, job, faults>>

\* An expired lease counts no more, and the next claim deletes its row.
LeaseExpires ==
    /\ \E l \in leases : leases' = leases \ {l}
    /\ UNCHANGED <<orders, materialized, full, processes, faults>>

FillsUp ==
    /\ ~full /\ full' = TRUE
    /\ Fault
    /\ UNCHANGED <<orders, materialized, leases, processes>>

RoomAgain ==
    /\ full /\ full' = FALSE
    /\ UNCHANGED <<orders, materialized, leases, processes, faults>>

-----------------------------------------------------------------------------
Init ==
    /\ snapshots = [i \in 1..PastOrders |-> "WIN"] /\ revision = 2 * PastOrders
    /\ summary = [source |-> None, of |-> {}] /\ guard = [source |-> None, of |-> {}]
    /\ branches = {} /\ successors = {} /\ leases = {} /\ full = FALSE
    /\ mode = [s \in Stores |-> "OPEN"]
    /\ job = [s \in Stores |-> NoJob]
    /\ faults = 0

Commit == SaveOpen \/ SaveSettled
Rebuild(s) ==
    \/ Claim(s) \/ Wait(s) \/ Input(s)
    \/ Write(s) \/ WriteNothing(s) \/ Release(s) \/ Completed(s)
Process(s) == Close(s) \/ Closed(s) \/ Crash(s) \/ Open(s)
Outside == LeaseExpires \/ FillsUp \/ RoomAgain

Next == Commit \/ (\E s \in Stores : Read(s) \/ Rebuild(s) \/ Process(s)) \/ Outside

\* The executor's thread runs, a lease expires in time, and an open service
\* asks for the summary with every candidate.
Fairness ==
    /\ \A s \in Stores : WF_vars(Rebuild(s)) /\ WF_vars(Read(s))
    /\ WF_vars(LeaseExpires)

Spec == Init /\ [][Next]_vars
FairSpec == Spec /\ Fairness

-----------------------------------------------------------------------------
JobPlaces == {"none", "queued", "begin", "wait", "input", "write", "release", "returned"}
Snapshots == Seq({"OPEN"} \cup Results)
Jobs == [pc : JobPlaces, attempt : Nat, rev : Nat, input : Snapshots, done : BOOLEAN]
Summaries == [source : Nat \cup {None}, of : SUBSET (Nat \X ({"OPEN"} \cup Results))]
Guards == [source : Nat \cup {None}, of : SUBSET (Nat \X Results)]
Branches == [base : Nat, order : Nat, result : Results, of : SUBSET (Nat \X Results)]
Successors == [base : Nat, first : Nat, result : Results, second : Nat, then : Results,
               of : SUBSET (Nat \X Results)]

TypeOK ==
    /\ snapshots \in Snapshots /\ revision \in Nat
    /\ summary \in Summaries /\ guard \in Guards
    /\ branches \subseteq Branches /\ successors \subseteq Successors
    /\ leases \subseteq [rev : Nat, owner : Stores \cup {Nobody}]
    /\ mode \in [Stores -> {"OPEN", "CLOSING", "CLOSED", "DOWN"}]
    /\ job \in [Stores -> Jobs]
    /\ full \in BOOLEAN

\* What is served as current is what a rebuild would compute now, however it
\* came about: written by either process, carried over the opening of an
\* order, or promoted from the branch of a settlement or of two in a row.
CurrentIsExact ==
    /\ summary.source = revision => summary.of = SummaryOf(snapshots)
    /\ guard.source = revision => guard.of = GuardOf(snapshots)

\* A closed store has no rebuild under way and no lease others would wait for.
ClosedHoldsNothing ==
    \A s \in Stores : mode[s] = "CLOSED" =>
       job[s].pc = "none" /\ \A l \in leases : l.owner # s

\* Once the orders rest, the summary and the guard become current and stay so
\* as long as some process stays open and the file has room, whichever process
\* crashed or closed with the lease in its hands.
CatchesUp ==
    (<>[]~full /\ \E s \in Stores : <>[](mode[s] = "OPEN")) =>
       <>[](summary.source = revision /\ guard.source = revision)
=============================================================================
