------------------------------- MODULE JobRun -------------------------------
(***************************************************************************)
(* The life of a metered tool run, across the processes that share it:     *)
(*                                                                         *)
(*   enqueueJob      inserts the jobs row and sends the pg-boss message    *)
(*                   (queue/boss.ts);                                      *)
(*   executeJob      consumes the message: claim, reserve, handler, commit *)
(*                   or release, record the outcome (queue/worker.ts and   *)
(*                   credits/guard.ts; a synchronous tool call runs the    *)
(*                   guard alone, with no jobs row);                       *)
(*   reaper          sweeps aged running rows, aged reserves and aged      *)
(*                   queued rows (queue/reaper.ts), on the worker's timer  *)
(*                   and from scripts/reconcile.mjs.                       *)
(*                                                                         *)
(* Every database call is one step whose reply may be lost after the       *)
(* effect ("lost") or that may not reach the database ("failed"); between  *)
(* any two steps the other processes run and this one may crash.  The      *)
(* ledger RPCs are atomic here: CreditLedger shows that they are.          *)
(***************************************************************************)
EXTENDS Naturals, Sequences, FiniteSets, SequencesExt

CONSTANTS
    Jobs,            \* asynchronous runs, each with a jobs row
    Calls,           \* synchronous metered calls: a reserve, no jobs row
    Reapers,         \* the worker's timer and the operator's CLI
    MaxDeliveries,   \* how often the queue may hand one message out
    SettleAttempts,  \* SETTLE_ATTEMPTS
    Limit,           \* the reaper's batch, DEFAULT_LIMIT
    None,            \* no job in hand
    StalledRuns,     \* may a live run outlast the staleness windows?
    LateCommits      \* may a commit land after its caller saw an error?

ASSUME BoundsAssumption ==
    /\ MaxDeliveries \in Nat \ {0} /\ SettleAttempts \in Nat \ {0} /\ Limit \in Nat \ {0}
    /\ StalledRuns \in BOOLEAN /\ LateCommits \in BOOLEAN

ASSUME SpendsAssumption ==
    /\ Jobs \cap Calls = {} /\ Calls \cap [job : Jobs, copy : 1 .. MaxDeliveries] = {}
    /\ None \notin Jobs

VARIABLES
    row,       \* the jobs row of each job
    enq,       \* where enqueueJob stands for each job
    sent,      \* jobs whose message reached the queue
    ledger,    \* each spend's reserve, as the ledger rows show it
    opened,    \* spends in the order their spend_reserve row was created
    agedRows,  \* the oldest agedRows of them are past the orphan window
    late,      \* spends with a commit RPC still in flight
    run,       \* the executions: deliveries of a message, synchronous calls
    sweep,     \* the reapers
    worked,    \* history: spends whose tool body returned a result
    starts     \* history: how often a spend's tool body was started

rowVars    == <<row, enq, sent>>
ledgerVars == <<ledger, opened, agedRows, late>>
history    == <<worked, starts>>
vars == <<rowVars, ledgerVars, run, sweep, history>>

Spends == Jobs \cup Calls
Runs   == Calls \cup [job : Jobs, copy : 1 .. MaxDeliveries]
Spend(r) == IF r \in Calls THEN r ELSE r.job

Outcomes  == {"ok", "lost", "failed"}   \* of one database call
Landed(o) == o # "failed"

(* jobs.error, by what it tells the customer.                              *)
Marks == {"none", "platform", "commit_open", "commit_refunded", "commit_unknown",
          "result_lost", "RELEASED", "SETTLED", "REFUNDED", "NO_RESERVE", "NEVER_DELIVERED"}

TypeOK ==
    /\ row \in [Jobs -> [status : {"absent", "queued", "running", "succeeded", "failed"},
                         mark : Marks, aged : BOOLEAN, result : BOOLEAN]]
    /\ enq \in [Jobs -> {"idle", "send", "mark", "done"}]
    /\ sent \subseteq Jobs
    /\ ledger \in [Spends -> {"none", "open", "committed", "released"}]
    /\ opened \in Seq(Spends) /\ IsInjective(opened)
    /\ ToSet(opened) = {x \in Spends : ledger[x] # "none"}
    /\ agedRows \in 0 .. Len(opened)
    /\ late \subseteq Spends
    /\ run \in [Runs -> [pc : {"idle", "getJob", "claim", "reserve", "setReserve", "work",
                               "commit", "disposition", "release", "complete", "failMark",
                               "done"},
                         tries : 0 .. SettleAttempts - 1, mark : Marks]]
    /\ sweep \in [Reapers -> [pc : {"idle", "jobs", "find", "release", "kind", "fail",
                                    "orphans", "queued"},
                              jobs : SUBSET Jobs, job : Jobs \cup {None}, mark : Marks,
                              orphans : SUBSET Spends]]
    /\ worked \subseteq Spends
    /\ starts \in [Spends -> 0 .. MaxDeliveries]

NoRow   == [status |-> "absent", mark |-> "none", aged |-> FALSE, result |-> FALSE]
NoSweep == [pc |-> "idle", jobs |-> {}, job |-> None, mark |-> "none", orphans |-> {}]

Init ==
    /\ row = [j \in Jobs |-> NoRow]
    /\ enq = [j \in Jobs |-> "idle"]
    /\ sent = {}
    /\ ledger = [x \in Spends |-> "none"]
    /\ opened = <<>> /\ agedRows = 0 /\ late = {}
    /\ run = [r \in Runs |-> [pc |-> "idle", tries |-> 0, mark |-> "none"]]
    /\ sweep = [p \in Reapers |-> NoSweep]
    /\ worked = {} /\ starts = [x \in Spends |-> 0]

-----------------------------------------------------------------------------
(* Writes to a jobs row.                                                   *)

(* failJob and completeJob update by id alone, whatever the status is;     *)
(* completeJob leaves an earlier error text in place.                      *)
Failed(j, mark) == row' = [row EXCEPT ![j].status = "failed", ![j].mark = mark]
Completed(j)    == row' = [row EXCEPT ![j].status = "succeeded", ![j].result = TRUE]

(* markJobRunning: compare-and-set, stamps started_at.                     *)
Claimed(j) == row' = [row EXCEPT ![j].status = "running", ![j].aged = FALSE]

-----------------------------------------------------------------------------
(* enqueueJob.                                                             *)

InsertRow(j) ==
    /\ enq[j] = "idle"
    /\ row' = [row EXCEPT ![j].status = "queued"]
    /\ enq' = [enq EXCEPT ![j] = "send"]
    /\ UNCHANGED <<sent, ledgerVars, run, sweep, history>>

Send(j) ==
    /\ enq[j] = "send"
    /\ \E o \in Outcomes :
          /\ sent' = IF Landed(o) THEN sent \cup {j} ELSE sent
          /\ enq' = [enq EXCEPT ![j] = IF o = "ok" THEN "done" ELSE "mark"]
    /\ UNCHANGED <<row, ledgerVars, run, sweep, history>>

(* The send threw: failJob, then rethrow.                                  *)
MarkSendFailed(j) ==
    /\ enq[j] = "mark"
    /\ Failed(j, "platform") \/ UNCHANGED row
    /\ enq' = [enq EXCEPT ![j] = "done"]
    /\ UNCHANGED <<sent, ledgerVars, run, sweep, history>>

EnqueuerCrash(j) ==
    /\ enq[j] \in {"send", "mark"}
    /\ enq' = [enq EXCEPT ![j] = "done"]
    /\ UNCHANGED <<row, sent, ledgerVars, run, sweep, history>>

-----------------------------------------------------------------------------
(* executeJob and withCredits.                                             *)

At(r, pc)   == run[r].pc = pc
Goto(r, pc) ==
    run' = [run EXCEPT ![r] = [pc |-> pc, tries |-> 0,
                               mark |-> IF pc = "done" THEN "none" ELSE @.mark]]

(* A rejection reaches executeJob's catch, or the caller of a sync tool.   *)
Throw(r, mark) ==
    IF r \in Calls THEN Goto(r, "done")
    ELSE run' = [run EXCEPT ![r] = [pc |-> "failMark", tries |-> 0, mark |-> mark]]

Deliver(r) ==
    /\ r \notin Calls /\ At(r, "idle") /\ Spend(r) \in sent
    /\ Goto(r, "getJob")
    /\ UNCHANGED <<rowVars, ledgerVars, sweep, history>>

StartCall(r) ==
    /\ r \in Calls /\ At(r, "idle")
    /\ Goto(r, "reserve")
    /\ UNCHANGED <<rowVars, ledgerVars, sweep, history>>

GetJob(r) ==
    /\ At(r, "getJob")
    /\ Goto(r, "claim") \/ Throw(r, "platform")
    /\ UNCHANGED <<rowVars, ledgerVars, sweep, history>>

(* Mutant: read the status, then mark without comparing it.                *)
Claim_NoCas(r) ==
    /\ At(r, "claim")
    /\ Claimed(Spend(r)) /\ Goto(r, "reserve")
    /\ UNCHANGED <<enq, sent, ledgerVars, sweep, history>>

Claim(r) ==
    /\ At(r, "claim")
    /\ \E o \in Outcomes :
          IF row[Spend(r)].status = "queued" /\ Landed(o)
          THEN /\ Claimed(Spend(r))
               /\ IF o = "ok" THEN Goto(r, "reserve") ELSE Throw(r, "platform")
          ELSE /\ UNCHANGED row
               /\ IF o = "ok" THEN Goto(r, "done") ELSE Throw(r, "platform")
    /\ UNCHANGED <<enq, sent, ledgerVars, sweep, history>>

(* The pre-reserve gates and an insufficient balance refuse without a row; *)
(* a second reserve of the same job violates the unique index.             *)
Reserve(r) ==
    /\ At(r, "reserve")
    /\ \E o \in Outcomes :
          IF Landed(o) /\ ledger[Spend(r)] = "none"
          THEN /\ ledger' = [ledger EXCEPT ![Spend(r)] = "open"]
               /\ opened' = Append(opened, Spend(r))
               /\ IF o # "ok" THEN Throw(r, "platform")
                  ELSE Goto(r, IF r \in Calls THEN "work" ELSE "setReserve")
          ELSE Throw(r, "platform") /\ UNCHANGED <<ledger, opened>>
    /\ UNCHANGED <<rowVars, agedRows, late, sweep, history>>

(* setJobReserve; a throw gives the reserve back before the tool starts.   *)
SetReserve(r) ==
    /\ At(r, "setReserve")
    /\ Goto(r, "work") \/ Goto(r, "release")
    /\ UNCHANGED <<rowVars, ledgerVars, sweep, history>>

(* Mutants: the tool body is retried under one reserve; its error is       *)
(* swallowed and the charge settled all the same.                          *)
Work_Retried(r) ==
    /\ At(r, "work")
    /\ starts' = [starts EXCEPT ![Spend(r)] = IF @ < MaxDeliveries THEN @ + 1 ELSE @]
    /\ \/ Goto(r, "commit") /\ worked' = worked \cup {Spend(r)}
       \/ Goto(r, "work") /\ UNCHANGED worked
    /\ UNCHANGED <<rowVars, ledgerVars, sweep>>

Work_CommitsOnError(r) ==
    /\ At(r, "work")
    /\ starts' = [starts EXCEPT ![Spend(r)] = @ + 1]
    /\ Goto(r, "commit")
    /\ worked' = worked \cup {Spend(r)} \/ UNCHANGED worked
    /\ UNCHANGED <<rowVars, ledgerVars, sweep>>

Work(r) ==
    /\ At(r, "work")
    /\ starts' = [starts EXCEPT ![Spend(r)] = @ + 1]
    /\ \/ Goto(r, "commit") /\ worked' = worked \cup {Spend(r)}
       \/ Goto(r, "release") /\ UNCHANGED worked
    /\ UNCHANGED <<rowVars, ledgerVars, sweep>>
-----------------------------------------------------------------------------
(* Settlement: up to SettleAttempts calls of one RPC.                      *)

(* Mutant: one attempt too many.                                           *)
Retry_OneMore(r, next) ==
    IF run[r].tries < SettleAttempts
    THEN run' = [run EXCEPT ![r].tries = @ + 1]
    ELSE next

(* The locked RPC settles an open reserve; "reserve already settled" is    *)
(* terminal, any other error is retried while attempts last.               *)
Retry(r, next) ==
    IF run[r].tries + 1 < SettleAttempts
    THEN run' = [run EXCEPT ![r].tries = @ + 1]
    ELSE next

SettleTry(r, to, done, gaveUp) ==
    \E o \in Outcomes :
       IF Landed(o) /\ ledger[Spend(r)] = "open"
       THEN /\ ledger' = [ledger EXCEPT ![Spend(r)] = to]
            /\ IF o = "ok" THEN done ELSE Retry(r, gaveUp)
       ELSE /\ UNCHANGED ledger
            /\ IF o = "ok" THEN gaveUp ELSE Retry(r, gaveUp)

(* An asynchronous success still has to be recorded on the jobs row.       *)
Charged(r) == Goto(r, IF r \in Calls THEN "done" ELSE "complete")

Commit(r) ==
    /\ At(r, "commit")
    /\ SettleTry(r, "committed", Charged(r), Goto(r, "disposition"))
    /\ UNCHANGED <<rowVars, opened, agedRows, late, sweep, history>>

(* The caller's connection dies while the commit RPC waits in the database.*)
CommitLeftBehind(r) ==
    /\ LateCommits
    /\ At(r, "commit") /\ ledger[Spend(r)] = "open"
    /\ late' = late \cup {Spend(r)}
    /\ Retry(r, Goto(r, "disposition"))
    /\ UNCHANGED <<rowVars, ledger, opened, agedRows, sweep, history>>

LateCommitLands(x) ==
    /\ x \in late
    /\ late' = late \ {x}
    /\ ledger' = [ledger EXCEPT ![x] = IF @ = "open" THEN "committed" ELSE @]
    /\ UNCHANGED <<rowVars, opened, agedRows, run, sweep, history>>

(* Mutant: an unconfirmed commit counts as settled unless it was released. *)
Disposition_TrustsRetries(r) ==
    /\ At(r, "disposition")
    /\ \/ Throw(r, "commit_unknown")
       \/ ledger[Spend(r)] # "released" /\ Charged(r)
       \/ ledger[Spend(r)] = "released" /\ Throw(r, "commit_refunded")
    /\ UNCHANGED <<rowVars, ledgerVars, sweep, history>>

(* Mutant: an unreadable ledger counts as an open reserve.                 *)
Disposition_UnreadIsOpen(r) ==
    /\ At(r, "disposition")
    /\ \/ ledger[Spend(r)] # "released"  /\ Throw(r, "commit_open")
       \/ ledger[Spend(r)] = "committed" /\ Charged(r)
       \/ ledger[Spend(r)] = "released"  /\ Throw(r, "commit_refunded")
    /\ UNCHANGED <<rowVars, ledgerVars, sweep, history>>

(* readDisposition: one read of the ledger has the final word.             *)
Disposition(r) ==
    /\ At(r, "disposition")
    /\ \/ Throw(r, "commit_unknown")
       \/ ledger[Spend(r)] = "committed" /\ Charged(r)
       \/ ledger[Spend(r)] = "released"  /\ Throw(r, "commit_refunded")
       \/ ledger[Spend(r)] = "open"      /\ Throw(r, "commit_open")
    /\ UNCHANGED <<rowVars, ledgerVars, sweep, history>>

(* releaseSafely: whatever happens, the original error is rethrown.        *)
Release(r) ==
    /\ At(r, "release")
    /\ SettleTry(r, "released", Throw(r, "platform"), Throw(r, "platform"))
    /\ UNCHANGED <<rowVars, opened, agedRows, late, sweep, history>>

(* A completeJob that throws is marked "charge settled but result did not  *)
(* persist".                                                               *)
Complete(r) ==
    /\ At(r, "complete")
    /\ \E o \in Outcomes :
          /\ IF Landed(o) THEN Completed(Spend(r)) ELSE UNCHANGED row
          /\ IF o = "ok" THEN Goto(r, "done") ELSE Throw(r, "result_lost")
    /\ UNCHANGED <<enq, sent, ledgerVars, sweep, history>>

(* failJobSafely: a mark that cannot be written is only logged.            *)
FailMark(r) ==
    /\ At(r, "failMark")
    /\ Failed(Spend(r), run[r].mark) \/ UNCHANGED row
    /\ Goto(r, "done")
    /\ UNCHANGED <<enq, sent, ledgerVars, sweep, history>>

(* The process running r dies; pg-boss has retryLimit 0.                   *)
Crash(r) ==
    /\ ~At(r, "idle") /\ ~At(r, "done")
    /\ Goto(r, "done")
    /\ UNCHANGED <<rowVars, ledgerVars, sweep, history>>

-----------------------------------------------------------------------------
(* Time.  The reaper's windows are meant to exceed the longest run; with   *)
(* StalledRuns a run may be slower than that and meet the reaper alive.    *)

Live(x) == \E r \in Runs : Spend(r) = x /\ ~At(r, "idle") /\ ~At(r, "done")

AgeRow(j) ==
    /\ row[j].status \in {"queued", "running"} /\ ~row[j].aged
    /\ row[j].status = "running" => StalledRuns \/ ~Live(j)
    /\ row' = [row EXCEPT ![j].aged = TRUE]
    /\ UNCHANGED <<enq, sent, ledgerVars, run, sweep, history>>

AgeReserve ==
    /\ agedRows < Len(opened)
    /\ StalledRuns \/ ~Live(opened[agedRows + 1])
    /\ agedRows' = agedRows + 1
    /\ UNCHANGED <<rowVars, ledger, opened, late, run, sweep, history>>
-----------------------------------------------------------------------------
(* reconcileStuckJobs.                                                     *)

Sweeping(p, pc) == sweep[p].pc = pc
Then(p, pc)     == sweep' = [sweep EXCEPT ![p].pc = pc]
NextJob(p)      == sweep' = [sweep EXCEPT ![p].pc = "jobs", ![p].job = None, ![p].mark = "none"]
Verdict(p, mark) == sweep' = [sweep EXCEPT ![p].pc = "fail", ![p].mark = mark]

(* Mutant: every lane asks for rows that have started.                     *)
Batches_Started(status) ==
    {{j \in Jobs : status = "running" /\ row[j].status = status /\ row[j].aged}}

(* The candidate query of a jobs lane: Limit of the aged rows, if so many. *)
Batches(status) ==
    LET aged == {j \in Jobs : row[j].status = status /\ row[j].aged}
    IN  {b \in SUBSET aged : Cardinality(b) = Limit \/ (b = aged /\ Cardinality(b) < Limit)}

StartSweep(p) ==
    /\ Sweeping(p, "idle")
    /\ \E batch \in Batches("running") :
          sweep' = [sweep EXCEPT ![p] = [NoSweep EXCEPT !.pc = "jobs", !.jobs = batch]]
    /\ UNCHANGED <<rowVars, ledgerVars, run, history>>

PickJob(p) ==
    /\ Sweeping(p, "jobs")
    /\ \E j \in sweep[p].jobs :
          sweep' = [sweep EXCEPT ![p].pc = "find", ![p].job = j, ![p].jobs = @ \ {j}]
    /\ UNCHANGED <<rowVars, ledgerVars, run, history>>

(* Mutant: a failed lookup counts as "no reserve".                         *)
FindReserve_ErrorIsNone(p) ==
    /\ Sweeping(p, "find")
    /\ \/ Verdict(p, "NO_RESERVE")
       \/ ledger[sweep[p].job] # "none" /\ Then(p, "release")
    /\ UNCHANGED <<rowVars, ledgerVars, run, history>>

(* findJobReserves looks the reserve up by job_id; an error skips the job. *)
FindReserve(p) ==
    /\ Sweeping(p, "find")
    /\ \/ NextJob(p)
       \/ ledger[sweep[p].job] = "none" /\ Verdict(p, "NO_RESERVE")
       \/ ledger[sweep[p].job] # "none" /\ Then(p, "release")
    /\ UNCHANGED <<rowVars, ledgerVars, run, history>>

(* Mutants: fail the job whatever the release said; release a settled one. *)
ReleaseFound_Unconfirmed(p) ==
    /\ Sweeping(p, "release")
    /\ Verdict(p, "RELEASED")
    /\ \/ ledger[sweep[p].job] = "open" /\ ledger' = [ledger EXCEPT ![sweep[p].job] = "released"]
       \/ UNCHANGED ledger
    /\ UNCHANGED <<rowVars, opened, agedRows, late, run, history>>

ReleaseFound_NoSettledGuard(p) ==
    /\ Sweeping(p, "release")
    /\ ledger' = [ledger EXCEPT ![sweep[p].job] = "released"]
    /\ Verdict(p, "RELEASED")
    /\ UNCHANGED <<rowVars, opened, agedRows, late, run, history>>

(* Release FIRST: an unconfirmed release never fails the job.              *)
ReleaseFound(p) ==
    /\ Sweeping(p, "release")
    /\ \E o \in Outcomes :
          IF Landed(o) /\ ledger[sweep[p].job] = "open"
          THEN /\ ledger' = [ledger EXCEPT ![sweep[p].job] = "released"]
               /\ IF o = "ok" THEN Verdict(p, "RELEASED") ELSE NextJob(p)
          ELSE /\ UNCHANGED ledger
               /\ IF o = "ok" THEN Then(p, "kind") ELSE NextJob(p)
    /\ UNCHANGED <<rowVars, opened, agedRows, late, run, history>>

(* settlementKind: which row settled it; unreadable counts as committed.   *)
SettlementKind(p) ==
    /\ Sweeping(p, "kind")
    /\ Verdict(p, "SETTLED") \/ (ledger[sweep[p].job] = "released" /\ Verdict(p, "REFUNDED"))
    /\ UNCHANGED <<rowVars, ledgerVars, run, history>>

(* Fail the row only while it is still running.                            *)
FailStuck(p) ==
    /\ Sweeping(p, "fail")
    /\ \/ row[sweep[p].job].status = "running" /\ Failed(sweep[p].job, sweep[p].mark)
       \/ UNCHANGED row
    /\ NextJob(p)
    /\ UNCHANGED <<enq, sent, ledgerVars, run, history>>

(* sweepOrphanReserves: the oldest Limit spend_reserve rows past the       *)
(* window, SETTLED OR NOT, less those with a settling row.                 *)
Candidates == ToSet(SubSeq(opened, 1, IF agedRows < Limit THEN agedRows ELSE Limit))

(* Mutant: only the reserves of running jobs.                              *)
StartOrphans_RunningOnly(p) ==
    /\ Sweeping(p, "jobs") /\ sweep[p].jobs = {}
    /\ sweep' = [sweep EXCEPT ![p].pc = "orphans",
           ![p].orphans = {x \in Candidates \cap Jobs : ledger[x] = "open" /\ row[x].status = "running"}]
    /\ UNCHANGED <<rowVars, ledgerVars, run, history>>

StartOrphans(p) ==
    /\ Sweeping(p, "jobs") /\ sweep[p].jobs = {}
    /\ sweep' = [sweep EXCEPT ![p].pc = "orphans",
                              ![p].orphans = {x \in Candidates : ledger[x] = "open"}]
    /\ UNCHANGED <<rowVars, ledgerVars, run, history>>

ReleaseOrphan(p) ==
    /\ Sweeping(p, "orphans")
    /\ \E x \in sweep[p].orphans, o \in Outcomes :
          /\ ledger' = [ledger EXCEPT ![x] = IF Landed(o) /\ @ = "open" THEN "released" ELSE @]
          /\ sweep' = [sweep EXCEPT ![p].orphans = @ \ {x}]
    /\ UNCHANGED <<rowVars, opened, agedRows, late, run, history>>

(* sweepStuckQueuedJobs.                                                   *)
StartQueued(p) ==
    /\ Sweeping(p, "orphans") /\ sweep[p].orphans = {}
    /\ \E batch \in Batches("queued") :
          sweep' = [sweep EXCEPT ![p].pc = "queued", ![p].jobs = batch]
    /\ UNCHANGED <<rowVars, ledgerVars, run, history>>

FailQueued(p) ==
    /\ Sweeping(p, "queued")
    /\ \E j \in sweep[p].jobs :
          /\ \/ row[j].status = "queued" /\ Failed(j, "NEVER_DELIVERED")
             \/ UNCHANGED row
          /\ sweep' = [sweep EXCEPT ![p].jobs = @ \ {j}]
    /\ UNCHANGED <<enq, sent, ledgerVars, run, history>>

(* The sweep is over; or it threw, or its process died.                    *)
EndSweep(p) ==
    /\ Sweeping(p, "queued") /\ sweep[p].jobs = {}
    /\ sweep' = [sweep EXCEPT ![p] = NoSweep]
    /\ UNCHANGED <<rowVars, ledgerVars, run, history>>

SweepAborted(p) ==
    /\ ~Sweeping(p, "idle")
    /\ sweep' = [sweep EXCEPT ![p] = NoSweep]
    /\ UNCHANGED <<rowVars, ledgerVars, run, history>>

-----------------------------------------------------------------------------
Enqueue(j) == InsertRow(j) \/ Send(j) \/ MarkSendFailed(j) \/ EnqueuerCrash(j)

Execute(r) ==
    \/ Deliver(r) \/ StartCall(r) \/ GetJob(r) \/ Claim(r) \/ Reserve(r) \/ SetReserve(r)
    \/ Work(r) \/ Commit(r) \/ CommitLeftBehind(r) \/ Disposition(r) \/ Release(r)
    \/ Complete(r) \/ FailMark(r) \/ Crash(r)

Sweep(p) ==
    \/ StartSweep(p) \/ PickJob(p) \/ FindReserve(p) \/ ReleaseFound(p) \/ SettlementKind(p)
    \/ FailStuck(p) \/ StartOrphans(p) \/ ReleaseOrphan(p) \/ StartQueued(p) \/ FailQueued(p)
    \/ EndSweep(p)

Time == AgeReserve \/ \E j \in Jobs : AgeRow(j)

Next ==
    \/ \E j \in Jobs : Enqueue(j)
    \/ \E r \in Runs : Execute(r)
    \/ \E x \in Spends : LateCommitLands(x)
    \/ \E p \in Reapers : Sweep(p) \/ SweepAborted(p)
    \/ Time

Spec == Init /\ [][Next]_vars
=============================================================================
