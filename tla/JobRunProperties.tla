-------------------------- MODULE JobRunProperties --------------------------
(***************************************************************************)
(* What a customer may rely on, whatever crashes, is delivered twice, is   *)
(* reaped alive or loses its reply.                                        *)
(***************************************************************************)
EXTENDS JobRun

(* Money is only ever kept for work that was done: a commit is written     *)
(* after the tool body returned a result.  And a result is never given     *)
(* away: a job reads `succeeded` only with its reserve committed, even     *)
(* when the reaper released it under a live run.                           *)
PaidForWork ==
    /\ \A x \in Spends : ledger[x] = "committed" => x \in worked
    /\ \A j \in Jobs : row[j].status = "succeeded" => ledger[j] = "committed"

(* The error text of a failed job tells the truth about the money.  A      *)
(* refund that is claimed has happened; a job that was "never delivered"   *)
(* was never debited; "charge settled" is said of a charge only            *)
(* (queue/reaper.ts fail-marks, queue/failure-text.ts).                    *)
Says(j, marks) == row[j].status = "failed" /\ row[j].mark \in marks

HonestMarks == \A j \in Jobs :
    /\ Says(j, {"RELEASED", "REFUNDED", "commit_refunded"}) => ledger[j] = "released"
    /\ Says(j, {"NEVER_DELIVERED"}) => ledger[j] = "none"
    /\ Says(j, {"SETTLED"})         => ledger[j] \in {"committed", "released"}
    /\ Says(j, {"result_lost"})     => ledger[j] = "committed"

(* What a text says of the reserve stays true.  "The reserve is still open *)
(* and reconciliation refunds it automatically" is never followed by a     *)
(* charge (failure-text.ts:77, "a promise we can keep"), if a commit that  *)
(* failed is out of the way; "no open reserve to release, re-run the tool" *)
(* is never said of a job whose run goes on to charge, if the window       *)
(* exceeds the run.                                                        *)
MarksStayTrue == \A j \in Jobs :
    /\ Says(j, {"commit_open"}) => ledger[j] # "committed"
    /\ Says(j, {"NO_RESERVE"})  => ledger[j] = "none"

(* A settlement is final, whoever races for it: guard, reaper, CLI.        *)
SettlementIsFinal ==
    [][\A x \in Spends : ledger[x] \in {"committed", "released"} => ledger'[x] = ledger[x]]_vars

(* The tool body runs at most once per spend, and a finished job stays     *)
(* finished, however often the queue hands the message out: the claim of   *)
(* markJobRunning compares the status, and is the only gate.               *)
RunsOnce ==
    [][/\ \A x \in Spends : starts'[x] <= 1
       /\ \A j \in Jobs : row[j].status \in {"succeeded", "failed"}
                             => row'[j].status \in {"succeeded", "failed"}]_vars

-----------------------------------------------------------------------------
(* Fairness: a process that has a step takes it or crashes, time passes,   *)
(* and a reaper that keeps sweeping is not failed by the database for ever.*)
(* Nothing is assumed of senders, of the queue or of customers.            *)
Settles(p, x) == ReleaseOrphan(p) /\ ledger'[x] # "open"
Fails(p, j)   == (FailStuck(p) \/ FailQueued(p)) /\ row'[j] # row[j]

ReaperFairness(p) ==
    /\ WF_vars(Sweep(p))
    /\ SF_vars(PickJob(p))
    /\ SF_vars(FindReserve(p) /\ sweep'[p].pc # "jobs")
    /\ SF_vars(ReleaseFound(p) /\ sweep'[p].pc # "jobs")
    /\ SF_vars(SettlementKind(p))
    /\ SF_vars(StartOrphans(p))
    /\ SF_vars(StartQueued(p))
    /\ \A x \in Spends : SF_vars(Settles(p, x))
    /\ \A j \in Jobs : SF_vars(Fails(p, j))

Fairness ==
    /\ \A r \in Runs : WF_vars(~At(r, "idle") /\ Execute(r))
    /\ WF_vars(AgeReserve)
    /\ \A j \in Jobs : WF_vars(AgeRow(j))
    /\ \A p \in Reapers : ReaperFairness(p)

FairSpec == Spec /\ Fairness

(* No credit stays frozen: a reserve that was opened is settled in the end,*)
(* because the ledger lane refunds whatever nobody else settles.           *)
EveryReserveSettles == \A x \in Spends : ledger[x] = "open" ~> ledger[x] # "open"

(* No job hangs: an inserted row reaches succeeded or failed, even when its*)
(* message was never sent or the worker died on it.                        *)
EveryJobEnds ==
    \A j \in Jobs : row[j].status \in {"queued", "running"}
                        ~> row[j].status \in {"succeeded", "failed"}
=============================================================================
