---------------------------- MODULE JobRunProofs ----------------------------
(***************************************************************************)
(* The safety of a run for any number of jobs, calls, reapers, deliveries  *)
(* and attempts, with stalled runs and late commits allowed.               *)
(*                                                                         *)
(* Two executions never meet past the claim (Alone): markJobRunning takes  *)
(* a row out of queued, and no write of the worker, of the enqueuer or of  *)
(* a reaper ever puts it back.  So what a run learned before a database    *)
(* call is still true after it: a settlement is final, and the place of    *)
(* the run (Placed), the notes of a reaper (Found) and the row (Recorded)  *)
(* each say something of the ledger that stays so.                         *)
(*                                                                         *)
(* The promises of a mark need more: a job it is said of is over (Over),   *)
(* claimed once and with no run past the claim, and stays over.            *)
(***************************************************************************)
EXTENDS JobRunProperties, TLAPS

(* The records of TypeOK, and the places of a run.                         *)
Rows   == [status : {"absent", "queued", "running", "succeeded", "failed"},
           mark : Marks, aged : BOOLEAN, result : BOOLEAN]
Places == {"idle", "getJob", "claim", "reserve", "setReserve", "work",
           "commit", "disposition", "release", "complete", "failMark", "done"}
Execs  == [pc : Places, tries : 0 .. SettleAttempts - 1, mark : Marks]
Sweeps == [pc : {"idle", "jobs", "find", "release", "kind", "fail", "orphans", "queued"},
           jobs : SUBSET Jobs, job : Jobs \cup {None}, mark : Marks, orphans : SUBSET Spends]

-----------------------------------------------------------------------------
(* The writes.                                                             *)
LEMMA WriteRow ==
  ASSUME row \in [Jobs -> Rows], NEW j \in Jobs, NEW new \in Rows, row' = [row EXCEPT ![j] = new]
  PROVE  row' \in [Jobs -> Rows] /\ row'[j] = new /\ \A i \in Jobs \ {j} : row'[i] = row[i]
  OBVIOUS

(* failJob writes the status and the mark, of one row.                     *)
LEMMA FailedRow ==
  ASSUME row \in [Jobs -> Rows], NEW j \in Jobs, NEW m \in Marks, Failed(j, m)
  PROVE  /\ row' \in [Jobs -> Rows]
         /\ row'[j].status = "failed" /\ row'[j].mark = m
         /\ \A i \in Jobs \ {j} : row'[i] = row[i]
  <1> DEFINE new == [row[j] EXCEPT !.status = "failed", !.mark = m]
  <1>1. new \in Rows /\ new.status = "failed" /\ new.mark = m
    BY Zenon DEF Rows
  <1>2. row' = [row EXCEPT ![j] = new]
    BY Zenon DEF Failed
  <1> HIDE DEF new
  <1> QED
    BY <1>1, <1>2, WriteRow

(* completeJob.                                                            *)
LEMMA CompletedRow ==
  ASSUME row \in [Jobs -> Rows], NEW j \in Jobs, Completed(j)
  PROVE  /\ row' \in [Jobs -> Rows]
         /\ row'[j].status = "succeeded"
         /\ \A i \in Jobs \ {j} : row'[i] = row[i]
  <1> DEFINE new == [row[j] EXCEPT !.status = "succeeded", !.result = TRUE]
  <1>1. new \in Rows /\ new.status = "succeeded"
    BY Zenon DEF Rows
  <1>2. row' = [row EXCEPT ![j] = new]
    BY Zenon DEF Completed
  <1> HIDE DEF new
  <1> QED
    BY <1>1, <1>2, WriteRow

(* markJobRunning.                                                         *)
LEMMA ClaimedRow ==
  ASSUME row \in [Jobs -> Rows], NEW j \in Jobs, Claimed(j)
  PROVE  /\ row' \in [Jobs -> Rows]
         /\ row'[j].status = "running" /\ row'[j].aged = FALSE
         /\ \A i \in Jobs \ {j} : row'[i] = row[i]
  <1> DEFINE new == [row[j] EXCEPT !.status = "running", !.aged = FALSE]
  <1>1. new \in Rows /\ new.status = "running" /\ new.aged = FALSE
    BY Zenon DEF Rows
  <1>2. row' = [row EXCEPT ![j] = new]
    BY Zenon DEF Claimed
  <1> HIDE DEF new
  <1> QED
    BY <1>1, <1>2, WriteRow

(* The insert of enqueueJob.                                               *)
LEMMA InsertedRow ==
  ASSUME row \in [Jobs -> Rows], NEW j \in Jobs, InsertRow(j)
  PROVE  /\ row' \in [Jobs -> Rows]
         /\ row'[j].status = "queued"
         /\ \A i \in Jobs \ {j} : row'[i] = row[i]
  <1> DEFINE new == [row[j] EXCEPT !.status = "queued"]
  <1>1. new \in Rows /\ new.status = "queued"
    BY Zenon DEF Rows
  <1>2. row' = [row EXCEPT ![j] = new]
    BY Zenon DEF InsertRow
  <1> HIDE DEF new
  <1> QED
    BY <1>1, <1>2, WriteRow

(* Growing old leaves status and mark as they are.                         *)
LEMMA AgedRow ==
  ASSUME row \in [Jobs -> Rows], NEW j \in Jobs, AgeRow(j)
  PROVE  /\ row' \in [Jobs -> Rows]
         /\ \A i \in Jobs : row'[i].status = row[i].status /\ row'[i].mark = row[i].mark
  <1> DEFINE new == [row[j] EXCEPT !.aged = TRUE]
  <1>1. new \in Rows /\ new.status = row[j].status /\ new.mark = row[j].mark
    BY Zenon DEF Rows
  <1>2. row' = [row EXCEPT ![j] = new]
    BY Zenon DEF AgeRow
  <1> HIDE DEF new
  <1> QED
    BY <1>1, <1>2, WriteRow

(* A run goes on to its next database call.                                *)
LEMMA GotoRun ==
  ASSUME run \in [Runs -> Execs], NEW r \in Runs, NEW pc \in Places, Goto(r, pc)
  PROVE  /\ run' \in [Runs -> Execs]
         /\ run'[r].pc = pc
         /\ \A s \in Runs \ {r} : run'[s] = run[s]
  <1>1. run[r].mark \in Marks
    BY SMT DEF Execs
  <1> QED
    BY <1>1, BoundsAssumption, SMT DEF Goto, Execs, Marks

(* A rejection: the call is over, or its job has to be marked.             *)
Thrown(r, m) == IF r \in Calls THEN run'[r].pc = "done"
                ELSE run'[r].pc = "failMark" /\ run'[r].mark = m

(* A run throws.                                                           *)
LEMMA ThrowRun ==
  ASSUME run \in [Runs -> Execs], NEW r \in Runs, NEW m \in Marks, Throw(r, m)
  PROVE  /\ run' \in [Runs -> Execs] /\ Thrown(r, m)
         /\ \A s \in Runs \ {r} : run'[s] = run[s]
  <1>1. CASE r \in Calls
    BY <1>1, GotoRun, "done" \in Places, SMT DEF Throw, Places, Thrown
  <1>2. CASE r \notin Calls
    BY <1>2, BoundsAssumption, SMT DEF Throw, Execs, Places, Thrown
  <1> QED
    BY <1>1, <1>2

(* A run tries the same call once more.                                    *)
LEMMA TriesAgain ==
  ASSUME run \in [Runs -> Execs], NEW r \in Runs, run[r].tries + 1 < SettleAttempts,
         run' = [run EXCEPT ![r].tries = @ + 1]
  PROVE  /\ run' \in [Runs -> Execs]
         /\ run'[r].pc = run[r].pc /\ run'[r].mark = run[r].mark
         /\ \A s \in Runs \ {r} : run'[s] = run[s]
  <1> DEFINE new == [run[r] EXCEPT !.tries = @ + 1]
  <1>1. new \in Execs /\ new.pc = run[r].pc /\ new.mark = run[r].mark
    BY BoundsAssumption, SMT DEF Execs
  <1>2. run' = [run EXCEPT ![r] = new]
    BY Zenon
  <1> HIDE DEF new
  <1> QED
    BY <1>1, <1>2

(* A job in the table, a spend of its own.                                 *)
LEMMA RunSpend ==
  /\ \A r \in Runs : Spend(r) \in Spends /\ (r \notin Calls => Spend(r) \in Jobs)
  /\ \A r \in Calls : r \in Runs /\ Spend(r) = r
  /\ \A r, s \in Runs : r \in Calls /\ Spend(s) = Spend(r) => s = r
  <1>1. \A r \in Runs : r \notin Calls => Spend(r) \in Jobs
    BY SMT DEF Runs, Spend
  <1> QED
    BY <1>1, SpendsAssumption, SMT DEF Runs, Spend, Spends

-----------------------------------------------------------------------------
(* The invariant.                                                          *)

(* The types; a row of opened per reserve; bodies started at most once.    *)
Typed ==
    /\ row \in [Jobs -> Rows]
    /\ enq \in [Jobs -> {"idle", "send", "mark", "done"}] /\ sent \subseteq Jobs
    /\ ledger \in [Spends -> {"none", "open", "committed", "released"}]
    /\ opened \in Seq(Spends) /\ IsInjective(opened)
    /\ ToSet(opened) = {x \in Spends : ledger[x] # "none"}
    /\ agedRows \in 0 .. Len(opened) /\ late \subseteq Spends
    /\ run \in [Runs -> Execs] /\ sweep \in [Reapers -> Sweeps]
    /\ worked \subseteq Spends /\ starts \in [Spends -> {0, 1}]

(* Nobody has claimed the job: it waits, or was failed as never delivered. *)
Unclaimed(j) == row[j].status \in {"absent", "queued"} \/ Says(j, {"NEVER_DELIVERED"})

(* The places past the claim.                                              *)
Active == {"reserve", "setReserve", "work", "commit", "disposition", "release", "complete"}

(* Where a run stands tells what is true of its spend.                     *)
Placed(r) ==
    /\ r \notin Calls /\ run[r].pc # "idle" => row[Spend(r)].status # "absent"
    /\ r \in Calls => run[r].pc \notin {"getJob", "claim", "setReserve", "complete", "failMark"}
    /\ run[r].pc \in Active /\ r \notin Calls => ~Unclaimed(Spend(r))
    /\ run[r].pc \in {"reserve", "setReserve", "work"} \/ (r \in Calls /\ run[r].pc = "idle")
          => starts[Spend(r)] = 0
    /\ run[r].pc \in {"commit", "disposition", "complete"} => Spend(r) \in worked
    /\ run[r].pc = "complete" => ledger[Spend(r)] = "committed"
    /\ run[r].pc = "failMark" =>
          /\ run[r].mark \in {"platform", "commit_open", "commit_refunded", "commit_unknown", "result_lost"}
          /\ run[r].mark = "commit_refunded" => ledger[Spend(r)] = "released"
          /\ run[r].mark = "result_lost" => ledger[Spend(r)] = "committed"

(* One run per spend is past the claim.                                    *)
Alone == \A r, s \in Runs :
    run[r].pc \in Active /\ run[s].pc \in Active /\ Spend(r) = Spend(s) => r = s

(* What a reaper has found out about the job in its hand.                  *)
Found(p) ==
    /\ sweep[p].pc \in {"find", "release", "kind", "fail"} => sweep[p].job \in Jobs
    /\ sweep[p].pc = "release" => ledger[sweep[p].job] # "none"
    /\ sweep[p].pc = "kind" => ledger[sweep[p].job] \in {"committed", "released"}
    /\ sweep[p].pc = "fail" =>
          /\ sweep[p].mark \in {"RELEASED", "SETTLED", "REFUNDED", "NO_RESERVE"}
          /\ sweep[p].mark \in {"RELEASED", "REFUNDED"} => ledger[sweep[p].job] = "released"
          /\ sweep[p].mark = "SETTLED" => ledger[sweep[p].job] \in {"committed", "released"}

(* What the row of a job tells of its spend.                               *)
Recorded(j) ==
    /\ enq[j] = "idle" <=> row[j].status = "absent"
    /\ row[j].status = "absent" => j \notin sent
    /\ Unclaimed(j) => ledger[j] = "none" /\ starts[j] = 0
    /\ row[j].status = "succeeded" => ledger[j] = "committed"
    /\ Says(j, {"RELEASED", "REFUNDED", "commit_refunded"}) => ledger[j] = "released"
    /\ Says(j, {"SETTLED"})     => ledger[j] \in {"committed", "released"}
    /\ Says(j, {"result_lost"}) => ledger[j] = "committed"

(* A charge, landed or in flight, is for work that was done.               *)
Earned == late \subseteq worked /\ \A x \in Spends : ledger[x] = "committed" => x \in worked

IInv ==
    /\ Typed /\ Alone /\ Earned
    /\ \A r \in Runs : Placed(r)
    /\ \A p \in Reapers : Found(p)
    /\ \A j \in Jobs : Recorded(j)

(* Nothing has happened: every row is absent, nobody runs.                 *)
LEMMA InitIInv == Init => IInv
  <1> SUFFICES ASSUME Init PROVE IInv
    OBVIOUS
  <1>1. row \in [Jobs -> Rows] /\ \A j \in Jobs : row[j].status = "absent"
    <2>1. NoRow \in Rows /\ NoRow.status = "absent"
      BY SMT DEF NoRow, Rows, Marks
    <2> QED
      BY <2>1 DEF Init
  <1>2. run \in [Runs -> Execs] /\ \A r \in Runs : run[r].pc = "idle"
    BY BoundsAssumption, SMT DEF Init, Execs, Places, Marks
  <1>3. sweep \in [Reapers -> Sweeps] /\ \A p \in Reapers : sweep[p].pc = "idle"
    BY SMT DEF Init, NoSweep, Sweeps, Marks
  <1>4. Typed
    <2>1. opened \in Seq(Spends) /\ IsInjective(opened) /\ ToSet(opened) = {} /\ Len(opened) = 0
      BY SMT DEF Init, IsInjective, ToSet
    <2> QED
      BY <1>1, <1>2, <1>3, <2>1, SMT DEF Init, Typed
  <1>5. Alone /\ Earned
    BY <1>2, SMT DEF Init, Alone, Active, Earned
  <1>6. \A r \in Runs : Placed(r)
    BY <1>2, RunSpend, SMT DEF Init, Placed, Active
  <1>7. \A p \in Reapers : Found(p)
    BY <1>3, SMT DEF Found
  <1>8. \A j \in Jobs : Recorded(j)
    BY <1>1, SMT DEF Init, Recorded, Says, Spends
  <1> QED
    BY <1>4, <1>5, <1>6, <1>7, <1>8 DEF IInv

-----------------------------------------------------------------------------
(* What every step leaves true.                                            *)

(* The ledger only moves on.                                               *)
LedgerMoves == \A x \in Spends :
    \/ ledger'[x] = ledger[x]
    \/ ledger[x] = "none" /\ ledger'[x] = "open"
    \/ ledger[x] = "open" /\ ledger'[x] \in {"committed", "released"}

(* A claimed row is never unclaimed again, a row never vanishes.           *)
RowMoves == \A j \in Jobs :
    /\ ~Unclaimed(j) => ~Unclaimed(j)'
    /\ row[j].status # "absent" => row'[j].status # "absent"

(* The step is r's: the other runs stay where they are.                    *)
Moves(r) == run' \in [Runs -> Execs] /\ \A s \in Runs \ {r} : run'[s] = run[s]

(* What a run relies on survives the steps of others.                      *)
LEMMA PlacedStays ==
  ASSUME NEW r \in Runs, Placed(r), run'[r] = run[r], LedgerMoves, RowMoves, worked \subseteq worked',
         \/ starts'[Spend(r)] = starts[Spend(r)]
         \/ run[r].pc \notin Active /\ r \notin Calls
  PROVE  Placed(r)'
  BY RunSpend, SMT DEF Placed, LedgerMoves, RowMoves, Active

(* So do the notes of a reaper.                                            *)
LEMMA FoundStays ==
  ASSUME NEW p \in Reapers, Found(p), sweep'[p] = sweep[p], LedgerMoves
  PROVE  Found(p)'
  BY SMT DEF Found, LedgerMoves, Spends

(* And what a row says.                                                    *)
LEMMA RecordedStays ==
  ASSUME NEW j \in Jobs, Recorded(j), LedgerMoves,
         enq'[j] = "idle" <=> enq[j] = "idle", j \in sent' => j \in sent \/ row[j].status # "absent",
         row'[j].status = row[j].status, row'[j].mark = row[j].mark,
         Unclaimed(j) => ledger'[j] = ledger[j] /\ starts'[j] = starts[j]
  PROVE  Recorded(j)'
  BY SMT DEF Recorded, LedgerMoves, Unclaimed, Says, Spends

-----------------------------------------------------------------------------
(* A run takes a step.                                                     *)

(* Frame of a run's step: its own place is all there is to look at.        *)
LEMMA RunKeeps ==
  ASSUME IInv, NEW r \in Runs, Moves(r), Placed(r)', LedgerMoves, RowMoves,
         Typed', Earned', \A j \in Jobs : Recorded(j)', sweep' = sweep, worked \subseteq worked',
         run'[r].pc \in Active => run[r].pc \in Active \/ r \in Calls \/ Unclaimed(Spend(r)),
         \A x \in Spends : starts'[x] # starts[x] => x = Spend(r) /\ run[r].pc \in Active
  PROVE  IInv'
  <1>1. Alone'
    <2> SUFFICES ASSUME NEW s \in Runs, s # r, run[s].pc \in Active, Spend(s) = Spend(r),
                        run'[r].pc \in Active
                 PROVE  FALSE
      BY SMT DEF Alone, Moves, IInv
    <2>1. run[r].pc \notin Active /\ r \notin Calls /\ s \notin Calls
      BY RunSpend, SMT DEF Alone, IInv
    <2> QED
      BY <2>1, SMT DEF IInv, Placed
  <1>2. \A s \in Runs : Placed(s)'
    <2> SUFFICES ASSUME NEW s \in Runs, s # r PROVE Placed(s)'
      OBVIOUS
    <2>1. run'[s] = run[s] /\ Placed(s) /\ Spend(s) \in Spends
      BY RunSpend DEF Moves, IInv
    <2>2. starts'[Spend(s)] # starts[Spend(s)] => run[s].pc \notin Active /\ s \notin Calls
      BY <2>1, RunSpend, SMT DEF IInv, Alone
    <2> QED
      BY <2>1, <2>2, PlacedStays, Zenon
  <1>3. \A p \in Reapers : Found(p)'
    BY FoundStays DEF IInv
  <1> QED
    BY <1>1, <1>2, <1>3 DEF IInv

(* A step that is seen by the run alone.                                   *)
LEMMA QuietRun ==
  ASSUME IInv, NEW r \in Runs, Moves(r), Placed(r)',
         UNCHANGED <<rowVars, ledgerVars, sweep, history>>,
         run'[r].pc \in Active => run[r].pc \in Active \/ r \in Calls
  PROVE  IInv'
  <1> USE DEF rowVars, ledgerVars, history
  <1>1. LedgerMoves /\ RowMoves
    BY Zenon DEF LedgerMoves, RowMoves, Unclaimed, Says
  <1>2. Typed' /\ Earned'
    BY Zenon DEF IInv, Typed, Earned, Moves
  <1>3. \A j \in Jobs : Recorded(j)'
    BY Zenon DEF IInv, Recorded, Unclaimed, Says
  <1> QED
    BY <1>1, <1>2, <1>3, RunKeeps, Zenon

(* A message is handed out for a job whose row exists.                     *)
LEMMA DeliverKeeps ==
  ASSUME IInv, NEW r \in Runs, Deliver(r)
  PROVE  IInv'
  <1>1. Moves(r) /\ run'[r].pc = "getJob" /\ r \notin Calls
    BY GotoRun, SMT DEF IInv, Typed, Deliver, Moves, Places
  <1>2. row' = row /\ row[Spend(r)].status # "absent"
    BY RunSpend, SMT DEF IInv, Recorded, Deliver, rowVars
  <1>3. Placed(r)'
    BY <1>1, <1>2, SMT DEF Placed, Active
  <1> QED
    BY <1>1, <1>3, QuietRun, SMT DEF Deliver, Active

(* A synchronous call starts.                                              *)
LEMMA StartCallKeeps ==
  ASSUME IInv, NEW r \in Runs, StartCall(r)
  PROVE  IInv'
  <1>1. Moves(r) /\ run'[r].pc = "reserve" /\ run[r].pc = "idle" /\ r \in Calls /\ starts' = starts
    BY GotoRun, SMT DEF IInv, Typed, StartCall, At, Moves, Places, history
  <1>2. Placed(r)'
    BY <1>1, SMT DEF IInv, Placed, Active
  <1> QED
    BY <1>1, <1>2, QuietRun, SMT DEF StartCall, Active

(* The row is read.                                                        *)
LEMMA GetJobKeeps ==
  ASSUME IInv, NEW r \in Runs, GetJob(r)
  PROVE  IInv'
  <1>1. Moves(r) /\ r \notin Calls /\ (run'[r].pc = "claim" \/ Thrown(r, "platform"))
    <2>1. run \in [Runs -> Execs] /\ r \notin Calls
      BY SMT DEF IInv, Typed, Placed, GetJob, At
    <2>2. "claim" \in Places /\ "platform" \in Marks
      BY DEF Places, Marks
    <2> QED
      BY <2>1, <2>2, GotoRun, ThrowRun, Zenon DEF GetJob, Moves
  <1>2. Placed(r)'
    BY <1>1, SMT DEF IInv, Thrown, Placed, Active, GetJob, At, rowVars
  <1> QED
    BY <1>1, <1>2, QuietRun, SMT DEF GetJob, Active, Thrown

(* The reserve id is written on the row; if not, it is given back.         *)
LEMMA SetReserveKeeps ==
  ASSUME IInv, NEW r \in Runs, SetReserve(r)
  PROVE  IInv'
  <1>1. Moves(r) /\ run'[r].pc \in {"work", "release"} /\ run[r].pc = "setReserve" /\ starts' = starts
    <2>1. {"work", "release"} \subseteq Places
      BY DEF Places
    <2> QED
      BY <2>1, GotoRun, SMT DEF IInv, Typed, SetReserve, At, Moves, history
  <1>2. UNCHANGED row
    BY DEF SetReserve, rowVars
  <1>3. Placed(r)'
    BY <1>1, <1>2, RunSpend, SMT DEF IInv, Placed, Active, Unclaimed, Says
  <1> QED
    BY <1>1, <1>3, QuietRun, SMT DEF SetReserve, Active

(* One read of the ledger decides what is said of the charge.              *)
LEMMA DispositionKeeps ==
  ASSUME IInv, NEW r \in Runs, Disposition(r)
  PROVE  IInv'
  <1>0. /\ run \in [Runs -> Execs] /\ run[r].pc = "disposition" /\ Spend(r) \in worked
        /\ UNCHANGED <<row, ledger, worked, starts>>
    BY SMT DEF IInv, Typed, Placed, Disposition, At, rowVars, ledgerVars, history
  <1>1. CASE ledger[Spend(r)] = "committed" /\ Charged(r)
    <2>1. Moves(r) /\ run'[r].pc = IF r \in Calls THEN "done" ELSE "complete"
      <3>1. {"done", "complete"} \subseteq Places
        BY DEF Places
      <3> QED
        BY <1>0, <1>1, <3>1, GotoRun, SMT DEF Charged, Moves
    <2>2. Placed(r)'
      BY <1>0, <1>1, <2>1, SMT DEF IInv, Placed, Active, Unclaimed, Says
    <2> QED
      BY <1>0, <2>1, <2>2, QuietRun, SMT DEF Disposition, Active
  <1>2. ASSUME NEW m \in {"commit_unknown", "commit_refunded", "commit_open"}, Throw(r, m),
               m = "commit_refunded" => ledger[Spend(r)] = "released"
        PROVE  IInv'
    <2>1. Moves(r) /\ Thrown(r, m)
      BY <1>0, <1>2, ThrowRun, SMT DEF Moves, Marks
    <2>2. Placed(r)'
      BY <1>0, <1>2, <2>1, SMT DEF IInv, Placed, Thrown, Active
    <2> QED
      BY <1>0, <2>1, <2>2, QuietRun, SMT DEF Disposition, Active, Thrown
  <1> QED
    BY <1>1, <1>2, Zenon DEF Disposition

(* The process dies: nothing is written.                                   *)
LEMMA CrashKeeps ==
  ASSUME IInv, NEW r \in Runs, Crash(r)
  PROVE  IInv'
  <1>1. Moves(r) /\ run'[r].pc = "done"
    BY GotoRun, SMT DEF IInv, Typed, Crash, Moves, Places
  <1>2. Placed(r)'
    BY <1>1, SMT DEF IInv, Placed, Active, Crash, At, rowVars
  <1> QED
    BY <1>1, <1>2, QuietRun, SMT DEF Crash, Active

-----------------------------------------------------------------------------
(* A reserve is settled, or left as it is.                                 *)

Settled(x, to) ==
    \/ ledger[x] = "open" /\ ledger' = [ledger EXCEPT ![x] = to]
    \/ ledger' = ledger

(* Frame of a settlement, by a run or by a reaper.                         *)
LEMMA SettledLedger ==
  ASSUME IInv, NEW x \in Spends, NEW to \in {"committed", "released"}, Settled(x, to),
         UNCHANGED <<rowVars, opened, agedRows, starts>>
  PROVE  /\ ledger' \in [Spends -> {"none", "open", "committed", "released"}]
         /\ ToSet(opened') = {y \in Spends : ledger'[y] # "none"}
         /\ LedgerMoves /\ RowMoves
         /\ \A j \in Jobs : Recorded(j)'
  <1>1. ledger' \in [Spends -> {"none", "open", "committed", "released"}] /\ LedgerMoves
    BY SMT DEF IInv, Typed, Settled, LedgerMoves
  <1>2. ToSet(opened') = {y \in Spends : ledger'[y] # "none"}
    BY SMT DEF IInv, Typed, Settled
  <1>3. RowMoves
    BY SMT DEF RowMoves, Unclaimed, Says, rowVars
  <1>4. ASSUME NEW j \in Jobs PROVE Recorded(j)'
    <2>1. Unclaimed(j) => ledger'[j] = ledger[j]
      BY SMT DEF IInv, Typed, Recorded, Settled, Spends
    <2> QED
      BY <1>1, <2>1, RecordedStays, SMT DEF IInv, rowVars
  <1> QED
    BY <1>1, <1>2, <1>3, <1>4

(* An attempt to settle is followed by another, or is the last.            *)
LEMMA RetryRun ==
  ASSUME IInv, NEW r \in Runs, NEW pc \in Places, Retry(r, Goto(r, pc))
  PROVE  /\ Moves(r) /\ run'[r].pc \in {run[r].pc, pc}
         /\ run'[r].mark \in Marks
  <1>1. run \in [Runs -> Execs]
    BY DEF IInv, Typed
  <1>2. CASE run[r].tries + 1 < SettleAttempts
    BY <1>1, <1>2, TriesAgain, SMT DEF Retry, Moves, Execs
  <1>3. CASE ~(run[r].tries + 1 < SettleAttempts)
    BY <1>1, <1>3, GotoRun, SMT DEF Retry, Moves, Execs
  <1> QED
    BY <1>2, <1>3

(* The charge, which the body has earned.                                  *)
LEMMA CommitKeeps ==
  ASSUME IInv, NEW r \in Runs, Commit(r)
  PROVE  IInv'
  <1>0. /\ run \in [Runs -> Execs] /\ run[r].pc = "commit" /\ Spend(r) \in worked /\ Spend(r) \in Spends
        /\ UNCHANGED <<rowVars, opened, agedRows, late, sweep, worked, starts>>
    BY RunSpend, SMT DEF IInv, Typed, Placed, Commit, At, history
  <1>1. /\ Settled(Spend(r), "committed")
        /\ \/ ledger'[Spend(r)] = "committed" /\ Charged(r)
           \/ Retry(r, Goto(r, "disposition"))
           \/ Goto(r, "disposition")
    <2> USE <1>0 DEF IInv, Typed, Commit, SettleTry, Settled
    <2>1. Settled(Spend(r), "committed")
      BY Zenon
    <2>2. \/ ledger'[Spend(r)] = "committed" /\ Charged(r)
          \/ Retry(r, Goto(r, "disposition"))
          \/ Goto(r, "disposition")
      BY SMT
    <2> QED
      BY <2>1, <2>2
  <1>2. /\ Moves(r)
        /\ \/ ledger'[Spend(r)] = "committed" /\ run'[r].pc = IF r \in Calls THEN "done" ELSE "complete"
           \/ run'[r].pc \in {"commit", "disposition"}
    <2>1. {"done", "complete", "disposition"} \subseteq Places
      BY DEF Places
    <2>2. CASE ledger'[Spend(r)] = "committed" /\ Charged(r)
      BY <1>0, <2>1, <2>2, GotoRun, SMT DEF Charged, Moves
    <2>3. CASE Retry(r, Goto(r, "disposition"))
      BY <1>0, <2>1, <2>3, RetryRun, SMT
    <2>4. CASE Goto(r, "disposition")
      BY <1>0, <2>1, <2>4, GotoRun, SMT DEF Moves
    <2> QED
      BY <1>1, <2>2, <2>3, <2>4
  <1>3. /\ ledger' \in [Spends -> {"none", "open", "committed", "released"}]
        /\ ToSet(opened') = {y \in Spends : ledger'[y] # "none"}
        /\ LedgerMoves /\ RowMoves /\ \A j \in Jobs : Recorded(j)'
    BY <1>0, <1>1, SettledLedger
  <1>4. Placed(r)'
    BY <1>0, <1>2, RunSpend, SMT DEF IInv, Placed, Active, Unclaimed, Says, rowVars
  <1>5. Typed'
    BY <1>0, <1>2, <1>3, Zenon DEF IInv, Typed, Moves, rowVars
  <1>6. Earned'
    BY <1>0, <1>1, SMT DEF IInv, Typed, Earned, Settled
  <1> QED
    BY <1>0, <1>2, <1>3, <1>4, <1>5, <1>6, RunKeeps, SMT DEF Active

(* The refund before the error is rethrown.                                *)
LEMMA ReleaseKeeps ==
  ASSUME IInv, NEW r \in Runs, Release(r)
  PROVE  IInv'
  <1>0. /\ run \in [Runs -> Execs] /\ run[r].pc = "release" /\ Spend(r) \in Spends
        /\ UNCHANGED <<rowVars, opened, agedRows, late, sweep, worked, starts>>
    BY RunSpend, SMT DEF IInv, Typed, Release, At, history
  <1>1. Settled(Spend(r), "released") /\ (Throw(r, "platform") \/ Retry(r, Throw(r, "platform")))
    <2> USE <1>0 DEF IInv, Typed, Release, SettleTry, Settled
    <2>1. Settled(Spend(r), "released")
      BY Zenon
    <2>2. Throw(r, "platform") \/ Retry(r, Throw(r, "platform"))
      BY Zenon
    <2> QED
      BY <2>1, <2>2
  <1>2. Moves(r) /\ (run'[r].pc = "release" \/ Thrown(r, "platform"))
    <2>1. CASE Throw(r, "platform")
      BY <1>0, <2>1, ThrowRun, SMT DEF Moves, Marks
    <2>2. CASE run[r].tries + 1 < SettleAttempts /\ run' = [run EXCEPT ![r].tries = @ + 1]
      <3>1. /\ run' \in [Runs -> Execs] /\ run'[r].pc = run[r].pc
            /\ \A s \in Runs \ {r} : run'[s] = run[s]
        BY <1>0, <2>2, TriesAgain, Zenon
      <3> QED
        BY <1>0, <3>1, Zenon DEF Moves
    <2> QED
      BY <1>1, <2>1, <2>2, Zenon DEF Retry
  <1>3. /\ ledger' \in [Spends -> {"none", "open", "committed", "released"}]
        /\ ToSet(opened') = {y \in Spends : ledger'[y] # "none"}
        /\ LedgerMoves /\ RowMoves /\ \A j \in Jobs : Recorded(j)'
    BY <1>0, <1>1, SettledLedger
  <1>4. Placed(r)'
    BY <1>0, <1>2, RunSpend, SMT DEF IInv, Placed, Active, Unclaimed, Says, rowVars, Thrown
  <1>5. Typed'
    BY <1>0, <1>2, <1>3, Zenon DEF IInv, Typed, Moves, rowVars
  <1>6. Earned'
    BY <1>0, <1>1, SMT DEF IInv, Typed, Earned, Settled
  <1> QED
    BY <1>0, <1>2, <1>3, <1>4, <1>5, <1>6, RunKeeps, SMT DEF Active, Thrown

(* What is left behind was earned: the body has returned.                  *)
LEMMA CommitLeftBehindKeeps ==
  ASSUME IInv, NEW r \in Runs, CommitLeftBehind(r)
  PROVE  IInv'
  <1>0. /\ run \in [Runs -> Execs] /\ run[r].pc = "commit" /\ Spend(r) \in worked /\ Spend(r) \in Spends
        /\ UNCHANGED <<rowVars, ledger, opened, agedRows, sweep, worked, starts>>
        /\ late' = late \cup {Spend(r)}
    BY RunSpend, SMT DEF IInv, Typed, Placed, CommitLeftBehind, At, history
  <1>1. Moves(r) /\ run'[r].pc \in {"commit", "disposition"}
    BY <1>0, RetryRun, "disposition" \in Places, SMT DEF CommitLeftBehind, Places
  <1>2. Settled(Spend(r), "committed")
    BY <1>0 DEF Settled
  <1>3. LedgerMoves /\ RowMoves /\ \A j \in Jobs : Recorded(j)'
    BY <1>0, <1>2, SettledLedger
  <1>4. Placed(r)'
    BY <1>0, <1>1, RunSpend, SMT DEF IInv, Placed, Active, Unclaimed, Says, rowVars
  <1>5. Typed'
    BY <1>0, <1>1, SMT DEF IInv, Typed, Moves, rowVars
  <1>6. Earned'
    BY <1>0, SMT DEF IInv, Earned
  <1> QED
    BY <1>0, <1>1, <1>3, <1>4, <1>5, <1>6, RunKeeps, SMT DEF Active

(* A commit lands after its caller saw an error, if it still can.          *)
LEMMA LateCommitLandsKeeps ==
  ASSUME IInv, NEW x \in Spends, LateCommitLands(x)
  PROVE  IInv'
  <1>0. /\ x \in worked /\ UNCHANGED <<rowVars, opened, agedRows, run, sweep, worked, starts>>
        /\ late' = late \ {x}
    BY SMT DEF IInv, Earned, LateCommitLands, history
  <1>1. Settled(x, "committed")
    <2>1. CASE ledger[x] = "open"
      BY <2>1, Zenon DEF LateCommitLands, Settled
    <2>2. CASE ledger[x] # "open"
      <3>1. ledger' = [ledger EXCEPT ![x] = ledger[x]]
        BY <2>2, Zenon DEF LateCommitLands
      <3> QED
        BY <3>1, Zenon DEF IInv, Typed, Settled
    <2> QED
      BY <2>1, <2>2
  <1>2. /\ ledger' \in [Spends -> {"none", "open", "committed", "released"}]
        /\ ToSet(opened') = {y \in Spends : ledger'[y] # "none"}
        /\ LedgerMoves /\ RowMoves /\ \A j \in Jobs : Recorded(j)'
    BY <1>0, <1>1, SettledLedger
  <1>3. Typed'
    BY <1>0, <1>2, SMT DEF IInv, Typed, rowVars
  <1>4. Earned'
    BY <1>0, <1>1, SMT DEF IInv, Typed, Earned, Settled
  <1>5. Alone'
    BY <1>0, Zenon DEF IInv, Alone
  <1>6. \A r \in Runs : Placed(r)'
    BY <1>0, <1>2, PlacedStays, Zenon DEF IInv
  <1>7. \A p \in Reapers : Found(p)'
    BY <1>0, <1>2, FoundStays, Zenon DEF IInv
  <1> QED
    BY <1>2, <1>3, <1>4, <1>5, <1>6, <1>7 DEF IInv

-----------------------------------------------------------------------------
(* The reserve is opened, the body runs.                                   *)

(* The unique index: a spend opens one reserve.                            *)
LEMMA OpenedOnce ==
  ASSUME IInv, NEW x \in Spends, ledger[x] = "none", ledger' = [ledger EXCEPT ![x] = "open"],
         opened' = Append(opened, x), agedRows' = agedRows
  PROVE  /\ ledger' \in [Spends -> {"none", "open", "committed", "released"}]
         /\ opened' \in Seq(Spends) /\ IsInjective(opened')
         /\ ToSet(opened') = {y \in Spends : ledger'[y] # "none"}
         /\ agedRows' \in 0 .. Len(opened')
  <1>0. /\ ledger \in [Spends -> {"none", "open", "committed", "released"}]
        /\ opened \in Seq(Spends) /\ agedRows \in 0 .. Len(opened)
        /\ ToSet(opened) = {y \in Spends : ledger[y] # "none"} /\ IsInjective(opened)
    BY DEF IInv, Typed
  <1>1. opened' \in Seq(Spends) /\ Len(opened') = Len(opened) + 1 /\ opened'[Len(opened) + 1] = x
    BY <1>0, SMT
  <1>2. \A i \in 1 .. Len(opened) : opened'[i] = opened[i] /\ opened[i] # x
    BY <1>0, SMT DEF ToSet
  <1>3. IsInjective(opened')
    BY <1>0, <1>1, <1>2, SMT DEF IsInjective
  <1>4. ToSet(opened') = ToSet(opened) \cup {x}
    <2>1. ToSet(opened') \subseteq ToSet(opened) \cup {x}
      BY <1>0, <1>1, <1>2, SMT DEF ToSet
    <2>2. ToSet(opened) \cup {x} \subseteq ToSet(opened')
      BY <1>0, <1>1, <1>2, SMT DEF ToSet
    <2> QED
      BY <2>1, <2>2
  <1>5. {y \in Spends : ledger'[y] # "none"} = {y \in Spends : ledger[y] # "none"} \cup {x}
    BY <1>0, SMT
  <1> QED
    BY <1>0, <1>1, <1>3, <1>4, <1>5, SMT

(* spend_reserve, once in the life of a spend.                             *)
LEMMA ReserveKeeps ==
  ASSUME IInv, NEW r \in Runs, Reserve(r)
  PROVE  IInv'
  <1>0. /\ run \in [Runs -> Execs] /\ run[r].pc = "reserve" /\ Spend(r) \in Spends
        /\ starts[Spend(r)] = 0
        /\ UNCHANGED <<rowVars, agedRows, late, sweep, worked, starts>>
    BY RunSpend, SMT DEF IInv, Typed, Placed, Reserve, At, history
  <1> DEFINE next == IF r \in Calls THEN "work" ELSE "setReserve"
  <1>1. /\ \/ UNCHANGED <<ledger, opened>>
           \/ /\ ledger[Spend(r)] = "none" /\ ledger' = [ledger EXCEPT ![Spend(r)] = "open"]
              /\ opened' = Append(opened, Spend(r))
        /\ Throw(r, "platform") \/ Goto(r, next)
    BY Zenon DEF Reserve
  <1>2. Moves(r) /\ (run'[r].pc = next \/ Thrown(r, "platform"))
    <2>1. "platform" \in Marks /\ next \in Places
      BY DEF Marks, Places
    <2> HIDE DEF next
    <2> QED
      BY <1>0, <1>1, <2>1, ThrowRun, GotoRun, Zenon DEF Moves
  <1>3. /\ ledger' \in [Spends -> {"none", "open", "committed", "released"}]
        /\ opened' \in Seq(Spends) /\ IsInjective(opened')
        /\ ToSet(opened') = {y \in Spends : ledger'[y] # "none"}
        /\ agedRows' \in 0 .. Len(opened')
    <2>1. CASE UNCHANGED <<ledger, opened>>
      BY <1>0, <2>1 DEF IInv, Typed
    <2> QED
      BY <1>0, <1>1, <2>1, OpenedOnce
  <1>4. Typed'
    BY <1>0, <1>2, <1>3, Zenon DEF IInv, Typed, Moves, rowVars
  <1>5. LedgerMoves /\ RowMoves
    BY <1>0, <1>1, SMT DEF IInv, Typed, LedgerMoves, RowMoves, Unclaimed, Says, rowVars
  <1>6. Placed(r)'
    BY <1>0, <1>2, RunSpend, SMT DEF IInv, Placed, Active, Unclaimed, Says, rowVars, Thrown
  <1>7. Earned'
    BY <1>0, <1>1, SMT DEF IInv, Typed, Earned
  <1>8. ASSUME NEW j \in Jobs PROVE Recorded(j)'
    <2>1. Unclaimed(j) => ledger'[j] = ledger[j]
      <3> SUFFICES ASSUME Unclaimed(j), j = Spend(r) PROVE FALSE
        BY <1>0, <1>1, SMT DEF IInv, Typed, Spends
      <3> QED
        BY <1>0, SpendsAssumption, RunSpend, SMT DEF IInv, Placed, Active
    <2> QED
      BY <1>0, <1>5, <2>1, RecordedStays, SMT DEF IInv, rowVars
  <1> QED
    BY <1>0, <1>2, <1>4, <1>5, <1>6, <1>7, <1>8, RunKeeps, SMT DEF Active, Thrown

(* The body: alone past the claim, the run starts it for the first time.   *)
LEMMA WorkKeeps ==
  ASSUME IInv, NEW r \in Runs, Work(r)
  PROVE  IInv'
  <1>0. /\ run \in [Runs -> Execs] /\ run[r].pc = "work" /\ Spend(r) \in Spends
        /\ starts[Spend(r)] = 0 /\ starts \in [Spends -> {0, 1}]
        /\ starts' = [starts EXCEPT ![Spend(r)] = @ + 1]
        /\ UNCHANGED <<rowVars, ledgerVars, sweep>>
    BY RunSpend, SMT DEF IInv, Typed, Placed, Work, At
  <1>1. starts' \in [Spends -> {0, 1}] /\ \A x \in Spends : starts'[x] # starts[x] => x = Spend(r)
    BY <1>0, SMT
  <1>2. /\ Moves(r) /\ worked \subseteq worked' /\ worked' \subseteq Spends
        /\ (run'[r].pc = "commit" /\ Spend(r) \in worked') \/ run'[r].pc = "release"
    <2>1. {"commit", "release"} \subseteq Places /\ worked \subseteq Spends
      BY DEF Places, IInv, Typed
    <2> QED
      BY <1>0, <2>1, GotoRun, SMT DEF Work, Moves
  <1>3. Typed'
    BY <1>0, <1>1, <1>2, SMT DEF IInv, Typed, Moves, rowVars, ledgerVars
  <1>4. LedgerMoves /\ RowMoves
    BY <1>0, SMT DEF LedgerMoves, RowMoves, Unclaimed, Says, rowVars, ledgerVars
  <1>5. Placed(r)'
    BY <1>0, <1>2, RunSpend, SMT DEF IInv, Placed, Active, Unclaimed, Says, rowVars, ledgerVars
  <1>6. Earned'
    BY <1>0, <1>2, SMT DEF IInv, Earned, ledgerVars
  <1>7. ASSUME NEW j \in Jobs PROVE Recorded(j)'
    <2>1. Unclaimed(j) => starts'[j] = starts[j]
      <3> SUFFICES ASSUME Unclaimed(j), j = Spend(r) PROVE FALSE
        BY <1>1, SMT DEF Spends
      <3> QED
        BY <1>0, SpendsAssumption, RunSpend, SMT DEF IInv, Placed, Active
    <2> QED
      BY <1>0, <1>4, <2>1, RecordedStays, SMT DEF IInv, rowVars, ledgerVars
  <1> QED
    BY <1>0, <1>1, <1>2, <1>3, <1>4, <1>5, <1>6, <1>7, RunKeeps, SMT DEF Active

-----------------------------------------------------------------------------
(* A row is written.                                                       *)

(* Frame of a row write: the other rows say what they said.                *)
LEMMA OtherRows ==
  ASSUME IInv, NEW j \in Jobs, \A i \in Jobs \ {j} : row'[i] = row[i],
         UNCHANGED <<enq, sent, ledger, starts>>
  PROVE  \A i \in Jobs \ {j} : Recorded(i)'
  <1> SUFFICES ASSUME NEW i \in Jobs \ {j} PROVE Recorded(i)'
    OBVIOUS
  <1>1. LedgerMoves
    BY DEF LedgerMoves
  <1> QED
    BY <1>1, RecordedStays, Zenon DEF IInv

(* The claim takes the row from queued to running: nobody had it before.   *)
LEMMA ClaimKeeps ==
  ASSUME IInv, NEW r \in Runs, Claim(r)
  PROVE  IInv'
  <1> DEFINE j == Spend(r)
  <1>0. /\ run \in [Runs -> Execs] /\ row \in [Jobs -> Rows] /\ run[r].pc = "claim"
        /\ r \notin Calls /\ j \in Jobs /\ Placed(r) /\ Recorded(j)
        /\ UNCHANGED <<enq, sent, ledgerVars, sweep, history>>
    BY RunSpend, SMT DEF IInv, Typed, Placed, Claim, At
  <1>1. UNCHANGED <<enq, sent, ledger, opened, agedRows, late, sweep, worked, starts>>
    BY <1>0 DEF ledgerVars, history
  <1>2. "done" \in Places /\ "reserve" \in Places /\ "platform" \in Marks
    BY DEF Places, Marks
  <1>3. LedgerMoves
    BY <1>1 DEF LedgerMoves
  <1>4. \/ Claimed(j) /\ row[j].status = "queued" /\ (Goto(r, "reserve") \/ Throw(r, "platform"))
        \/ UNCHANGED row /\ (Goto(r, "done") \/ Throw(r, "platform"))
    BY Zenon DEF Claim
  <1>5. CASE UNCHANGED row /\ (Goto(r, "done") \/ Throw(r, "platform"))
    <2>1. Moves(r) /\ (run'[r].pc = "done" \/ Thrown(r, "platform"))
      BY <1>0, <1>2, <1>5, GotoRun, ThrowRun, Zenon DEF Moves
    <2>2. Placed(r)'
      BY <1>0, <1>5, <2>1, SMT DEF Placed, Active, Thrown
    <2> QED
      BY <1>0, <1>5, <2>1, <2>2, QuietRun, SMT DEF Active, Thrown, rowVars
  <1>6. CASE Claimed(j) /\ row[j].status = "queued" /\ (Goto(r, "reserve") \/ Throw(r, "platform"))
    <2>1. Moves(r) /\ (run'[r].pc = "reserve" \/ Thrown(r, "platform"))
      BY <1>0, <1>2, <1>6, GotoRun, ThrowRun, Zenon DEF Moves
    <2>2. /\ row' \in [Jobs -> Rows] /\ row'[j].status = "running"
          /\ \A i \in Jobs \ {j} : row'[i] = row[i]
      BY <1>0, <1>6, ClaimedRow
    <2>3. RowMoves
      BY <1>6, <2>2, SMT DEF RowMoves, Unclaimed, Says
    <2>4. ASSUME NEW i \in Jobs PROVE Recorded(i)'
      <3>1. CASE i = j
        BY <1>0, <1>1, <1>6, <2>2, <3>1, SMT DEF Recorded, Unclaimed, Says
      <3> QED
        BY <1>0, <1>1, <2>2, <3>1, OtherRows, Zenon
    <2>5. Typed'
      BY <1>1, <2>1, <2>2, Zenon DEF IInv, Typed, Moves
    <2>6. Earned'
      BY <1>1, Zenon DEF IInv, Earned
    <2>7. Placed(r)'
      BY <1>0, <1>1, <1>6, <2>1, <2>2, SMT DEF Placed, Recorded, Active, Unclaimed, Says, Thrown
    <2>8. Unclaimed(Spend(r))
      BY <1>6 DEF Unclaimed
    <2> HIDE DEF j
    <2> QED
      BY <1>1, <1>3, <2>1, <2>3, <2>4, <2>5, <2>6, <2>7, <2>8, RunKeeps, SMT
  <1> QED
    BY <1>4, <1>5, <1>6

(* The outcome is recorded, of a charge that is settled.                   *)
LEMMA CompleteKeeps ==
  ASSUME IInv, NEW r \in Runs, Complete(r)
  PROVE  IInv'
  <1> DEFINE j == Spend(r)
  <1>0. /\ run \in [Runs -> Execs] /\ row \in [Jobs -> Rows] /\ run[r].pc = "complete"
        /\ r \notin Calls /\ j \in Jobs /\ Placed(r) /\ Recorded(j)
        /\ ledger[j] = "committed" /\ ~Unclaimed(j)
        /\ UNCHANGED <<enq, sent, ledgerVars, sweep, history>>
    BY RunSpend, SMT DEF IInv, Typed, Placed, Complete, At, Active
  <1>1. UNCHANGED <<enq, sent, ledger, opened, agedRows, late, sweep, worked, starts>>
    BY <1>0 DEF ledgerVars, history
  <1>2. Moves(r) /\ (run'[r].pc = "done" \/ Thrown(r, "result_lost"))
    <2>1. "done" \in Places /\ "result_lost" \in Marks
      BY DEF Places, Marks
    <2>2. Goto(r, "done") \/ Throw(r, "result_lost")
      BY Zenon DEF Complete
    <2> QED
      BY <1>0, <2>1, <2>2, GotoRun, ThrowRun, Zenon DEF Moves
  <1>3. LedgerMoves
    BY <1>1 DEF LedgerMoves
  <1>4. /\ row' \in [Jobs -> Rows] /\ \A i \in Jobs \ {j} : row'[i] = row[i]
        /\ row'[j].status = "succeeded" \/ row'[j] = row[j]
    <2>1. Completed(j) \/ UNCHANGED row
      BY Zenon DEF Complete
    <2> QED
      BY <1>0, <2>1, CompletedRow
  <1>5. RowMoves
    BY <1>4, SMT DEF RowMoves, Unclaimed, Says
  <1>6. ASSUME NEW i \in Jobs PROVE Recorded(i)'
    <2>1. CASE i = j
      BY <1>0, <1>1, <1>4, <2>1, SMT DEF Recorded, Unclaimed, Says
    <2> QED
      BY <1>0, <1>1, <1>4, <2>1, OtherRows, Zenon
  <1>7. Typed'
    BY <1>1, <1>2, <1>4, Zenon DEF IInv, Typed, Moves
  <1>8. Earned'
    BY <1>1, Zenon DEF IInv, Earned
  <1>9. Placed(r)'
    BY <1>0, <1>1, <1>2, <1>5, SMT DEF Placed, RowMoves, Active, Thrown
  <1> HIDE DEF j
  <1> QED
    BY <1>0, <1>1, <1>2, <1>3, <1>5, <1>6, <1>7, <1>8, <1>9, RunKeeps, SMT DEF Active, Thrown

(* A mark overwrites whatever the row says, with what the run knows.       *)
LEMMA FailMarkKeeps ==
  ASSUME IInv, NEW r \in Runs, FailMark(r)
  PROVE  IInv'
  <1> DEFINE j == Spend(r)  m == run[r].mark
  <1>0. /\ run \in [Runs -> Execs] /\ row \in [Jobs -> Rows] /\ run[r].pc = "failMark"
        /\ r \notin Calls /\ j \in Jobs /\ Placed(r) /\ Recorded(j)
        /\ UNCHANGED <<enq, sent, ledgerVars, sweep, history>>
    BY RunSpend, SMT DEF IInv, Typed, Placed, FailMark, At
  <1>1. UNCHANGED <<enq, sent, ledger, opened, agedRows, late, sweep, worked, starts>>
    BY <1>0 DEF ledgerVars, history
  <1>2. /\ m \in {"platform", "commit_open", "commit_refunded", "commit_unknown", "result_lost"}
        /\ m = "commit_refunded" => ledger[j] = "released"
        /\ m = "result_lost" => ledger[j] = "committed"
        /\ row[j].status # "absent"
    BY <1>0, SMT DEF Placed
  <1>3. Moves(r) /\ run'[r].pc = "done"
    BY <1>0, GotoRun, "done" \in Places, SMT DEF FailMark, Moves, Places
  <1>4. LedgerMoves
    BY <1>1 DEF LedgerMoves
  <1>5. /\ row' \in [Jobs -> Rows] /\ \A i \in Jobs \ {j} : row'[i] = row[i]
        /\ (row'[j].status = "failed" /\ row'[j].mark = m) \/ row'[j] = row[j]
    <2>1. Failed(j, m) \/ UNCHANGED row
      BY Zenon DEF FailMark
    <2>2. m \in Marks
      BY <1>2, SMT DEF Marks
    <2> HIDE DEF m
    <2> QED
      BY <1>0, <2>1, <2>2, FailedRow
  <1>6. RowMoves
    BY <1>2, <1>5, SMT DEF RowMoves, Unclaimed, Says
  <1>7. ASSUME NEW i \in Jobs PROVE Recorded(i)'
    <2>1. CASE i = j
      <3> HIDE DEF m
      <3> QED
        BY <1>0, <1>1, <1>2, <1>5, <2>1, SMT DEF Recorded, Unclaimed, Says
    <2> QED
      BY <1>0, <1>1, <1>5, <2>1, OtherRows, Zenon
  <1>8. Typed'
    BY <1>1, <1>3, <1>5, Zenon DEF IInv, Typed, Moves
  <1>9. Earned'
    BY <1>1, Zenon DEF IInv, Earned
  <1>10. Placed(r)'
    BY <1>0, <1>2, <1>3, <1>6, SMT DEF Placed, RowMoves, Active
  <1> HIDE DEF j, m
  <1> QED
    BY <1>1, <1>3, <1>4, <1>6, <1>7, <1>8, <1>9, <1>10, RunKeeps, SMT DEF Active

-----------------------------------------------------------------------------
(* Steps no run takes: the enqueuer, time, the reapers.                    *)

(* Frame of a step that no run takes.                                      *)
LEMMA RunsStay ==
  ASSUME IInv, UNCHANGED <<run, history>>, LedgerMoves, RowMoves, Typed', Earned',
         \A j \in Jobs : Recorded(j)', \A p \in Reapers : Found(p)'
  PROVE  IInv'
  <1>1. Alone'
    BY Zenon DEF IInv, Alone
  <1>2. \A r \in Runs : Placed(r)'
    BY PlacedStays, Zenon DEF IInv, history
  <1> QED
    BY <1>1, <1>2 DEF IInv

(* The enqueuer and time change the row of a job at most, and no money.    *)
LEMMA RowStep ==
  ASSUME IInv, NEW j \in Jobs, row' \in [Jobs -> Rows], \A i \in Jobs \ {j} : row'[i] = row[i],
         enq' \in [Jobs -> {"idle", "send", "mark", "done"}], \A i \in Jobs \ {j} : enq'[i] = enq[i],
         sent' \subseteq Jobs, sent' \subseteq sent \cup {j},
         UNCHANGED <<ledgerVars, run, sweep, history>>,
         ~Unclaimed(j) => ~Unclaimed(j)', row[j].status # "absent" => row'[j].status # "absent",
         Recorded(j)'
  PROVE  IInv'
  <1>1. UNCHANGED <<ledger, opened, agedRows, late, run, sweep, worked, starts>>
    BY DEF ledgerVars, history
  <1>2. LedgerMoves
    BY <1>1 DEF LedgerMoves
  <1>3. RowMoves
    BY SMT DEF RowMoves, Unclaimed, Says
  <1>4. Typed' /\ Earned'
    BY <1>1, Zenon DEF IInv, Typed, Earned
  <1>5. ASSUME NEW i \in Jobs PROVE Recorded(i)'
    <2>1. CASE i = j
      BY <2>1
    <2>2. CASE i # j
      BY <1>1, <1>2, <2>2, RecordedStays, SMT DEF IInv
    <2> QED
      BY <2>1, <2>2
  <1>6. \A p \in Reapers : Found(p)'
    BY <1>1, <1>2, FoundStays, Zenon DEF IInv
  <1> QED
    BY <1>2, <1>3, <1>4, <1>5, <1>6, RunsStay

(* The row comes before the message; a send that threw is marked.          *)
LEMMA EnqueueKeeps ==
  ASSUME IInv, NEW j \in Jobs, Enqueue(j)
  PROVE  IInv'
  <1>0. /\ row \in [Jobs -> Rows] /\ enq \in [Jobs -> {"idle", "send", "mark", "done"}]
        /\ sent \subseteq Jobs /\ Recorded(j)
    BY DEF IInv, Typed
  <1>1. CASE InsertRow(j)
    <2>1. /\ row' \in [Jobs -> Rows] /\ row'[j].status = "queued"
          /\ \A i \in Jobs \ {j} : row'[i] = row[i]
      BY <1>0, <1>1, InsertedRow
    <2>2. /\ enq[j] = "idle" /\ enq' = [enq EXCEPT ![j] = "send"] /\ sent' = sent
          /\ UNCHANGED <<ledgerVars, run, sweep, history>>
      BY <1>1 DEF InsertRow
    <2>3. Unclaimed(j) /\ row'[j].status # "absent"
      BY <1>0, <2>1, <2>2, SMT DEF Recorded, Unclaimed
    <2>4. Recorded(j)'
      BY <1>0, <2>1, <2>2, <2>3, SMT DEF Recorded, Unclaimed, Says, ledgerVars, history
    <2> QED
      BY <1>0, <2>1, <2>2, <2>3, <2>4, RowStep, SMT
  <1>2. CASE Send(j)
    <2>1. /\ enq[j] = "send" /\ sent' \subseteq sent \cup {j} /\ row' = row
          /\ enq' = [enq EXCEPT ![j] = "done"] \/ enq' = [enq EXCEPT ![j] = "mark"]
          /\ UNCHANGED <<ledgerVars, run, sweep, history>>
      <3>1. PICK o \in Outcomes :
               /\ sent' = IF Landed(o) THEN sent \cup {j} ELSE sent
               /\ enq' = [enq EXCEPT ![j] = IF o = "ok" THEN "done" ELSE "mark"]
        BY <1>2, Zenon DEF Send
      <3>2. enq' = [enq EXCEPT ![j] = "done"] \/ enq' = [enq EXCEPT ![j] = "mark"]
        BY <3>1, Zenon
      <3> QED
        BY <1>2, <3>1, <3>2, Zenon DEF Send
    <2>2. Recorded(j)' /\ (~Unclaimed(j) => ~Unclaimed(j)')
      BY <1>0, <2>1, SMT DEF Recorded, Unclaimed, Says, ledgerVars, history
    <2> QED
      BY <1>0, <2>1, <2>2, RowStep, SMT
  <1>3. CASE MarkSendFailed(j)
    <2>1. /\ row' \in [Jobs -> Rows] /\ \A i \in Jobs \ {j} : row'[i] = row[i]
          /\ (row'[j].status = "failed" /\ row'[j].mark = "platform") \/ row'[j] = row[j]
      <3>1. Failed(j, "platform") \/ UNCHANGED row
        BY <1>3 DEF MarkSendFailed
      <3> QED
        BY <1>0, <3>1, FailedRow, "platform" \in Marks, SMT DEF Marks
    <2>2. /\ enq[j] = "mark" /\ sent' = sent /\ enq' = [enq EXCEPT ![j] = "done"]
          /\ UNCHANGED <<ledgerVars, run, sweep, history>>
      BY <1>3 DEF MarkSendFailed
    <2>3. row[j].status # "absent" /\ row'[j].status # "absent"
      BY <1>0, <2>1, <2>2, SMT DEF Recorded
    <2>4. Recorded(j)' /\ (~Unclaimed(j) => ~Unclaimed(j)')
      BY <1>0, <2>1, <2>2, <2>3, SMT DEF Recorded, Unclaimed, Says, ledgerVars, history
    <2> QED
      BY <1>0, <2>1, <2>2, <2>3, <2>4, RowStep, SMT
  <1>4. CASE EnqueuerCrash(j)
    <2>1. /\ enq[j] \in {"send", "mark"} /\ sent' = sent /\ row' = row
          /\ enq' = [enq EXCEPT ![j] = "done"]
          /\ UNCHANGED <<ledgerVars, run, sweep, history>>
      BY <1>4 DEF EnqueuerCrash
    <2>2. Recorded(j)' /\ (~Unclaimed(j) => ~Unclaimed(j)')
      BY <1>0, <2>1, SMT DEF Recorded, Unclaimed, Says, ledgerVars, history
    <2> QED
      BY <1>0, <2>1, <2>2, RowStep, SMT
  <1> QED
    BY <1>1, <1>2, <1>3, <1>4 DEF Enqueue

(* Time passes for a row, or for the oldest reserve.                       *)
LEMMA TimeKeeps ==
  ASSUME IInv, Time
  PROVE  IInv'
  <1>1. ASSUME NEW j \in Jobs, AgeRow(j) PROVE IInv'
    <2>0. /\ row \in [Jobs -> Rows] /\ Recorded(j)
          /\ enq \in [Jobs -> {"idle", "send", "mark", "done"}] /\ sent \subseteq Jobs
          /\ UNCHANGED <<enq, sent, ledgerVars, run, sweep, history>>
      BY <1>1 DEF IInv, Typed, AgeRow
    <2>1. /\ row' \in [Jobs -> Rows]
          /\ \A i \in Jobs : row'[i].status = row[i].status /\ row'[i].mark = row[i].mark
      BY <1>1, <2>0, AgedRow
    <2>2. \A i \in Jobs \ {j} : row'[i] = row[i]
      BY <1>1, <2>0, SMT DEF AgeRow
    <2>3. Recorded(j)' /\ (~Unclaimed(j) => ~Unclaimed(j)')
      BY <2>0, <2>1, SMT DEF Recorded, Unclaimed, Says, ledgerVars, history
    <2> QED
      BY <2>0, <2>1, <2>2, <2>3, RowStep, SMT
  <1>2. CASE AgeReserve
    <2>1. /\ UNCHANGED <<row, enq, sent, ledger, opened, late, run, sweep, worked, starts>>
          /\ UNCHANGED history /\ agedRows' = agedRows + 1 /\ agedRows < Len(opened)
      BY <1>2 DEF AgeReserve, rowVars, history
    <2>2. LedgerMoves /\ RowMoves
      BY <2>1, Zenon DEF LedgerMoves, RowMoves, Unclaimed, Says
    <2>3. Typed'
      <3>1. agedRows' \in 0 .. Len(opened')
        BY <2>1, SMT DEF IInv, Typed
      <3> QED
        BY <2>1, <3>1, Zenon DEF IInv, Typed
    <2>4. Earned' /\ \A j \in Jobs : Recorded(j)'
      BY <2>1, Zenon DEF IInv, Earned, Recorded, Unclaimed, Says
    <2>5. \A p \in Reapers : Found(p)'
      BY <2>1, <2>2, FoundStays, Zenon DEF IInv
    <2> QED
      BY <2>1, <2>2, <2>3, <2>4, <2>5, RunsStay
  <1> QED
    BY <1>1, <1>2 DEF Time

-----------------------------------------------------------------------------
(* A reaper's notes.                                                       *)

(* The step is p's: the other reapers keep their notes.                    *)
Steers(p) == sweep' \in [Reapers -> Sweeps] /\ \A q \in Reapers \ {p} : sweep'[q] = sweep[q]

(* A reaper rewrites its own notes.                                        *)
LEMMA NewNotes ==
  ASSUME sweep \in [Reapers -> Sweeps], NEW p \in Reapers, NEW new \in Sweeps,
         sweep' = [sweep EXCEPT ![p] = new]
  PROVE  Steers(p) /\ sweep'[p] = new
  BY DEF Steers

(* It goes on with the job in hand.                                        *)
LEMMA ThenNotes ==
  ASSUME sweep \in [Reapers -> Sweeps], NEW p \in Reapers, NEW pc \in {"release", "kind"}, Then(p, pc)
  PROVE  /\ Steers(p) /\ sweep'[p].pc = pc
         /\ sweep'[p].job = sweep[p].job /\ sweep'[p].jobs = sweep[p].jobs
  <1> DEFINE new == [sweep[p] EXCEPT !.pc = pc]
  <1>1. new \in Sweeps /\ new.pc = pc /\ new.job = sweep[p].job /\ new.jobs = sweep[p].jobs
    BY SMT DEF Sweeps
  <1>2. sweep' = [sweep EXCEPT ![p] = new]
    BY Zenon DEF Then
  <1> HIDE DEF new
  <1> QED
    BY <1>1, <1>2, NewNotes

(* It decides what to say of the job.                                      *)
LEMMA VerdictNotes ==
  ASSUME sweep \in [Reapers -> Sweeps], NEW p \in Reapers, NEW m \in Marks, Verdict(p, m)
  PROVE  /\ Steers(p) /\ sweep'[p].pc = "fail" /\ sweep'[p].mark = m
         /\ sweep'[p].job = sweep[p].job /\ sweep'[p].jobs = sweep[p].jobs
  <1> DEFINE new == [sweep[p] EXCEPT !.pc = "fail", !.mark = m]
  <1>1. /\ new \in Sweeps /\ new.pc = "fail" /\ new.mark = m
        /\ new.job = sweep[p].job /\ new.jobs = sweep[p].jobs
    BY Zenon DEF Sweeps
  <1>2. sweep' = [sweep EXCEPT ![p] = new]
    BY Zenon DEF Verdict
  <1> HIDE DEF new
  <1> QED
    BY <1>1, <1>2, NewNotes

(* It drops the job.                                                       *)
LEMMA NextJobNotes ==
  ASSUME sweep \in [Reapers -> Sweeps], NEW p \in Reapers, NextJob(p)
  PROVE  Steers(p) /\ sweep'[p].pc = "jobs" /\ sweep'[p].jobs = sweep[p].jobs
  <1> DEFINE new == [sweep[p] EXCEPT !.pc = "jobs", !.job = None, !.mark = "none"]
  <1>1. new \in Sweeps /\ new.pc = "jobs" /\ new.jobs = sweep[p].jobs
    BY Zenon DEF Sweeps, Marks
  <1>2. sweep' = [sweep EXCEPT ![p] = new]
    BY Zenon DEF NextJob
  <1> HIDE DEF new
  <1> QED
    BY <1>1, <1>2, NewNotes

(* The orphan lane looks at spends.                                        *)
LEMMA CandidateSpends ==
  ASSUME IInv
  PROVE  Candidates \subseteq Spends
  <1> DEFINE k == IF agedRows < Limit THEN agedRows ELSE Limit
  <1>1. opened \in Seq(Spends) /\ k \in 0 .. Len(opened)
    BY BoundsAssumption, SMT DEF IInv, Typed
  <1> HIDE DEF k
  <1>2. SubSeq(opened, 1, k) \in Seq(Spends)
    BY <1>1, SMT
  <1>3. ToSet(SubSeq(opened, 1, k)) \subseteq Spends
    BY <1>2, SMT DEF ToSet
  <1> QED
    BY <1>3 DEF Candidates, k

(* Frame of a reaper's step.                                               *)
LEMMA SweepKeeps ==
  ASSUME IInv, NEW p \in Reapers, Steers(p), Found(p)', UNCHANGED <<run, history>>,
         LedgerMoves, RowMoves, Typed', Earned', \A j \in Jobs : Recorded(j)'
  PROVE  IInv'
  <1>1. ASSUME NEW q \in Reapers PROVE Found(q)'
    <2>1. CASE q = p
      BY <2>1
    <2>2. CASE q # p
      BY <2>2, FoundStays, Zenon DEF IInv, Steers
    <2> QED
      BY <2>1, <2>2
  <1> QED
    BY <1>1, RunsStay

(* A step that is seen by the reaper alone.                                *)
LEMMA QuietSweep ==
  ASSUME IInv, NEW p \in Reapers, Steers(p), Found(p)',
         UNCHANGED <<rowVars, ledgerVars, run, history>>
  PROVE  IInv'
  <1> USE DEF rowVars, ledgerVars, history
  <1>1. LedgerMoves /\ RowMoves
    BY Zenon DEF LedgerMoves, RowMoves, Unclaimed, Says
  <1>2. Typed' /\ Earned'
    BY Zenon DEF IInv, Typed, Earned, Steers
  <1>3. \A j \in Jobs : Recorded(j)'
    BY Zenon DEF IInv, Recorded, Unclaimed, Says
  <1> QED
    BY <1>1, <1>2, <1>3, SweepKeeps, Zenon

(* Notes that claim nothing: a batch or a job taken up, a sweep over.      *)
Fresh(new) ==
    /\ new.pc \notin {"release", "kind", "fail"}
    /\ new.pc = "find" => new.job \in Jobs

(* A batch or a job is taken up, or the sweep ends.                        *)
LEMMA LanesKeep ==
  ASSUME IInv, NEW p \in Reapers,
         StartSweep(p) \/ PickJob(p) \/ StartOrphans(p) \/ StartQueued(p) \/ EndSweep(p) \/ SweepAborted(p)
  PROVE  IInv'
  <1>0. sweep \in [Reapers -> Sweeps] /\ sweep[p] \in Sweeps /\ UNCHANGED <<rowVars, ledgerVars, run, history>>
    BY DEF IInv, Typed, StartSweep, PickJob, StartOrphans, StartQueued, EndSweep, SweepAborted
  <1>1. \A status : \A b \in Batches(status) : b \subseteq Jobs
    BY Zenon DEF Batches
  <1>2. NoSweep \in Sweeps /\ NoSweep.pc = "idle"
    BY SMT DEF NoSweep, Sweeps, Marks
  <1>3. PICK new \in Sweeps : sweep' = [sweep EXCEPT ![p] = new] /\ Fresh(new)
    <2>0. \A new \in Sweeps :
             (new.pc \in {"idle", "jobs", "orphans", "queued"} \/ (new.pc = "find" /\ new.job \in Jobs))
                => Fresh(new)
      BY DEF Fresh
    <2>1. CASE StartSweep(p)
      <3>1. PICK b \in Batches("running") : sweep' = [sweep EXCEPT ![p] = [NoSweep EXCEPT !.pc = "jobs", !.jobs = b]]
        BY <2>1, Zenon DEF StartSweep
      <3> DEFINE new == [NoSweep EXCEPT !.pc = "jobs", !.jobs = b]
      <3>2. new \in Sweeps /\ new.pc = "jobs"
        BY <1>1, <1>2, Zenon DEF Sweeps
      <3> HIDE DEF new
      <3> QED
        BY <3>1, <3>2, <2>0 DEF new
    <2>2. CASE PickJob(p)
      <3>1. PICK j \in sweep[p].jobs :
               sweep' = [sweep EXCEPT ![p].pc = "find", ![p].job = j, ![p].jobs = @ \ {j}]
        BY <2>2, Zenon DEF PickJob
      <3> DEFINE new == [sweep[p] EXCEPT !.pc = "find", !.job = j, !.jobs = @ \ {j}]
      <3>4. j \in Jobs /\ sweep[p].jobs \ {j} \subseteq Jobs
        BY <1>0, Zenon DEF Sweeps
      <3>2. new \in Sweeps /\ new.pc = "find" /\ new.job \in Jobs
        BY <1>0, <3>4, Zenon DEF Sweeps
      <3>3. sweep' = [sweep EXCEPT ![p] = new]
        BY <3>1, Zenon
      <3> HIDE DEF new
      <3> QED
        BY <3>2, <3>3, <2>0
    <2>3. CASE StartOrphans(p)
      <3> DEFINE new == [sweep[p] EXCEPT !.pc = "orphans", !.orphans = {x \in Candidates : ledger[x] = "open"}]
      <3>1. new \in Sweeps /\ new.pc = "orphans"
        <4>1. {x \in Candidates : ledger[x] = "open"} \subseteq Spends
          BY CandidateSpends
        <4> QED
          BY <1>0, <4>1, Zenon DEF Sweeps
      <3>2. sweep' = [sweep EXCEPT ![p] = new]
        BY <2>3, Zenon DEF StartOrphans
      <3> HIDE DEF new
      <3> QED
        BY <3>1, <3>2, <2>0
    <2>4. CASE StartQueued(p)
      <3>1. PICK b \in Batches("queued") : sweep' = [sweep EXCEPT ![p].pc = "queued", ![p].jobs = b]
        BY <2>4, Zenon DEF StartQueued
      <3> DEFINE new == [sweep[p] EXCEPT !.pc = "queued", !.jobs = b]
      <3>2. new \in Sweeps /\ new.pc = "queued"
        BY <1>0, <1>1, Zenon DEF Sweeps
      <3>3. sweep' = [sweep EXCEPT ![p] = new]
        BY <3>1, Zenon
      <3> HIDE DEF new
      <3> QED
        BY <3>2, <3>3, <2>0
    <2>5. CASE EndSweep(p) \/ SweepAborted(p)
      BY <1>2, <2>0, <2>5 DEF EndSweep, SweepAborted
    <2> QED
      BY <2>1, <2>2, <2>3, <2>4, <2>5
  <1>4. Steers(p) /\ sweep'[p] = new
    BY <1>0, <1>3, NewNotes
  <1>5. Found(p)'
    BY <1>3, <1>4, SMT DEF Found, Fresh
  <1> QED
    BY <1>0, <1>4, <1>5, QuietSweep

(* A reserve that was found cannot vanish.                                 *)
LEMMA FindReserveKeeps ==
  ASSUME IInv, NEW p \in Reapers, FindReserve(p)
  PROVE  IInv'
  <1>0. /\ sweep \in [Reapers -> Sweeps] /\ sweep[p].job \in Jobs /\ "NO_RESERVE" \in Marks
        /\ UNCHANGED <<rowVars, ledgerVars, run, history>>
    BY SMT DEF IInv, Typed, Found, FindReserve, Sweeping, Marks
  <1>1. /\ Steers(p)
        /\ \/ sweep'[p].pc = "jobs"
           \/ sweep'[p].pc = "fail" /\ sweep'[p].mark = "NO_RESERVE" /\ sweep'[p].job = sweep[p].job
           \/ /\ sweep'[p].pc = "release" /\ sweep'[p].job = sweep[p].job
              /\ ledger[sweep[p].job] # "none"
    BY <1>0, NextJobNotes, VerdictNotes, ThenNotes, SMT DEF FindReserve
  <1>2. Found(p)'
    BY <1>0, <1>1, SMT DEF Found, ledgerVars
  <1> QED
    BY <1>0, <1>1, <1>2, QuietSweep

(* The reserve is settled; which way is read, or assumed a commit.         *)
LEMMA SettlementKindKeeps ==
  ASSUME IInv, NEW p \in Reapers, SettlementKind(p)
  PROVE  IInv'
  <1>0. /\ sweep \in [Reapers -> Sweeps] /\ sweep[p].job \in Jobs
        /\ {"SETTLED", "REFUNDED"} \subseteq Marks
        /\ ledger[sweep[p].job] \in {"committed", "released"}
        /\ UNCHANGED <<rowVars, ledgerVars, run, history>>
    BY SMT DEF IInv, Typed, Found, SettlementKind, Sweeping, Marks
  <1>1. /\ Steers(p) /\ sweep'[p].pc = "fail" /\ sweep'[p].job = sweep[p].job
        /\ \/ sweep'[p].mark = "SETTLED"
           \/ sweep'[p].mark = "REFUNDED" /\ ledger[sweep[p].job] = "released"
    BY <1>0, VerdictNotes, SMT DEF SettlementKind
  <1>2. Found(p)'
    BY <1>0, <1>1, SMT DEF Found, ledgerVars
  <1> QED
    BY <1>0, <1>1, <1>2, QuietSweep

(* The reserve is given back first; only a confirmed release is a verdict. *)
LEMMA ReleaseFoundKeeps ==
  ASSUME IInv, NEW p \in Reapers, ReleaseFound(p)
  PROVE  IInv'
  <1> DEFINE j == sweep[p].job
  <1>0. /\ sweep \in [Reapers -> Sweeps] /\ j \in Jobs /\ j \in Spends /\ "RELEASED" \in Marks
        /\ ledger \in [Spends -> {"none", "open", "committed", "released"}] /\ ledger[j] # "none"
        /\ UNCHANGED <<rowVars, opened, agedRows, late, run, worked, starts>>
        /\ UNCHANGED history
    BY SMT DEF IInv, Typed, Found, ReleaseFound, Sweeping, Marks, Spends, history
  <1>1. /\ Settled(j, "released")
        /\ \/ NextJob(p)
           \/ Verdict(p, "RELEASED") /\ ledger[j] = "open" /\ ledger' = [ledger EXCEPT ![j] = "released"]
           \/ Then(p, "kind") /\ ledger[j] # "open" /\ ledger' = ledger
    <2>1. PICK o \in Outcomes :
            IF Landed(o) /\ ledger[j] = "open"
            THEN /\ ledger' = [ledger EXCEPT ![j] = "released"]
                 /\ IF o = "ok" THEN Verdict(p, "RELEASED") ELSE NextJob(p)
            ELSE /\ UNCHANGED ledger
                 /\ IF o = "ok" THEN Then(p, "kind") ELSE NextJob(p)
      BY Zenon DEF ReleaseFound
    <2>2. o = "ok" => Landed(o)
      BY SMT DEF Landed
    <2> HIDE DEF j
    <2> QED
      BY <2>1, <2>2, Zenon DEF Settled
  <1>2. /\ Steers(p)
        /\ \/ sweep'[p].pc = "jobs"
           \/ /\ sweep'[p].pc = "fail" /\ sweep'[p].mark = "RELEASED" /\ sweep'[p].job = j
              /\ ledger'[j] = "released"
           \/ /\ sweep'[p].pc = "kind" /\ sweep'[p].job = j
              /\ ledger'[j] \in {"committed", "released"}
    <2>1. CASE NextJob(p)
      BY <1>0, <2>1, NextJobNotes
    <2>2. CASE Verdict(p, "RELEASED") /\ ledger' = [ledger EXCEPT ![j] = "released"]
      BY <1>0, <2>2, VerdictNotes, SMT
    <2>3. CASE Then(p, "kind") /\ ledger[j] # "open" /\ ledger' = ledger
      <3>1. Steers(p) /\ sweep'[p].pc = "kind" /\ sweep'[p].job = j
        BY <1>0, <2>3, ThenNotes
      <3> QED
        BY <1>0, <2>3, <3>1, SMT
    <2> QED
      BY <1>1, <2>1, <2>2, <2>3
  <1>3. /\ ledger' \in [Spends -> {"none", "open", "committed", "released"}]
        /\ ToSet(opened') = {y \in Spends : ledger'[y] # "none"}
        /\ LedgerMoves /\ RowMoves /\ \A i \in Jobs : Recorded(i)'
    BY <1>0, <1>1, SettledLedger
  <1>4. Typed'
    BY <1>0, <1>2, <1>3, Zenon DEF IInv, Typed, Steers, rowVars
  <1>5. Earned'
    BY <1>0, <1>1, SMT DEF IInv, Typed, Earned, Settled
  <1>6. Found(p)'
    BY <1>0, <1>2, SMT DEF Found
  <1> QED
    BY <1>0, <1>2, <1>3, <1>4, <1>5, <1>6, SweepKeeps

(* An orphan is released if it is still open.                              *)
LEMMA ReleaseOrphanKeeps ==
  ASSUME IInv, NEW p \in Reapers, ReleaseOrphan(p)
  PROVE  IInv'
  <1>0. /\ sweep \in [Reapers -> Sweeps] /\ sweep[p] \in Sweeps /\ sweep[p].pc = "orphans"
        /\ ledger \in [Spends -> {"none", "open", "committed", "released"}]
        /\ UNCHANGED <<rowVars, opened, agedRows, late, run, worked, starts>>
        /\ UNCHANGED history
    BY DEF IInv, Typed, ReleaseOrphan, Sweeping, history
  <1>1. PICK x \in sweep[p].orphans, o \in Outcomes :
          /\ ledger' = [ledger EXCEPT ![x] = IF Landed(o) /\ @ = "open" THEN "released" ELSE @]
          /\ sweep' = [sweep EXCEPT ![p].orphans = @ \ {x}]
    BY Zenon DEF ReleaseOrphan
  <1>2. x \in Spends /\ sweep[p].orphans \ {x} \subseteq Spends
    BY <1>0, <1>1, Zenon DEF Sweeps
  <1>3. Settled(x, "released")
    <2>1. CASE Landed(o) /\ ledger[x] = "open"
      BY <1>1, <2>1, Zenon DEF Settled
    <2>2. CASE ~(Landed(o) /\ ledger[x] = "open")
      <3>1. ledger' = [ledger EXCEPT ![x] = ledger[x]]
        BY <1>1, <2>2, Zenon
      <3> QED
        BY <1>0, <3>1, Zenon DEF Settled
    <2> QED
      BY <2>1, <2>2
  <1>4. Steers(p) /\ sweep'[p].pc = "orphans"
    <2> DEFINE new == [sweep[p] EXCEPT !.orphans = @ \ {x}]
    <2>1. new \in Sweeps /\ new.pc = "orphans"
      BY <1>0, <1>2, Zenon DEF Sweeps
    <2>2. sweep' = [sweep EXCEPT ![p] = new]
      BY <1>1, Zenon
    <2> HIDE DEF new
    <2> QED
      BY <1>0, <2>1, <2>2, NewNotes
  <1>5. /\ ledger' \in [Spends -> {"none", "open", "committed", "released"}]
        /\ ToSet(opened') = {y \in Spends : ledger'[y] # "none"}
        /\ LedgerMoves /\ RowMoves /\ \A i \in Jobs : Recorded(i)'
    BY <1>0, <1>2, <1>3, SettledLedger
  <1>6. Typed'
    BY <1>0, <1>4, <1>5, Zenon DEF IInv, Typed, Steers, rowVars
  <1>7. Earned'
    BY <1>0, <1>2, <1>3, SMT DEF IInv, Typed, Earned, Settled
  <1>8. Found(p)'
    BY <1>4, SMT DEF Found
  <1> QED
    BY <1>0, <1>4, <1>5, <1>6, <1>7, <1>8, SweepKeeps

(* A reaper writes a row: still running, it had been claimed; still        *)
(* queued, nobody has claimed it and nobody will.                          *)
LEMMA SweptRow ==
  ASSUME IInv, NEW p \in Reapers, Steers(p), Found(p)', NEW j \in Jobs,
         row' \in [Jobs -> Rows], \A i \in Jobs \ {j} : row'[i] = row[i],
         UNCHANGED <<enq, sent, ledgerVars, run, history>>,
         ~Unclaimed(j) => ~Unclaimed(j)', row[j].status # "absent" => row'[j].status # "absent",
         Recorded(j)'
  PROVE  IInv'
  <1>1. UNCHANGED <<ledger, opened, agedRows, late, worked, starts>>
    BY DEF ledgerVars, history
  <1>2. LedgerMoves
    BY <1>1 DEF LedgerMoves
  <1>3. RowMoves
    BY SMT DEF RowMoves, Unclaimed, Says
  <1>4. Typed' /\ Earned'
    BY <1>1, Zenon DEF IInv, Typed, Earned, Steers
  <1>5. \A i \in Jobs : Recorded(i)'
    BY <1>1, OtherRows, Zenon
  <1> QED
    BY <1>2, <1>3, <1>4, <1>5, SweepKeeps

(* The verdict is written on a row that still runs.                        *)
LEMMA FailStuckKeeps ==
  ASSUME IInv, NEW p \in Reapers, FailStuck(p)
  PROVE  IInv'
  <1>a. sweep[p].job \in Jobs
    BY SMT DEF IInv, Found, FailStuck, Sweeping
  <1>b. PICK j \in Jobs, m \in {sweep[p].mark} : j = sweep[p].job /\ m = sweep[p].mark
    BY <1>a
  <1>0. /\ sweep \in [Reapers -> Sweeps] /\ row \in [Jobs -> Rows] /\ Recorded(j)
        /\ m \in {"RELEASED", "SETTLED", "REFUNDED", "NO_RESERVE"}
        /\ m \in {"RELEASED", "REFUNDED"} => ledger[j] = "released"
        /\ m = "SETTLED" => ledger[j] \in {"committed", "released"}
        /\ UNCHANGED <<enq, sent, ledgerVars, run, history>>
    BY <1>b, SMT DEF IInv, Typed, Found, FailStuck, Sweeping
  <1>1. Steers(p) /\ sweep'[p].pc = "jobs"
    BY <1>0, NextJobNotes DEF FailStuck
  <1>2. Found(p)'
    BY <1>1, SMT DEF Found
  <1>3. /\ row' \in [Jobs -> Rows] /\ \A i \in Jobs \ {j} : row'[i] = row[i]
        /\ \/ row[j].status = "running" /\ row'[j].status = "failed" /\ row'[j].mark = m
           \/ row'[j] = row[j]
    <2>1. (row[j].status = "running" /\ Failed(j, m)) \/ UNCHANGED row
      BY <1>b, Zenon DEF FailStuck
    <2>2. m \in Marks
      BY <1>0, SMT DEF Marks
    <2> QED
      BY <1>0, <2>1, <2>2, FailedRow
  <1>4. /\ ~Unclaimed(j) => ~Unclaimed(j)'
        /\ row[j].status # "absent" => row'[j].status # "absent"
        /\ Recorded(j)'
    <2>1. CASE row'[j] = row[j]
      BY <1>0, <2>1, SMT DEF Recorded, Unclaimed, Says, ledgerVars, history
    <2>2. CASE row[j].status = "running" /\ row'[j].status = "failed" /\ row'[j].mark = m
      <3>1. ~Unclaimed(j) /\ ~Unclaimed(j)'
        BY <1>0, <2>2, SMT DEF Unclaimed, Says
      <3> QED
        BY <1>0, <2>2, <3>1, SMT DEF Recorded, Says, ledgerVars, history
    <2> QED
      BY <1>3, <2>1, <2>2
  <1> QED
    BY <1>0, <1>1, <1>2, <1>3, <1>4, SweptRow, Zenon

(* Nobody has claimed the row; whoever claims it now finds it failed.      *)
LEMMA FailQueuedKeeps ==
  ASSUME IInv, NEW p \in Reapers, FailQueued(p)
  PROVE  IInv'
  <1>0. /\ sweep \in [Reapers -> Sweeps] /\ sweep[p] \in Sweeps /\ sweep[p].pc = "queued"
        /\ row \in [Jobs -> Rows] /\ "NEVER_DELIVERED" \in Marks
        /\ UNCHANGED <<enq, sent, ledgerVars, run, history>>
    BY SMT DEF IInv, Typed, FailQueued, Sweeping, Marks
  <1>1. PICK j \in sweep[p].jobs :
          /\ (row[j].status = "queued" /\ Failed(j, "NEVER_DELIVERED")) \/ UNCHANGED row
          /\ sweep' = [sweep EXCEPT ![p].jobs = @ \ {j}]
    BY Zenon DEF FailQueued
  <1>2. j \in Jobs /\ sweep[p].jobs \ {j} \subseteq Jobs
    BY <1>0, <1>1, Zenon DEF Sweeps
  <1>3. Steers(p) /\ sweep'[p].pc = "queued"
    <2> DEFINE new == [sweep[p] EXCEPT !.jobs = @ \ {j}]
    <2>1. new \in Sweeps /\ new.pc = "queued"
      BY <1>0, <1>2, Zenon DEF Sweeps
    <2>2. sweep' = [sweep EXCEPT ![p] = new]
      BY <1>1, Zenon
    <2> HIDE DEF new
    <2> QED
      BY <1>0, <2>1, <2>2, NewNotes
  <1>4. Found(p)'
    BY <1>3, SMT DEF Found
  <1>5. /\ row' \in [Jobs -> Rows] /\ \A i \in Jobs \ {j} : row'[i] = row[i]
        /\ \/ row[j].status = "queued" /\ row'[j].status = "failed" /\ row'[j].mark = "NEVER_DELIVERED"
           \/ row'[j] = row[j]
    BY <1>0, <1>1, <1>2, FailedRow
  <1>6. /\ ~Unclaimed(j) => ~Unclaimed(j)'
        /\ row[j].status # "absent" => row'[j].status # "absent"
        /\ Recorded(j)'
    <2>1. Recorded(j)
      BY <1>2 DEF IInv
    <2> QED
      BY <1>0, <1>2, <1>5, <2>1, SMT DEF Recorded, Unclaimed, Says, ledgerVars, history
  <1> QED
    BY <1>0, <1>2, <1>3, <1>4, <1>5, <1>6, SweptRow

-----------------------------------------------------------------------------
(* Every step.                                                             *)

(* Every step of a run.                                                    *)
LEMMA ExecuteKeeps ==
  ASSUME IInv, NEW r \in Runs, Execute(r)
  PROVE  IInv'
  <1>1. CASE Deliver(r) \/ StartCall(r) \/ GetJob(r) \/ Claim(r) \/ Reserve(r) \/ SetReserve(r) \/ Work(r)
    BY <1>1, DeliverKeeps, StartCallKeeps, GetJobKeeps, ClaimKeeps, ReserveKeeps, SetReserveKeeps, WorkKeeps
  <1>2. CASE Commit(r) \/ CommitLeftBehind(r) \/ Disposition(r) \/ Release(r)
    BY <1>2, CommitKeeps, CommitLeftBehindKeeps, DispositionKeeps, ReleaseKeeps
  <1>3. CASE Complete(r) \/ FailMark(r) \/ Crash(r)
    BY <1>3, CompleteKeeps, FailMarkKeeps, CrashKeeps
  <1> QED
    BY <1>1, <1>2, <1>3, Zenon DEF Execute

(* Every step of a reaper.                                                 *)
LEMMA SweepStepKeeps ==
  ASSUME IInv, NEW p \in Reapers, Sweep(p) \/ SweepAborted(p)
  PROVE  IInv'
  <1>1. CASE StartSweep(p) \/ PickJob(p) \/ StartOrphans(p) \/ StartQueued(p) \/ EndSweep(p) \/ SweepAborted(p)
    BY <1>1, LanesKeep
  <1>2. CASE FindReserve(p) \/ ReleaseFound(p) \/ SettlementKind(p) \/ FailStuck(p)
    BY <1>2, FindReserveKeeps, ReleaseFoundKeeps, SettlementKindKeeps, FailStuckKeeps
  <1>3. CASE ReleaseOrphan(p) \/ FailQueued(p)
    BY <1>3, ReleaseOrphanKeeps, FailQueuedKeeps
  <1> QED
    BY <1>1, <1>2, <1>3, Zenon DEF Sweep

(* No step.                                                                *)
LEMMA StutterKeeps ==
  ASSUME IInv, UNCHANGED vars
  PROVE  IInv'
  BY Zenon DEF IInv, Typed, Alone, Earned, Placed, Found, Recorded, Unclaimed, Says,
               vars, rowVars, ledgerVars, history

(* The invariant is inductive.                                             *)
LEMMA NextKeeps == IInv /\ [Next]_vars => IInv'
  <1> SUFFICES ASSUME IInv, [Next]_vars PROVE IInv'
    OBVIOUS
  <1>1. ASSUME NEW j \in Jobs, Enqueue(j) PROVE IInv'
    BY <1>1, EnqueueKeeps
  <1>2. ASSUME NEW r \in Runs, Execute(r) PROVE IInv'
    BY <1>2, ExecuteKeeps
  <1>3. ASSUME NEW x \in Spends, LateCommitLands(x) PROVE IInv'
    BY <1>3, LateCommitLandsKeeps
  <1>4. ASSUME NEW p \in Reapers, Sweep(p) \/ SweepAborted(p) PROVE IInv'
    BY <1>4, SweepStepKeeps
  <1>5. CASE Time
    BY <1>5, TimeKeeps
  <1>6. CASE UNCHANGED vars
    BY <1>6, StutterKeeps
  <1> QED
    BY <1>1, <1>2, <1>3, <1>4, <1>5, <1>6, Zenon DEF Next

(* It holds in every reachable state.                                      *)
LEMMA Invariance == Spec => []IInv
  BY InitIInv, NextKeeps, PTL DEF Spec

-----------------------------------------------------------------------------
(* What no step does to a settlement or to a finished job.                 *)

(* A reserve is opened, then settled, and that is the end of it.           *)
LEMMA LedgerStep ==
  ASSUME IInv, [Next]_vars
  PROVE  LedgerMoves
  <1>0. ledger \in [Spends -> {"none", "open", "committed", "released"}]
    BY DEF IInv, Typed
  <1>s. ASSUME NEW x \in Spends, NEW to \in {"committed", "released"}, Settled(x, to)
        PROVE  LedgerMoves
    BY <1>0, <1>s, SMT DEF Settled, LedgerMoves
  <1>u. CASE UNCHANGED ledger
    BY <1>u DEF LedgerMoves
  <1>1. ASSUME NEW j \in Jobs, Enqueue(j) PROVE UNCHANGED ledger
    BY <1>1 DEF Enqueue, InsertRow, Send, MarkSendFailed, EnqueuerCrash, ledgerVars
  <1>2. ASSUME NEW r \in Runs, Execute(r) PROVE LedgerMoves
    <2>0. Spend(r) \in Spends
      BY RunSpend
    <2>1. CASE Commit(r)
      BY <1>0, <1>s, <2>0, <2>1, Zenon DEF Commit, SettleTry, Settled
    <2>2. CASE Release(r)
      BY <1>0, <1>s, <2>0, <2>2, Zenon DEF Release, SettleTry, Settled
    <2>3. CASE Reserve(r)
      <3>1. ledger' = ledger \/ (ledger[Spend(r)] = "none" /\ ledger' = [ledger EXCEPT ![Spend(r)] = "open"])
        BY <2>3, Zenon DEF Reserve
      <3> QED
        BY <1>0, <2>0, <3>1, SMT DEF LedgerMoves
    <2>4. CASE ~(Commit(r) \/ Release(r) \/ Reserve(r))
      BY <1>2, <1>u, <2>4, Zenon DEF Execute, Deliver, StartCall, GetJob, Claim, SetReserve, Work,
           CommitLeftBehind, Disposition, Complete, FailMark, Crash, ledgerVars
    <2> QED
      BY <2>1, <2>2, <2>3, <2>4
  <1>3. ASSUME NEW x \in Spends, LateCommitLands(x) PROVE LedgerMoves
    BY <1>0, <1>3, SMT DEF LateCommitLands, LedgerMoves
  <1>4. ASSUME NEW p \in Reapers, Sweep(p) \/ SweepAborted(p) PROVE LedgerMoves
    <2>1. CASE ReleaseFound(p)
      <3>1. PICK x \in Spends : x = sweep[p].job
        BY <2>1, SMT DEF IInv, Found, ReleaseFound, Sweeping, Spends
      <3>2. Settled(x, "released")
        BY <2>1, <3>1, Zenon DEF ReleaseFound, Settled
      <3> QED
        BY <1>s, <3>2
    <2>2. CASE ReleaseOrphan(p)
      <3>1. PICK x \in Spends, o \in Outcomes :
              ledger' = [ledger EXCEPT ![x] = IF Landed(o) /\ @ = "open" THEN "released" ELSE @]
        BY <2>2, Zenon DEF IInv, Typed, Sweeps, ReleaseOrphan
      <3> QED
        BY <1>0, <3>1, SMT DEF LedgerMoves
    <2>3. CASE ~(ReleaseFound(p) \/ ReleaseOrphan(p))
      BY <1>4, <1>u, <2>3, Zenon DEF Sweep, SweepAborted, StartSweep, PickJob, FindReserve, SettlementKind,
           FailStuck, StartOrphans, StartQueued, FailQueued, EndSweep, ledgerVars
    <2> QED
      BY <2>1, <2>2, <2>3
  <1>5. CASE Time
    BY <1>5, <1>u DEF Time, AgeRow, AgeReserve, ledgerVars
  <1>6. CASE UNCHANGED vars
    BY <1>6, <1>u DEF vars, ledgerVars
  <1> QED
    BY <1>1, <1>2, <1>3, <1>4, <1>5, <1>6, <1>u, Zenon DEF Next

(* The job has its outcome.                                                *)
Ended(j) == row[j].status \in {"succeeded", "failed"}

(* A write of a status starts from a row that has not ended, or ends it.   *)
LEMMA EndedStays ==
  ASSUME IInv, [Next]_vars, NEW j \in Jobs, Ended(j)
  PROVE  Ended(j)'
  <1>0. row \in [Jobs -> Rows] /\ Recorded(j)
    BY DEF IInv, Typed
  <1>u. CASE UNCHANGED row
    BY <1>u DEF Ended
  <1>f. ASSUME NEW i \in Jobs, NEW m, Failed(i, m) PROVE Ended(j)'
    <2>1. CASE i = j
      BY <1>0, <1>f, <2>1, SMT DEF Failed, Ended, Rows
    <2> QED
      BY <1>0, <1>f, <2>1, SMT DEF Failed, Ended
  <1>1. ASSUME NEW i \in Jobs, Enqueue(i) PROVE Ended(j)'
    <2>1. CASE InsertRow(i)
      <3>1. i # j
        BY <1>0, <2>1, SMT DEF InsertRow, Recorded, Ended
      <3> QED
        BY <1>0, <2>1, <3>1, SMT DEF InsertRow, Ended
    <2> QED
      BY <1>1, <1>u, <1>f, <2>1, Zenon DEF Enqueue, Send, MarkSendFailed, EnqueuerCrash
  <1>2. ASSUME NEW r \in Runs, Execute(r) PROVE Ended(j)'
    <2>1. CASE Claim(r)
      <3>1. UNCHANGED row \/ (row[Spend(r)].status = "queued" /\ Claimed(Spend(r)))
        BY <2>1, Zenon DEF Claim
      <3> QED
        BY <1>0, <1>u, <3>1, SMT DEF Claimed, Ended
    <2>2. CASE Complete(r)
      <3>1. UNCHANGED row \/ Completed(Spend(r))
        BY <2>2, Zenon DEF Complete
      <3>2. Spend(r) \in Jobs
        BY <2>2, RunSpend, SMT DEF Complete, At, IInv, Placed
      <3> QED
        BY <1>0, <1>u, <3>1, <3>2, CompletedRow, SMT DEF Ended
    <2>3. CASE FailMark(r)
      <3>1. Spend(r) \in Jobs
        BY <2>3, RunSpend, SMT DEF FailMark, At, IInv, Placed
      <3> QED
        BY <1>u, <1>f, <2>3, <3>1, Zenon DEF FailMark
    <2>4. CASE ~(Claim(r) \/ Complete(r) \/ FailMark(r))
      BY <1>2, <1>u, <2>4, Zenon DEF Execute, Deliver, StartCall, GetJob, Reserve, SetReserve, Work,
           Commit, CommitLeftBehind, Disposition, Release, Crash, rowVars
    <2> QED
      BY <2>1, <2>2, <2>3, <2>4
  <1>3. ASSUME NEW x \in Spends, LateCommitLands(x) PROVE UNCHANGED row
    BY <1>3 DEF LateCommitLands, rowVars
  <1>4. ASSUME NEW p \in Reapers, Sweep(p) \/ SweepAborted(p) PROVE Ended(j)'
    <2>1. CASE FailStuck(p)
      <3>1. sweep[p].job \in Jobs
        BY <2>1, SMT DEF IInv, Found, FailStuck, Sweeping
      <3> QED
        BY <1>u, <1>f, <2>1, <3>1, Zenon DEF FailStuck
    <2>2. CASE FailQueued(p)
      <3>1. sweep[p].jobs \subseteq Jobs
        BY Zenon DEF IInv, Typed, Sweeps
      <3> QED
        BY <1>u, <1>f, <2>2, <3>1, Zenon DEF FailQueued
    <2>3. CASE ~(FailStuck(p) \/ FailQueued(p))
      BY <1>4, <1>u, <2>3, Zenon DEF Sweep, SweepAborted, StartSweep, PickJob, FindReserve, SettlementKind,
           ReleaseFound, StartOrphans, ReleaseOrphan, StartQueued, EndSweep, rowVars
    <2> QED
      BY <2>1, <2>2, <2>3
  <1>5. CASE Time
    <2>1. ASSUME NEW i \in Jobs, AgeRow(i) PROVE Ended(j)'
      BY <1>0, <2>1, AgedRow, SMT DEF Ended
    <2> QED
      BY <1>5, <1>u, <2>1, Zenon DEF Time, AgeReserve, rowVars
  <1>6. CASE UNCHANGED vars
    BY <1>6, <1>u DEF vars, rowVars
  <1> QED
    BY <1>1, <1>2, <1>3, <1>4, <1>5, <1>6, <1>u, Zenon DEF Next

-----------------------------------------------------------------------------
(* What the marks promise, if a commit that failed is out of the way and   *)
(* no run outlasts the reaper's window.                                    *)

(* A job that is over for the runs: it was claimed, and no run of it is    *)
(* past the claim.  None will be, because no write puts the row back.      *)
Over(j) == ~Unclaimed(j) /\ \A r \in Runs : Spend(r) = j => run[r].pc \notin Active

(* What is said, or is about to be said, of a job that is over.            *)
JobTold(j) ==
    /\ row[j].status = "running" /\ row[j].aged => Over(j)
    /\ Says(j, {"commit_open"}) => Over(j) /\ ledger[j] # "committed"
    /\ Says(j, {"NO_RESERVE"})  => Over(j) /\ ledger[j] = "none"

RunTold(r) == run[r].pc = "failMark" /\ run[r].mark = "commit_open"
                 => Over(Spend(r)) /\ ledger[Spend(r)] # "committed"

(* The lane of the running jobs: every job a reaper holds there is over.   *)
Lane == {"jobs", "find", "release", "kind", "fail"}

SweepTold(p) ==
    /\ sweep[p].pc \in Lane => \A j \in sweep[p].jobs : Over(j)
    /\ sweep[p].pc \in Lane \ {"jobs"} => Over(sweep[p].job)
    /\ sweep[p].pc = "fail" /\ sweep[p].mark = "NO_RESERVE" => ledger[sweep[p].job] = "none"

Told ==
    /\ late = {}
    /\ \A j \in Jobs : JobTold(j)
    /\ \A r \in Runs : RunTold(r)
    /\ \A p \in Reapers : SweepTold(p)

(* Nothing has been said.                                                  *)
LEMMA InitTold == Init => Told
  <1> SUFFICES ASSUME Init PROVE Told
    OBVIOUS
  <1>1. \A j \in Jobs : row[j].status = "absent"
    BY DEF Init, NoRow
  <1>2. \A r \in Runs : run[r].pc = "idle"
    BY DEF Init
  <1>3. \A p \in Reapers : sweep[p].pc = "idle"
    BY DEF Init, NoSweep
  <1>4. late = {}
    BY DEF Init
  <1> QED
    BY <1>1, <1>2, <1>3, <1>4, SMT DEF Told, JobTold, RunTold, SweepTold, Says, Lane

-----------------------------------------------------------------------------
(* What one step does, to a row, a run, a reserve, a reaper.               *)

(* How the row of a job is written, and by whom.                           *)
Rewritten(j) ==
    \/ row'[j] = row[j]
    \/ /\ row'[j].status = row[j].status /\ row'[j].mark = row[j].mark
       /\ row[j].status = "running" => ~Live(j)
    \/ row[j].status = "absent" /\ row'[j].status = "queued"
    \/ row[j].status = "queued" /\ row'[j].status = "running" /\ row'[j].aged = FALSE
    \/ ledger[j] = "committed" /\ row'[j].status = "succeeded"
    \/ /\ row'[j].status = "failed"
       /\ \/ row'[j].mark = "platform"
          \/ row[j].status = "queued" /\ row'[j].mark = "NEVER_DELIVERED"
          \/ \E r \in Runs : Spend(r) = j /\ run[r].pc = "failMark" /\ row'[j].mark = run[r].mark
          \/ \E p \in Reapers : /\ sweep[p].pc = "fail" /\ sweep[p].job = j
                                /\ row[j].status = "running" /\ row'[j].mark = sweep[p].mark

(* A run comes past the claim by taking a queued job; it announces an open *)
(* reserve when it has just read that the reserve is open.                 *)
Stepped(r) ==
    /\ run'[r].pc \in Active => run[r].pc \in Active \/ r \in Calls \/ row[Spend(r)].status = "queued"
    /\ run'[r].pc = "failMark" /\ run'[r].mark = "commit_open" =>
          \/ run'[r] = run[r]
          \/ /\ run[r].pc = "disposition" /\ r \notin Calls /\ ledger[Spend(r)] = "open"
             /\ ledger' = ledger /\ \A s \in Runs \ {r} : run'[s] = run[s]

(* But for a refund, the reserve is written by a run past the claim.       *)
Booked(x) ==
    \/ ledger'[x] = ledger[x]
    \/ ledger[x] = "open" /\ ledger'[x] = "released"
    \/ \E r \in Runs : Spend(r) = x /\ run[r].pc \in Active

(* A reaper takes up aged running rows, or goes on with those it has.      *)
Noted(p) ==
    \/ sweep'[p] = sweep[p]
    \/ sweep'[p].pc \notin Lane
    \/ /\ sweep'[p].pc = "jobs"
       /\ \A j \in sweep'[p].jobs : j \in Jobs /\ row[j].status = "running" /\ row[j].aged
    \/ /\ {sweep[p].pc, sweep'[p].pc} \subseteq Lane
       /\ sweep'[p].jobs \subseteq sweep[p].jobs
       /\ sweep'[p].pc # "jobs" =>
             \/ sweep[p].pc # "jobs" /\ sweep'[p].job = sweep[p].job
             \/ sweep'[p].job \in sweep[p].jobs
       /\ sweep'[p].pc = "fail" /\ sweep'[p].mark = "NO_RESERVE" => ledger'[sweep'[p].job] = "none"

(* The row, action by action.                                              *)
LEMMA RowIsRewritten ==
  ASSUME IInv, [Next]_vars, ~StalledRuns, NEW j \in Jobs
  PROVE  Rewritten(j)
  <1>0. row \in [Jobs -> Rows] /\ Recorded(j)
    BY DEF IInv, Typed
  <1>u. CASE UNCHANGED row
    BY <1>u DEF Rewritten
  <1>o. ASSUME NEW i \in Jobs, i # j, \A k \in Jobs \ {i} : row'[k] = row[k] PROVE Rewritten(j)
    BY <1>o, Zenon DEF Rewritten
  <1>1. ASSUME NEW i \in Jobs, Enqueue(i) PROVE Rewritten(j)
    <2>1. CASE InsertRow(i)
      <3>1. row'[i].status = "queued" /\ \A k \in Jobs \ {i} : row'[k] = row[k]
        BY <1>0, <2>1, InsertedRow
      <3>2. CASE i = j
        BY <1>0, <2>1, <3>1, <3>2, Zenon DEF InsertRow, Recorded, Rewritten
      <3> QED
        BY <1>o, <3>1, <3>2
    <2>2. CASE MarkSendFailed(i)
      <3>1. CASE Failed(i, "platform")
        <4>1. /\ row'[i].status = "failed" /\ row'[i].mark = "platform"
              /\ \A k \in Jobs \ {i} : row'[k] = row[k]
          BY <1>0, <3>1, FailedRow, "platform" \in Marks DEF Marks
        <4> QED
          BY <1>o, <4>1, Zenon DEF Rewritten
      <3> QED
        BY <1>u, <2>2, <3>1 DEF MarkSendFailed
    <2> QED
      BY <1>1, <1>u, <2>1, <2>2, Zenon DEF Enqueue, Send, EnqueuerCrash
  <1>2. ASSUME NEW r \in Runs, Execute(r) PROVE Rewritten(j)
    <2>1. CASE Claim(r)
      <3>1. Spend(r) \in Jobs
        BY <2>1, RunSpend, SMT DEF Claim, At, IInv, Placed
      <3>2. CASE row[Spend(r)].status = "queued" /\ Claimed(Spend(r))
        <4>1. /\ row'[Spend(r)].status = "running" /\ row'[Spend(r)].aged = FALSE
              /\ \A k \in Jobs \ {Spend(r)} : row'[k] = row[k]
          BY <1>0, <3>1, <3>2, ClaimedRow
        <4> QED
          BY <1>o, <3>1, <3>2, <4>1, Zenon DEF Rewritten
      <3> QED
        BY <1>u, <2>1, <3>2, Zenon DEF Claim
    <2>2. CASE Complete(r)
      <3>1. Spend(r) \in Jobs /\ ledger[Spend(r)] = "committed"
        BY <2>2, RunSpend, SMT DEF Complete, At, IInv, Placed
      <3>2. CASE Completed(Spend(r))
        <4>1. row'[Spend(r)].status = "succeeded" /\ \A k \in Jobs \ {Spend(r)} : row'[k] = row[k]
          BY <1>0, <3>1, <3>2, CompletedRow
        <4> QED
          BY <1>o, <3>1, <4>1, Zenon DEF Rewritten
      <3> QED
        BY <1>u, <2>2, <3>2, Zenon DEF Complete
    <2>3. CASE FailMark(r)
      <3>1. Spend(r) \in Jobs /\ run[r].pc = "failMark" /\ run[r].mark \in Marks
        BY <2>3, RunSpend, SMT DEF FailMark, At, IInv, Placed, Marks
      <3>2. CASE Failed(Spend(r), run[r].mark)
        <4>1. /\ row'[Spend(r)].status = "failed" /\ row'[Spend(r)].mark = run[r].mark
              /\ \A k \in Jobs \ {Spend(r)} : row'[k] = row[k]
          BY <1>0, <3>1, <3>2, FailedRow
        <4> QED
          BY <1>o, <3>1, <4>1, Zenon DEF Rewritten
      <3> QED
        BY <1>u, <2>3, <3>2, Zenon DEF FailMark
    <2>4. CASE ~(Claim(r) \/ Complete(r) \/ FailMark(r))
      BY <1>2, <1>u, <2>4, Zenon DEF Execute, Deliver, StartCall, GetJob, Reserve, SetReserve, Work,
           Commit, CommitLeftBehind, Disposition, Release, Crash, rowVars
    <2> QED
      BY <2>1, <2>2, <2>3, <2>4
  <1>3. ASSUME NEW x \in Spends, LateCommitLands(x) PROVE UNCHANGED row
    BY <1>3 DEF LateCommitLands, rowVars
  <1>4. ASSUME NEW p \in Reapers, Sweep(p) \/ SweepAborted(p) PROVE Rewritten(j)
    <2>1. CASE FailStuck(p)
      <3>1. sweep[p].job \in Jobs /\ sweep[p].pc = "fail" /\ sweep[p].mark \in Marks
        BY <2>1, SMT DEF IInv, Found, FailStuck, Sweeping, Marks
      <3>2. CASE row[sweep[p].job].status = "running" /\ Failed(sweep[p].job, sweep[p].mark)
        <4>1. /\ row'[sweep[p].job].status = "failed" /\ row'[sweep[p].job].mark = sweep[p].mark
              /\ \A k \in Jobs \ {sweep[p].job} : row'[k] = row[k]
          BY <1>0, <3>1, <3>2, FailedRow
        <4> QED
          BY <1>o, <3>1, <3>2, <4>1, Zenon DEF Rewritten
      <3> QED
        BY <1>u, <2>1, <3>2, Zenon DEF FailStuck
    <2>2. CASE FailQueued(p)
      <3>1. PICK i \in sweep[p].jobs : (row[i].status = "queued" /\ Failed(i, "NEVER_DELIVERED")) \/ UNCHANGED row
        BY <2>2, Zenon DEF FailQueued
      <3>2. i \in Jobs
        BY Zenon DEF IInv, Typed, Sweeps
      <3>3. CASE row[i].status = "queued" /\ Failed(i, "NEVER_DELIVERED")
        <4>1. /\ row'[i].status = "failed" /\ row'[i].mark = "NEVER_DELIVERED"
              /\ \A k \in Jobs \ {i} : row'[k] = row[k]
          BY <1>0, <3>2, <3>3, FailedRow, "NEVER_DELIVERED" \in Marks DEF Marks
        <4> QED
          BY <1>o, <3>2, <3>3, <4>1, Zenon DEF Rewritten
      <3> QED
        BY <1>u, <3>1, <3>3
    <2>3. CASE ~(FailStuck(p) \/ FailQueued(p))
      BY <1>4, <1>u, <2>3, Zenon DEF Sweep, SweepAborted, StartSweep, PickJob, FindReserve, SettlementKind,
           ReleaseFound, StartOrphans, ReleaseOrphan, StartQueued, EndSweep, rowVars
    <2> QED
      BY <2>1, <2>2, <2>3
  <1>5. CASE Time
    <2>1. ASSUME NEW i \in Jobs, AgeRow(i) PROVE Rewritten(j)
      <3>1. /\ \A k \in Jobs : row'[k].status = row[k].status /\ row'[k].mark = row[k].mark
            /\ row[i].status = "running" => ~Live(i)
        BY <1>0, <2>1, AgedRow DEF AgeRow
      <3>2. CASE i # j
        BY <1>0, <2>1, <3>2, SMT DEF AgeRow, Rewritten
      <3> QED
        BY <3>1, <3>2, Zenon DEF Rewritten
    <2> QED
      BY <1>5, <1>u, <2>1, Zenon DEF Time, AgeReserve, rowVars
  <1>6. CASE UNCHANGED vars
    BY <1>6, <1>u DEF vars, rowVars
  <1> QED
    BY <1>1, <1>2, <1>3, <1>4, <1>5, <1>6, <1>u, Zenon DEF Next

(* The runs, action by action.                                             *)
LEMMA RunIsStepped ==
  ASSUME IInv, [Next]_vars, NEW s \in Runs
  PROVE  Stepped(s)
  <1>0. run \in [Runs -> Execs] /\ Placed(s)
    BY DEF IInv, Typed
  <1>u. CASE run'[s] = run[s]
    BY <1>u, Zenon DEF Stepped
  <1>g. ASSUME NEW r \in Runs, NEW pc \in Places \ {"failMark"}, Goto(r, pc),
               pc \in Active => run[r].pc \in Active \/ r \in Calls \/ row[Spend(r)].status = "queued"
        PROVE  Stepped(s)
    <2>1. run'[r].pc = pc /\ \A k \in Runs \ {r} : run'[k] = run[k]
      BY <1>0, <1>g, GotoRun
    <2> QED
      BY <1>u, <1>g, <2>1, Zenon DEF Stepped
  <1>t. ASSUME NEW r \in Runs, NEW m \in Marks \ {"commit_open"}, Throw(r, m)
        PROVE  Stepped(s)
    <2>1. Thrown(r, m) /\ \A k \in Runs \ {r} : run'[k] = run[k]
      BY <1>0, <1>t, ThrowRun
    <2> QED
      BY <1>u, <1>t, <2>1, SMT DEF Stepped, Thrown, Active
  <1>r. ASSUME NEW r \in Runs, run[r].tries + 1 < SettleAttempts, run' = [run EXCEPT ![r].tries = @ + 1],
               run[r].pc # "failMark"
        PROVE  Stepped(s)
    <2>1. run'[r].pc = run[r].pc /\ \A k \in Runs \ {r} : run'[k] = run[k]
      BY <1>0, <1>r, TriesAgain
    <2> QED
      BY <1>u, <1>r, <2>1, Zenon DEF Stepped
  <1>p. /\ {"getJob", "claim", "reserve", "setReserve", "work", "commit", "disposition",
            "release", "complete", "done"} \subseteq Places \ {"failMark"}
        /\ {"platform", "commit_unknown", "commit_refunded", "result_lost"} \subseteq Marks \ {"commit_open"}
    BY DEF Places, Marks
  <1>1. ASSUME NEW j \in Jobs, Enqueue(j) PROVE UNCHANGED run
    BY <1>1 DEF Enqueue, InsertRow, Send, MarkSendFailed, EnqueuerCrash
  <1>2. ASSUME NEW r \in Runs, Execute(r) PROVE Stepped(s)
    <2>1. CASE Deliver(r) \/ Crash(r)
      BY <1>g, <1>p, <2>1, SMT DEF Deliver, Crash, Active
    <2>2. CASE StartCall(r)
      BY <1>g, <1>p, <2>2, SMT DEF StartCall
    <2>3. CASE GetJob(r)
      BY <1>g, <1>t, <1>p, <2>3, SMT DEF GetJob, Active
    <2>4. CASE Claim(r)
      <3>1. \/ row[Spend(r)].status = "queued" /\ Goto(r, "reserve")
            \/ Goto(r, "done") \/ Throw(r, "platform")
        BY <2>4, Zenon DEF Claim
      <3>2. "done" \notin Active
        BY DEF Active
      <3> QED
        BY <1>g, <1>t, <1>p, <3>1, <3>2, Zenon
    <2>5. CASE Reserve(r)
      <3>1. Throw(r, "platform") \/ Goto(r, "work") \/ Goto(r, "setReserve")
        BY <2>5, Zenon DEF Reserve
      <3>2. run[r].pc \in Active
        BY <2>5 DEF Reserve, At, Active
      <3> QED
        BY <1>g, <1>t, <1>p, <3>1, <3>2, Zenon
    <2>6. CASE SetReserve(r) \/ Work(r)
      <3>1. Goto(r, "work") \/ Goto(r, "release") \/ Goto(r, "commit")
        BY <2>6, Zenon DEF SetReserve, Work
      <3>2. run[r].pc \in Active
        BY <2>6 DEF SetReserve, Work, At, Active
      <3> QED
        BY <1>g, <1>p, <3>1, <3>2, Zenon
    <2>7. CASE Commit(r) \/ CommitLeftBehind(r)
      <3>1. Charged(r) \/ Retry(r, Goto(r, "disposition")) \/ Goto(r, "disposition")
        BY <2>7, Zenon DEF Commit, CommitLeftBehind, SettleTry
      <3>2. run[r].pc = "commit" /\ "commit" \in Active
        BY <2>7 DEF Commit, CommitLeftBehind, At, Active
      <3> QED
        BY <1>g, <1>r, <1>p, <3>1, <3>2, Zenon DEF Charged, Retry
    <2>8. CASE Disposition(r)
      <3>1. run[r].pc = "disposition" /\ "disposition" \in Active /\ ledger' = ledger
        BY <2>8 DEF Disposition, At, Active, ledgerVars
      <3>2. CASE ledger[Spend(r)] = "open" /\ Throw(r, "commit_open")
        <4>1. Thrown(r, "commit_open") /\ \A k \in Runs \ {r} : run'[k] = run[k]
          BY <1>0, <3>2, ThrowRun, "commit_open" \in Marks DEF Marks
        <4> QED
          BY <1>u, <3>1, <3>2, <4>1, SMT DEF Stepped, Thrown, Active
      <3>3. CASE Charged(r)
        BY <1>g, <1>p, <3>1, <3>3, Zenon DEF Charged
      <3>4. CASE Throw(r, "commit_unknown") \/ Throw(r, "commit_refunded")
        BY <1>t, <1>p, <3>4, Zenon
      <3> QED
        BY <2>8, <3>2, <3>3, <3>4, Zenon DEF Disposition
    <2>9. CASE Release(r)
      <3>1. Throw(r, "platform") \/ Retry(r, Throw(r, "platform"))
        BY <2>9, Zenon DEF Release, SettleTry
      <3>2. run[r].pc = "release"
        BY <2>9 DEF Release, At
      <3> QED
        BY <1>t, <1>r, <1>p, <3>1, <3>2, Zenon DEF Retry
    <2>10. CASE Complete(r)
      <3>1. "done" \notin Active
        BY DEF Active
      <3> QED
        BY <1>g, <1>t, <1>p, <2>10, <3>1, Zenon DEF Complete
    <2>11. CASE FailMark(r)
      BY <1>g, <1>p, <2>11, SMT DEF FailMark, Active
    <2> QED
      BY <1>2, <2>1, <2>2, <2>3, <2>4, <2>5, <2>6, <2>7, <2>8, <2>9, <2>10, <2>11, Zenon DEF Execute
  <1>3. ASSUME NEW x \in Spends, LateCommitLands(x) PROVE UNCHANGED run
    BY <1>3 DEF LateCommitLands
  <1>4. ASSUME NEW p \in Reapers, Sweep(p) \/ SweepAborted(p) PROVE UNCHANGED run
    BY <1>4, Zenon DEF Sweep, SweepAborted, StartSweep, PickJob, FindReserve, SettlementKind, ReleaseFound,
         FailStuck, StartOrphans, ReleaseOrphan, StartQueued, FailQueued, EndSweep
  <1>5. CASE Time
    BY <1>5, <1>u, Zenon DEF Time, AgeRow, AgeReserve
  <1>6. CASE UNCHANGED vars
    BY <1>6, <1>u DEF vars
  <1> QED
    BY <1>1, <1>2, <1>3, <1>4, <1>5, <1>6, <1>u, Zenon DEF Next

(* The reserves, action by action.                                         *)
LEMMA ReserveIsBooked ==
  ASSUME IInv, [Next]_vars, late = {}, NEW x \in Spends
  PROVE  Booked(x)
  <1>0. ledger \in [Spends -> {"none", "open", "committed", "released"}]
    BY DEF IInv, Typed
  <1>u. CASE UNCHANGED ledger
    BY <1>u DEF Booked
  <1>w. ASSUME NEW y \in Spends, NEW v, ledger' = [ledger EXCEPT ![y] = v],
               \/ \E r \in Runs : Spend(r) = y /\ run[r].pc \in Active
               \/ ledger[y] = "open" /\ v = "released"
        PROVE  Booked(x)
    <2>1. CASE x = y
      BY <1>0, <1>w, <2>1, Zenon DEF Booked
    <2>2. CASE x # y
      BY <1>0, <1>w, <2>2 DEF Booked
    <2> QED
      BY <2>1, <2>2
  <1>1. ASSUME NEW j \in Jobs, Enqueue(j) PROVE UNCHANGED ledger
    BY <1>1 DEF Enqueue, InsertRow, Send, MarkSendFailed, EnqueuerCrash, ledgerVars
  <1>2. ASSUME NEW r \in Runs, Execute(r) PROVE Booked(x)
    <2>1. CASE Reserve(r) \/ Commit(r) \/ Release(r)
      <3>1. Spend(r) \in Spends /\ run[r].pc \in Active
        BY <2>1, RunSpend, SMT DEF Reserve, Commit, Release, At, Active
      <3>2. ledger' = ledger \/ \E v : ledger' = [ledger EXCEPT ![Spend(r)] = v]
        BY <2>1, Zenon DEF Reserve, Commit, Release, SettleTry
      <3> QED
        BY <1>u, <1>w, <3>1, <3>2
    <2>2. CASE ~(Reserve(r) \/ Commit(r) \/ Release(r))
      BY <1>2, <1>u, <2>2, Zenon DEF Execute, Deliver, StartCall, GetJob, Claim, SetReserve, Work,
           CommitLeftBehind, Disposition, Complete, FailMark, Crash, ledgerVars
    <2> QED
      BY <2>1, <2>2
  <1>3. ASSUME NEW y \in Spends, LateCommitLands(y) PROVE FALSE
    BY <1>3 DEF LateCommitLands
  <1>4. ASSUME NEW p \in Reapers, Sweep(p) \/ SweepAborted(p) PROVE Booked(x)
    <2>1. CASE ReleaseFound(p)
      <3>1. sweep[p].job \in Spends
        BY <2>1, SMT DEF IInv, Found, ReleaseFound, Sweeping, Spends
      <3> QED
        BY <1>u, <1>w, <2>1, <3>1, Zenon DEF ReleaseFound
    <2>2. CASE ReleaseOrphan(p)
      <3>1. PICK y \in Spends, o \in Outcomes :
              ledger' = [ledger EXCEPT ![y] = IF Landed(o) /\ @ = "open" THEN "released" ELSE @]
        BY <2>2, Zenon DEF IInv, Typed, Sweeps, ReleaseOrphan
      <3> QED
        BY <1>0, <3>1, SMT DEF Booked
    <2>3. CASE ~(ReleaseFound(p) \/ ReleaseOrphan(p))
      BY <1>4, <1>u, <2>3, Zenon DEF Sweep, SweepAborted, StartSweep, PickJob, FindReserve, SettlementKind,
           FailStuck, StartOrphans, StartQueued, FailQueued, EndSweep, ledgerVars
    <2> QED
      BY <2>1, <2>2, <2>3
  <1>5. CASE Time
    BY <1>5, <1>u DEF Time, AgeRow, AgeReserve, ledgerVars
  <1>6. CASE UNCHANGED vars
    BY <1>6, <1>u DEF vars, ledgerVars
  <1> QED
    BY <1>1, <1>2, <1>3, <1>4, <1>5, <1>6, <1>u, Zenon DEF Next

(* The reapers, action by action.                                          *)
LEMMA SweepIsNoted ==
  ASSUME IInv, [Next]_vars, NEW q \in Reapers
  PROVE  Noted(q)
  <1>0. sweep \in [Reapers -> Sweeps]
    BY DEF IInv, Typed
  <1>u. CASE sweep'[q] = sweep[q]
    BY <1>u, Zenon DEF Noted
  <1>n. ASSUME NEW p \in Reapers, NEW new, sweep' = [sweep EXCEPT ![p] = new], new.pc \notin Lane
        PROVE  Noted(q)
    BY <1>0, <1>u, <1>n, SMT DEF Noted
  <1>s. ASSUME NEW p \in Reapers, sweep[p].pc \in Lane, Steers(p), sweep'[p].jobs \subseteq sweep[p].jobs,
               \/ sweep'[p].pc = "jobs"
               \/ /\ sweep'[p].pc \in Lane /\ sweep[p].pc # "jobs" /\ sweep'[p].job = sweep[p].job
                  /\ sweep'[p].pc = "fail" /\ sweep'[p].mark = "NO_RESERVE" => ledger'[sweep'[p].job] = "none"
        PROVE  Noted(q)
    BY <1>u, <1>s, SMT DEF Noted, Steers, Lane
  <1>v. {"RELEASED", "SETTLED", "REFUNDED"} \subseteq Marks \ {"NO_RESERVE"} /\ "NO_RESERVE" \in Marks
    BY DEF Marks
  <1>1. ASSUME NEW j \in Jobs, Enqueue(j) PROVE UNCHANGED sweep
    BY <1>1 DEF Enqueue, InsertRow, Send, MarkSendFailed, EnqueuerCrash
  <1>2. ASSUME NEW r \in Runs, Execute(r) PROVE UNCHANGED sweep
    BY <1>2, Zenon DEF Execute, Deliver, StartCall, GetJob, Claim, Reserve, SetReserve, Work, Commit,
         CommitLeftBehind, Disposition, Release, Complete, FailMark, Crash
  <1>3. ASSUME NEW x \in Spends, LateCommitLands(x) PROVE UNCHANGED sweep
    BY <1>3 DEF LateCommitLands
  <1>4. ASSUME NEW p \in Reapers, Sweep(p) \/ SweepAborted(p) PROVE Noted(q)
    <2>1. CASE StartSweep(p)
      <3>1. PICK b \in Batches("running") : sweep' = [sweep EXCEPT ![p] = [NoSweep EXCEPT !.pc = "jobs", !.jobs = b]]
        BY <2>1, Zenon DEF StartSweep
      <3>2. \A j \in b : j \in Jobs /\ row[j].status = "running" /\ row[j].aged
        BY <3>1, Zenon DEF Batches
      <3>3. sweep'[p].pc = "jobs" /\ sweep'[p].jobs = b /\ \A k \in Reapers \ {p} : sweep'[k] = sweep[k]
        BY <1>0, <3>1, SMT DEF NoSweep
      <3> QED
        BY <1>u, <3>2, <3>3, Zenon DEF Noted
    <2>2. CASE PickJob(p)
      <3>1. PICK j \in sweep[p].jobs :
               sweep' = [sweep EXCEPT ![p].pc = "find", ![p].job = j, ![p].jobs = @ \ {j}]
        BY <2>2, Zenon DEF PickJob
      <3> DEFINE new == [sweep[p] EXCEPT !.pc = "find", !.job = j, !.jobs = @ \ {j}]
      <3>2. new.pc = "find" /\ new.job = j /\ new.jobs \subseteq sweep[p].jobs
        BY <1>0, Zenon DEF Sweeps
      <3>3. sweep' = [sweep EXCEPT ![p] = new]
        BY <3>1, Zenon
      <3> HIDE DEF new
      <3>4. /\ sweep'[p].pc = "find" /\ sweep'[p].job \in sweep[p].jobs /\ sweep'[p].jobs \subseteq sweep[p].jobs
            /\ sweep[p].pc = "jobs" /\ \A k \in Reapers \ {p} : sweep'[k] = sweep[k]
        BY <1>0, <2>2, <3>1, <3>2, <3>3 DEF PickJob, Sweeping
      <3> QED
        BY <1>u, <3>4, SMT DEF Noted, Lane
    <2>3. CASE FindReserve(p)
      <3>1. sweep[p].pc = "find" /\ ledger' = ledger
        BY <2>3 DEF FindReserve, Sweeping, ledgerVars
      <3>2. CASE NextJob(p)
        BY <1>0, <1>s, <3>1, <3>2, NextJobNotes DEF Lane
      <3>3. CASE ledger[sweep[p].job] = "none" /\ Verdict(p, "NO_RESERVE")
        BY <1>0, <1>s, <1>v, <3>1, <3>3, VerdictNotes DEF Lane
      <3>4. CASE Then(p, "release")
        BY <1>0, <1>s, <3>1, <3>4, ThenNotes DEF Lane
      <3> QED
        BY <2>3, <3>2, <3>3, <3>4, Zenon DEF FindReserve
    <2>4. CASE ReleaseFound(p) \/ SettlementKind(p) \/ FailStuck(p)
      <3>1. sweep[p].pc \in {"release", "kind", "fail"}
        BY <2>4 DEF ReleaseFound, SettlementKind, FailStuck, Sweeping
      <3>2. CASE NextJob(p)
        BY <1>0, <1>s, <3>1, <3>2, NextJobNotes DEF Lane
      <3>3. ASSUME NEW m \in {"RELEASED", "SETTLED", "REFUNDED"}, Verdict(p, m) PROVE Noted(q)
        BY <1>0, <1>s, <1>v, <3>1, <3>3, VerdictNotes DEF Lane
      <3>4. CASE Then(p, "kind")
        BY <1>0, <1>s, <3>1, <3>4, ThenNotes DEF Lane
      <3> QED
        BY <2>4, <3>2, <3>3, <3>4, Zenon DEF ReleaseFound, SettlementKind, FailStuck
    <2>5. CASE StartOrphans(p) \/ StartQueued(p) \/ EndSweep(p) \/ SweepAborted(p)
      <3>1. "orphans" \notin Lane /\ "queued" \notin Lane /\ NoSweep.pc \notin Lane
        BY DEF Lane, NoSweep
      <3>2. PICK new : sweep' = [sweep EXCEPT ![p] = new] /\ new.pc \in {"orphans", "queued", NoSweep.pc}
        <4>1. CASE StartOrphans(p)
          <5> DEFINE new == [sweep[p] EXCEPT !.pc = "orphans", !.orphans = {x \in Candidates : ledger[x] = "open"}]
          <5>1. new.pc = "orphans"
            BY <1>0, Zenon DEF Sweeps
          <5>2. sweep' = [sweep EXCEPT ![p] = new]
            BY <4>1, Zenon DEF StartOrphans
          <5> QED
            BY <5>1, <5>2, Zenon
        <4>2. CASE StartQueued(p)
          <5>1. PICK b \in Batches("queued") : sweep' = [sweep EXCEPT ![p].pc = "queued", ![p].jobs = b]
            BY <4>2, Zenon DEF StartQueued
          <5> DEFINE new == [sweep[p] EXCEPT !.pc = "queued", !.jobs = b]
          <5>2. new.pc = "queued"
            BY <1>0, Zenon DEF Sweeps
          <5>3. sweep' = [sweep EXCEPT ![p] = new]
            BY <5>1, Zenon
          <5> QED
            BY <5>2, <5>3, Zenon
        <4> QED
          BY <2>5, <4>1, <4>2, Zenon DEF EndSweep, SweepAborted
      <3> QED
        BY <1>n, <3>1, <3>2
    <2>6. CASE ReleaseOrphan(p) \/ FailQueued(p)
      <3>1. sweep[p].pc \notin Lane /\ sweep[p] \in Sweeps
        BY <1>0, <2>6 DEF ReleaseOrphan, FailQueued, Sweeping, Lane
      <3>2. PICK new : sweep' = [sweep EXCEPT ![p] = new] /\ new.pc = sweep[p].pc
        <4>1. CASE ReleaseOrphan(p)
          <5>1. PICK x \in sweep[p].orphans : sweep' = [sweep EXCEPT ![p].orphans = @ \ {x}]
            BY <4>1, Zenon DEF ReleaseOrphan
          <5> DEFINE new == [sweep[p] EXCEPT !.orphans = @ \ {x}]
          <5>2. new.pc = sweep[p].pc
            BY <3>1, Zenon DEF Sweeps
          <5>3. sweep' = [sweep EXCEPT ![p] = new]
            BY <5>1, Zenon
          <5> QED
            BY <5>2, <5>3, Zenon
        <4>2. CASE FailQueued(p)
          <5>1. PICK j \in sweep[p].jobs : sweep' = [sweep EXCEPT ![p].jobs = @ \ {j}]
            BY <4>2, Zenon DEF FailQueued
          <5> DEFINE new == [sweep[p] EXCEPT !.jobs = @ \ {j}]
          <5>2. new.pc = sweep[p].pc
            BY <3>1, Zenon DEF Sweeps
          <5>3. sweep' = [sweep EXCEPT ![p] = new]
            BY <5>1, Zenon
          <5> QED
            BY <5>2, <5>3, Zenon
        <4> QED
          BY <2>6, <4>1, <4>2
      <3> QED
        BY <1>n, <3>1, <3>2
    <2> QED
      BY <1>4, <2>1, <2>2, <2>3, <2>4, <2>5, <2>6, Zenon DEF Sweep
  <1>5. CASE Time
    BY <1>5, <1>u, Zenon DEF Time, AgeRow, AgeReserve
  <1>6. CASE UNCHANGED vars
    BY <1>6, <1>u DEF vars
  <1> QED
    BY <1>1, <1>2, <1>3, <1>4, <1>5, <1>6, <1>u, Zenon DEF Next

-----------------------------------------------------------------------------
(* What is told stays true.                                                *)

(* A job that is over stays over; its reserve, if open, is refunded.       *)
LEMMA OverStays ==
  ASSUME IInv, NEW j \in Jobs, Over(j), Rewritten(j), Booked(j), \A r \in Runs : Stepped(r)
  PROVE  Over(j)' /\ (ledger'[j] = ledger[j] \/ (ledger[j] = "open" /\ ledger'[j] = "released"))
  <1>1. ~Unclaimed(j)'
    BY SMT DEF IInv, Placed, Found, Over, Rewritten, Unclaimed, Says
  <1>2. ASSUME NEW r \in Runs, Spend(r) = j PROVE run'[r].pc \notin Active
    <2>1. r \notin Calls
      BY <1>2, RunSpend, SpendsAssumption
    <2> QED
      BY <1>2, <2>1, Zenon DEF Over, Stepped, Unclaimed
  <1>3. ledger'[j] = ledger[j] \/ (ledger[j] = "open" /\ ledger'[j] = "released")
    BY Zenon DEF Over, Booked
  <1> QED
    BY <1>1, <1>2, <1>3 DEF Over

(* The row: aged in place of a run that died, or marked with what its      *)
(* writer knew.                                                            *)
LEMMA JobTellsOn ==
  ASSUME IInv, Told, NEW j \in Jobs, Rewritten(j), Booked(j), \A r \in Runs : Stepped(r)
  PROVE  JobTold(j)'
  <1>0. row \in [Jobs -> Rows] /\ JobTold(j) /\ ledger[j] \in {"none", "open", "committed", "released"}
    BY RunSpend, SMT DEF IInv, Typed, Told, Spends
  <1>o. Over(j) => Over(j)' /\ (ledger'[j] = ledger[j] \/ (ledger[j] = "open" /\ ledger'[j] = "released"))
    BY OverStays
  <1>1. CASE row'[j] = row[j]
    BY <1>0, <1>1, <1>o, SMT DEF JobTold, Says
  <1>2. CASE /\ row'[j].status = row[j].status /\ row'[j].mark = row[j].mark
             /\ row[j].status = "running" => ~Live(j)
    <2>1. row[j].status = "running" => Over(j)
      BY <1>2, SMT DEF Over, Live, At, Unclaimed, Says, Active
    <2> QED
      BY <1>0, <1>2, <1>o, <2>1, SMT DEF JobTold, Says
  <1>3. CASE row'[j].status \in {"queued", "succeeded"} \/ (row'[j].status = "running" /\ row'[j].aged = FALSE)
    BY <1>3, SMT DEF JobTold, Says
  <1>4. CASE row'[j].status = "failed" /\ row'[j].mark \in {"platform", "NEVER_DELIVERED"}
    BY <1>4, SMT DEF JobTold, Says
  <1>5. ASSUME NEW r \in Runs, Spend(r) = j, run[r].pc = "failMark", row'[j].status = "failed",
               row'[j].mark = run[r].mark
        PROVE  JobTold(j)'
    <2>1. run[r].mark # "NO_RESERVE" /\ RunTold(r)
      BY <1>5, SMT DEF IInv, Placed, Told
    <2> QED
      BY <1>5, <1>o, <2>1, SMT DEF JobTold, RunTold, Says
  <1>6. ASSUME NEW p \in Reapers, sweep[p].pc = "fail", sweep[p].job = j, row'[j].status = "failed",
               row'[j].mark = sweep[p].mark
        PROVE  JobTold(j)'
    <2>1. sweep[p].mark # "commit_open" /\ SweepTold(p)
      BY <1>6, SMT DEF IInv, Found, Told
    <2> QED
      BY <1>6, <1>o, <2>1, SMT DEF JobTold, SweepTold, Lane, Says
  <1> QED
    BY <1>1, <1>2, <1>3, <1>4, <1>5, <1>6, Zenon DEF Rewritten

(* The run: it read an open reserve, and no other run of its job is there. *)
LEMMA RunTellsOn ==
  ASSUME IInv, Told, NEW r \in Runs, \A j \in Jobs : Rewritten(j) /\ Booked(j), \A s \in Runs : Stepped(s)
  PROVE  RunTold(r)'
  <1> SUFFICES ASSUME run'[r].pc = "failMark", run'[r].mark = "commit_open"
               PROVE  Over(Spend(r))' /\ ledger'[Spend(r)] # "committed"
    BY DEF RunTold
  <1>1. CASE run'[r] = run[r]
    <2>1. Spend(r) \in Jobs /\ Over(Spend(r)) /\ ledger[Spend(r)] # "committed"
      BY <1>1, RunSpend, SMT DEF IInv, Placed, Told, RunTold
    <2> QED
      BY <2>1, OverStays, SMT
  <1>2. CASE /\ run[r].pc = "disposition" /\ r \notin Calls /\ ledger[Spend(r)] = "open"
             /\ ledger' = ledger /\ \A s \in Runs \ {r} : run'[s] = run[s]
    <2>1. Spend(r) \in Jobs /\ ~Unclaimed(Spend(r))
      BY <1>2, RunSpend, SMT DEF IInv, Placed, Active
    <2>2. ~Unclaimed(Spend(r))'
      BY <2>1, SMT DEF IInv, Placed, Found, Rewritten, Unclaimed, Says
    <2>3. \A s \in Runs : Spend(s) = Spend(r) => run'[s].pc \notin Active
      BY <1>2, SMT DEF IInv, Alone, Active
    <2> QED
      BY <1>2, <2>2, <2>3, SMT DEF Over
  <1> QED
    BY <1>1, <1>2, Zenon DEF Stepped

(* The reaper: what it holds is over, and has no reserve if it found none. *)
LEMMA SweepTellsOn ==
  ASSUME IInv, Told, NEW p \in Reapers, Noted(p),
         \A j \in Jobs : Rewritten(j) /\ Booked(j), \A s \in Runs : Stepped(s)
  PROVE  SweepTold(p)'
  <1>0. SweepTold(p) /\ Found(p) /\ sweep[p].jobs \subseteq Jobs
    BY SMT DEF IInv, Typed, Told, Sweeps
  <1>o. \A j \in Jobs : Over(j) =>
           Over(j)' /\ (ledger'[j] = ledger[j] \/ (ledger[j] = "open" /\ ledger'[j] = "released"))
    BY OverStays
  <1>1. CASE sweep'[p] = sweep[p]
    BY <1>0, <1>1, <1>o, SMT DEF SweepTold, Found, Lane
  <1>2. CASE sweep'[p].pc \notin Lane
    BY <1>2, SMT DEF SweepTold, Lane
  <1>3. CASE /\ sweep'[p].pc = "jobs"
             /\ \A j \in sweep'[p].jobs : j \in Jobs /\ row[j].status = "running" /\ row[j].aged
    BY <1>3, <1>o, SMT DEF SweepTold, Told, JobTold, Lane
  <1>4. CASE /\ {sweep[p].pc, sweep'[p].pc} \subseteq Lane
             /\ sweep'[p].jobs \subseteq sweep[p].jobs
             /\ sweep'[p].pc # "jobs" =>
                   \/ sweep[p].pc # "jobs" /\ sweep'[p].job = sweep[p].job
                   \/ sweep'[p].job \in sweep[p].jobs
             /\ sweep'[p].pc = "fail" /\ sweep'[p].mark = "NO_RESERVE" => ledger'[sweep'[p].job] = "none"
    BY <1>0, <1>4, <1>o, SMT DEF SweepTold, Found, Lane
  <1> QED
    BY <1>1, <1>2, <1>3, <1>4, Zenon DEF Noted

(* Without late commits and stalled runs, what is told stays so.           *)
LEMMA NextTold ==
  ASSUME IInv, Told, [Next]_vars, ~StalledRuns, ~LateCommits
  PROVE  Told'
  <1>0. late = {}
    BY DEF Told
  <1>1. late' = {}
    <2>1. ASSUME NEW r \in Runs, Execute(r) PROVE late' = late
      BY <2>1, Zenon DEF Execute, Deliver, StartCall, GetJob, Claim, Reserve, SetReserve, Work, Commit,
           CommitLeftBehind, Disposition, Release, Complete, FailMark, Crash, ledgerVars
    <2>2. ASSUME NEW j \in Jobs, Enqueue(j) PROVE late' = late
      BY <2>2 DEF Enqueue, InsertRow, Send, MarkSendFailed, EnqueuerCrash, ledgerVars
    <2>3. ASSUME NEW x \in Spends, LateCommitLands(x) PROVE FALSE
      BY <1>0, <2>3 DEF LateCommitLands
    <2>4. ASSUME NEW p \in Reapers, Sweep(p) \/ SweepAborted(p) PROVE late' = late
      BY <2>4, Zenon DEF Sweep, SweepAborted, StartSweep, PickJob, FindReserve, SettlementKind, ReleaseFound,
           FailStuck, StartOrphans, ReleaseOrphan, StartQueued, FailQueued, EndSweep, ledgerVars
    <2>5. CASE Time
      BY <1>0, <2>5, Zenon DEF Time, AgeRow, AgeReserve, ledgerVars
    <2>6. CASE UNCHANGED vars
      BY <1>0, <2>6 DEF vars, ledgerVars
    <2> QED
      BY <1>0, <2>1, <2>2, <2>3, <2>4, <2>5, <2>6, Zenon DEF Next
  <1>2. \A j \in Jobs : Rewritten(j) /\ Booked(j)
    BY <1>0, RowIsRewritten, ReserveIsBooked DEF Spends
  <1>3. \A r \in Runs : Stepped(r)
    BY RunIsStepped
  <1>4. \A j \in Jobs : JobTold(j)'
    BY <1>2, <1>3, JobTellsOn
  <1>5. \A r \in Runs : RunTold(r)'
    BY <1>2, <1>3, RunTellsOn
  <1>6. \A p \in Reapers : SweepTold(p)'
    BY <1>2, <1>3, SweepIsNoted, SweepTellsOn
  <1> QED
    BY <1>1, <1>4, <1>5, <1>6 DEF Told

-----------------------------------------------------------------------------
(* The theorems.                                                           *)

(* Type correctness; and no reserve is opened twice.                       *)
THEOREM TypeCorrect == Spec => []TypeOK
  <1>1. IInv => TypeOK
    BY BoundsAssumption, SMT DEF IInv, Typed, TypeOK, Rows, Places, Execs, Sweeps
  <1> QED
    BY <1>1, Invariance, PTL

(* A credit is kept only for work that was done, and no job is marked      *)
(* succeeded (completeJob) before its reserve is committed.                *)
THEOREM ChargedForWork == Spec => []PaidForWork
  <1>1. IInv => PaidForWork
    BY SMT DEF IInv, Earned, Recorded, PaidForWork
  <1> QED
    BY <1>1, Invariance, PTL

(* What jobs.error says of the money is true, whoever wrote it: the worker *)
(* (failJob), the reaper, or one of them over the other.                   *)
THEOREM MarksAreHonest == Spec => []HonestMarks
  <1>1. IInv => HonestMarks
    BY SMT DEF IInv, Recorded, Unclaimed, Says, HonestMarks
  <1> QED
    BY <1>1, Invariance, PTL

(* Guard, reaper, operator and a late commit race: the first settles.      *)
THEOREM FirstSettlementWins == Spec => SettlementIsFinal
  <1>1. IInv /\ [Next]_vars =>
           [\A x \in Spends : ledger[x] \in {"committed", "released"} => ledger'[x] = ledger[x]]_vars
    BY LedgerStep, SMT DEF LedgerMoves
  <1> QED
    BY <1>1, Invariance, PTL DEF Spec, SettlementIsFinal

(* However often a message is delivered, markJobRunning lets one run in,   *)
(* and what has ended is not started again.                                *)
THEOREM OneRunPerSpend == Spec => RunsOnce
  <1>1. IInv /\ [Next]_vars => /\ \A x \in Spends : starts'[x] <= 1
                              /\ \A j \in Jobs : Ended(j) => Ended(j)'
    <2> SUFFICES ASSUME IInv, [Next]_vars
                 PROVE  /\ \A x \in Spends : starts'[x] <= 1
                        /\ \A j \in Jobs : Ended(j) => Ended(j)'
      OBVIOUS
    <2>1. starts' \in [Spends -> {0, 1}]
      BY NextKeeps, Zenon DEF IInv, Typed
    <2>2. \A x \in Spends : starts'[x] <= 1
      BY <2>1, SMT
    <2> QED
      BY <2>2, EndedStays
  <1>2. IInv /\ [Next]_vars =>
           [/\ \A x \in Spends : starts'[x] <= 1
            /\ \A j \in Jobs : row[j].status \in {"succeeded", "failed"}
                                  => row'[j].status \in {"succeeded", "failed"}]_vars
    BY <1>1 DEF Ended
  <1> QED
    BY <1>2, Invariance, PTL DEF Spec, RunsOnce

(* "The reserve is still open and is refunded" is never followed by a      *)
(* charge, "no open reserve to release" never said of a run that goes on   *)
(* to one (failJob, reconcileStuckJobs): if a commit that failed is out of *)
(* the way, and no run outlasts the reaper's window.                       *)
THEOREM PromisesKept ==
  ASSUME ~StalledRuns, ~LateCommits
  PROVE  Spec => []MarksStayTrue
  <1>1. IInv /\ Told /\ [Next]_vars => Told'
    BY NextTold
  <1>2. Told => MarksStayTrue
    BY DEF Told, JobTold, MarksStayTrue
  <1> QED
    BY <1>1, <1>2, InitTold, Invariance, PTL DEF Spec
=============================================================================
