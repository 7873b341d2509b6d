---------------------------- MODULE CrawlProofs ----------------------------
(***************************************************************************)
(* What a poll of a crawl job sees, what a paid crawl is worth, and that   *)
(* its report is complete, for any site, any limits and any losses and     *)
(* delays of the progress writes.                                          *)
(*                                                                         *)
(* There is one progress write under way at most: a second is not sent     *)
(* before the first is answered, and none after one has failed, whose      *)
(* request may still arrive (InFlight).  The pages only grow, so the write *)
(* under way is never behind what was stored (Shown).                      *)
(*                                                                         *)
(* Of the frontier: the slots of a batch are within the page limit before  *)
(* any is fetched (Limited); a URL that is pending has been claimed once   *)
(* and has led nowhere yet (Claimed); what is neither read, listed nor     *)
(* pending is covered by the count of dropped skips (Counted); and what    *)
(* waits is in the order of its depth and spans two levels (Levelled),     *)
(* which makes the first discovery of a page the shortest.                 *)
(*                                                                         *)
(* The loop's lists are built by folds.  A fold's recursive definition has *)
(* a solution (FoldExists), and what each item passes on to the next holds *)
(* at the end of the list (FoldClimbs); both by a smallest counterexample  *)
(* (Climb).  A lemma of each fold states that of its own step.             *)
(***************************************************************************)
EXTENDS CrawlProperties, SequenceTheorems, FiniteSetTheorems, TLAPS

(* The page records are a sequence, of whatever a site may answer.         *)
PagesSeq == \E S : pages \in Seq(S)

Shapes ==
    /\ job \in [status : {"running", "succeeded", "failed"}, result : Nat \cup {Nil, Delivered}]
    /\ ticker \in [awaited : Nat \cup {Nil}, off : BOOLEAN]
    /\ flight \subseteq Nat

InFlight ==
    /\ \A m, n \in flight : m = n
    /\ ~ticker.off /\ pc \notin {"ended", "dead"} => flight \subseteq {ticker.awaited}

(* What was shown is behind the pages read and the write under way.        *)
Shown ==
    /\ \A n \in flight : n <= Len(pages)
    /\ job.result \in Nat => job.result <= Len(pages) /\ \A n \in flight : job.result <= n

(* A job is ended by the handler's last step, or over its dead body.       *)
EndsOnce ==
    /\ job.status # "running" => pc = "ended"
    /\ job.result = Delivered => job.status # "running"

(* Past the check for an empty crawl there are pages, and past the insert  *)
(* there are rows.                                                         *)
Backed ==
    /\ pc \in {"rows", "complete"} \/ job.status = "succeeded" => pages # <<>>
    /\ pc = "complete" \/ job.status = "succeeded" => project = "gone" \/ rows

(* The inductive invariant.                                                *)
IInv == PagesSeq /\ Shapes /\ InFlight /\ Shown /\ EndsOnce /\ Backed

(* Nothing read, shown or sent.                                            *)
LEMMA InitIInv == Init => IInv
  <1> SUFFICES ASSUME Init PROVE IInv
    OBVIOUS
  <1>1. pages \in Seq({}) /\ Len(pages) = 0
    BY EmptySeq DEF Init
  <1>2. Shapes /\ InFlight /\ Shown
    BY <1>1, CrawlAssumption, SMT DEF Init, Shapes, InFlight, Shown
  <1>3. EndsOnce /\ Backed
    BY CrawlAssumption, SMT DEF Init, EndsOnce, Backed
  <1> QED
    BY <1>1, <1>2, <1>3 DEF IInv, PagesSeq

-----------------------------------------------------------------------------
(* The pages only grow, by one record a slot.                              *)
Grows ==
    /\ PagesSeq' /\ Len(pages) \in Nat /\ Len(pages') \in Nat /\ Len(pages) <= Len(pages')
    /\ pages # <<>> => pages' # <<>>

(* Pages left alone are pages that grow by none.                           *)
LEMMA SamePages == ASSUME PagesSeq, UNCHANGED pages PROVE Grows
  <1>1. PICK S : pages \in Seq(S)
    BY DEF PagesSeq
  <1>2. Len(pages) \in Nat
    BY <1>1, LenProperties
  <1>3. PagesSeq' /\ Len(pages') = Len(pages)
    BY <1>1 DEF PagesSeq
  <1> QED
    BY <1>2, <1>3, SMT DEF Grows

(* A committed slot adds one record to the pages, or none.                 *)
LEMMA CommitGrows == ASSUME PagesSeq, Commit PROVE Grows
  <1>1. CASE UNCHANGED pages
    BY <1>1, SamePages
  <1>2. ASSUME NEW r, pages' = Append(pages, r) PROVE Grows
    <2>1. PICK S : pages \in Seq(S)
      BY DEF PagesSeq
    <2>2. pages \in Seq(S \cup {r}) /\ r \in S \cup {r}
      BY <2>1, SeqMonotonic
    <2>3. /\ pages' \in Seq(S \cup {r}) /\ pages' # <<>> /\ Len(pages') = Len(pages) + 1
          /\ Len(pages) \in Nat
      BY <1>2, <2>2, AppendProperties, LenProperties
    <2>4. PagesSeq'
      BY <2>3 DEF PagesSeq
    <2> QED
      BY <2>3, <2>4, SMT DEF Grows
  <1>3. UNCHANGED pages \/ \E r : pages' = Append(pages, r)
    BY DEF Commit, SkipSlot, SkipRedirect, SkipFinal, OverBudget, ReadPage, SlotSkipped
  <1> QED
    BY <1>1, <1>2, <1>3

(* A step of the frontier loop: a tick, if any, is sent when nothing is    *)
(* under way.                                                              *)
LEMMA LoopKeeps ==
  ASSUME IInv, Grows, pc \in {"robots", "loop", "commit"}, pc' \in {"loop", "commit", "settle"},
         Tick \/ UNCHANGED <<flight, ticker>>, UNCHANGED <<project, job, rows>>
  PROVE  IInv'
  <1> USE CrawlAssumption
  <1>1. CASE UNCHANGED <<flight, ticker>>
    <2>1. Shapes' /\ InFlight' /\ Shown'
      BY <1>1, SMT DEF IInv, Grows, Shapes, InFlight, Shown
    <2>2. EndsOnce' /\ Backed'
      BY SMT DEF IInv, Grows, EndsOnce, Backed
    <2> QED
      BY <2>1, <2>2 DEF IInv, Grows
  <1>2. CASE /\ ticker.awaited = Nil /\ ~ticker.off
             /\ flight' = flight \cup {Len(pages')}
             /\ ticker' = [ticker EXCEPT !.awaited = Len(pages')]
    <2>1. flight = {}
      BY SMT, <1>2 DEF IInv, Shapes, InFlight
    <2>2. flight' = {Len(pages')} /\ ticker'.awaited = Len(pages') /\ Shapes'
      BY <1>2, <2>1, SMT DEF IInv, Grows, Shapes
    <2>3. InFlight' /\ Shown'
      BY <2>2, SMT DEF IInv, Grows, Shapes, InFlight, Shown
    <2>4. EndsOnce' /\ Backed'
      BY SMT DEF IInv, Grows, EndsOnce, Backed
    <2> QED
      BY <2>2, <2>3, <2>4 DEF IInv, Grows
  <1> QED
    BY <1>1, <1>2 DEF Tick

(* A progress write that lands, and one whose call fails.                  *)
LEMMA WriteKeeps ==
  ASSUME IInv, (\E n \in flight : WriteLands(n)) \/ WriteFails PROVE IInv'
  <1> USE CrawlAssumption
  <1>1. Grows
    BY SamePages DEF IInv, WriteLands, WriteFails, crawl
  <1>2. ASSUME NEW n \in flight, WriteLands(n) PROVE IInv'
    <2>1. Shapes'
      BY <1>2, SMT DEF IInv, WriteLands, Shapes
    <2>2. InFlight' /\ Shown'
      BY <1>1, <1>2, SMT DEF IInv, Grows, WriteLands, crawl, Shapes, InFlight, Shown
    <2>3. EndsOnce' /\ Backed'
      BY <1>2, SMT DEF IInv, WriteLands, crawl, Shapes, EndsOnce, Backed
    <2> QED
      BY <1>1, <2>1, <2>2, <2>3 DEF IInv, Grows
  <1>3. CASE WriteFails
    <2>1. Shapes' /\ InFlight' /\ Shown'
      BY <1>1, <1>3, SMT DEF IInv, Grows, WriteFails, crawl, Shapes, InFlight, Shown
    <2>2. EndsOnce' /\ Backed'
      BY <1>3, SMT DEF IInv, WriteFails, crawl, EndsOnce, Backed
    <2> QED
      BY <1>1, <2>1, <2>2 DEF IInv, Grows
  <1> QED
    BY <1>2, <1>3

(* The handler around the loop, the project's fate, a crash and a reaper.  *)
Around ==
    \/ Resolve \/ Settle \/ WriteRows \/ Complete \/ ProjectChanges \/ Crash \/ Reaped

(* None of them sends a progress write.                                    *)
LEMMA AroundKeeps == ASSUME IInv, Around PROVE IInv'
  <1> USE CrawlAssumption DEF Fail
  <1>1. Grows
    BY SamePages DEF IInv, Around, Resolve, Settle, WriteRows, Complete, ProjectChanges, Crash, Reaped, crawl
  <1>2. UNCHANGED pages
    BY DEF Around, Resolve, Settle, WriteRows, Complete, ProjectChanges, Crash, Reaped, crawl
  <1> USE <1>1, <1>2 DEF IInv, Grows, Shapes, Shown, InFlight, EndsOnce, Backed
  <1>3. CASE Resolve
    BY <1>3, SMT DEF Resolve, crawl
  <1>4. CASE Settle
    BY <1>4, SMT DEF Settle, crawl
  <1>5. CASE WriteRows
    <2>0. /\ pc = "rows" /\ UNCHANGED <<flight, ticker>>
          /\ \/ pc' = "complete" /\ UNCHANGED job
             \/ pc' = "ended" /\ job' = [job EXCEPT !.status = "failed"]
      BY <1>5, Zenon DEF WriteRows
    <2>1. Shapes' /\ InFlight' /\ Shown' /\ EndsOnce'
      BY <2>0, SMT
    <2>2. CASE project # "gone" /\ rows' = TRUE /\ pc' = "complete" /\ UNCHANGED job
      <3>1. Backed'
        BY <1>5, <2>2, Zenon DEF WriteRows
      <3> QED
        BY <2>1, <3>1
    <2>3. CASE job' = [job EXCEPT !.status = "failed"] /\ pc' = "ended"
      <3>1. job'.status = "failed"
        BY <2>3, SMT
      <3>2. Backed'
        BY <2>3, <3>1, Zenon
      <3> QED
        BY <2>1, <3>2
    <2> QED
      BY <1>5, <2>2, <2>3 DEF WriteRows
  <1>6. CASE Complete
    BY <1>6, SMT DEF Complete, crawl
  <1>7. CASE ProjectChanges
    <2>0. UNCHANGED <<pc, job, flight, ticker>>
      BY <1>7 DEF ProjectChanges
    <2>1. Shapes' /\ InFlight' /\ Shown' /\ EndsOnce'
      BY <2>0, SMT
    <2>2. Backed'
      BY <1>7, Zenon DEF ProjectChanges
    <2> QED
      BY <2>1, <2>2
  <1>8. CASE Crash
    BY <1>8, SMT DEF Crash, crawl
  <1>9. CASE Reaped
    BY <1>9, SMT DEF Reaped, crawl
  <1> QED
    BY <1>3, <1>4, <1>5, <1>6, <1>7, <1>8, <1>9 DEF Around

-----------------------------------------------------------------------------
(* Every behaviour satisfies the invariant.                                *)
LEMMA Invariance == Spec => []IInv
  <1>1. ASSUME IInv, [Next]_vars PROVE IInv'
    <2> USE <1>1
    <2>1. CASE Unreachable \/ LoadSeeds \/ Drain \/ Exhausted
      <3>1. Grows
        BY <2>1, SamePages DEF IInv, Unreachable, LoadSeeds, Drain, Exhausted, crawl
      <3>2. /\ pc \in {"robots", "loop", "commit"} /\ pc' \in {"loop", "commit", "settle"}
            /\ UNCHANGED <<flight, ticker>> /\ UNCHANGED <<project, job, rows>>
        BY <2>1 DEF Unreachable, LoadSeeds, Drain, Exhausted, outside
      <3> QED
        BY <3>1, <3>2, LoopKeeps
    <2>2. CASE Claim \/ Commit
      <3>1. Grows
        BY <2>2, SamePages, CommitGrows DEF IInv, Claim
      <3>2. /\ pc \in {"robots", "loop", "commit"} /\ pc' \in {"loop", "commit", "settle"}
            /\ Tick \/ UNCHANGED <<flight, ticker>>
            /\ UNCHANGED <<project, job, rows>>
        BY <2>2 DEF Claim, Commit, EndBatch
      <3> QED
        BY <3>1, <3>2, LoopKeeps
    <2>3. CASE (\E n \in flight : WriteLands(n)) \/ WriteFails
      BY <2>3, WriteKeeps
    <2>4. CASE Around
      BY <2>4, AroundKeeps
    <2>5. CASE UNCHANGED vars
      <3>1. Grows
        BY <2>5, SamePages DEF IInv, vars, crawl
      <3> QED
        BY <2>5, <3>1, SMT DEF vars, crawl, outside, IInv, Grows, PagesSeq, Shapes, InFlight, Shown, EndsOnce, Backed
    <2> QED
      BY <2>1, <2>2, <2>3, <2>4, <2>5 DEF Next, Around
  <1> QED
    BY InitIInv, <1>1, PTL DEF Spec

(* A crawl that succeeded, and is charged, has read something, and its     *)
(* rows are there as long as its project is: no failed or lost insert is   *)
(* passed over.                                                            *)
THEOREM PaidIsBacked ==
  Spec => [](job.status = "succeeded" => pages # <<>> /\ (project = "gone" \/ rows))
  <1>1. IInv => (job.status = "succeeded" => pages # <<>> /\ (project = "gone" \/ rows))
    BY DEF IInv, Backed
  <1> QED
    BY Invariance, <1>1, PTL

(* A poll never sees a job go back, however late a progress write arrives: *)
(* the count it shows only grows, and a job that ended stays as it ended.  *)
THEOREM NeverBackwards == Spec => ResultMovesForward
  <1> DEFINE Forward ==
        /\ job.status # "running" => UNCHANGED job
        /\ job.result # Nil /\ job'.result # Delivered => job'.result >= job.result
  <1>1. ASSUME IInv, [Next]_vars PROVE [Forward]_vars
    <2> USE <1>1, CrawlAssumption
    <2>1. CASE UNCHANGED job
      BY <2>1, SMT DEF IInv, Shapes
    <2>2. ASSUME NEW n \in flight, WriteLands(n) PROVE Forward
      BY <2>2, SMT DEF IInv, Shapes, Shown, EndsOnce, WriteLands
    <2>3. CASE Resolve \/ Settle \/ WriteRows \/ Complete \/ Reaped
      <3>1. /\ job.status = "running"
            /\ UNCHANGED job \/ Fail \/ job' = [status |-> "succeeded", result |-> Delivered]
        <4>1. pc # "ended"
          BY <2>3 DEF Resolve, Settle, WriteRows, Complete, Reaped
        <4>2. UNCHANGED job \/ Fail \/ job' = [status |-> "succeeded", result |-> Delivered]
          BY <2>3, Zenon DEF Resolve, Settle, WriteRows, Complete, Reaped
        <4> QED
          BY <4>1, <4>2 DEF IInv, EndsOnce
      <3>2. job'.result \in {job.result, Delivered}
        BY <3>1, SMT DEF IInv, Shapes, Fail
      <3> QED
        BY <3>1, <3>2, SMT DEF IInv, Shapes
    <2>4. CASE Unreachable \/ LoadSeeds \/ Drain \/ Claim \/ Exhausted \/ Commit
              \/ WriteFails \/ ProjectChanges \/ Crash
      <3>1. UNCHANGED job
        BY <2>4 DEF Unreachable, LoadSeeds, Drain, Claim, Exhausted, Commit, WriteFails, ProjectChanges, Crash, outside
      <3> QED
        BY <3>1, <2>1
    <2> QED
      BY <2>1, <2>2, <2>3, <2>4 DEF Next, vars, outside
  <1> QED
    BY Invariance, <1>1, PTL DEF Spec, ResultMovesForward

-----------------------------------------------------------------------------
(* Folds over a list.                                                      *)

(* What holds at 0 and passes from each number to the next holds at N.     *)
LEMMA Climb ==
  ASSUME NEW N \in Nat, NEW T, 0 \in T, \A n \in 1 .. N : n - 1 \in T => n \in T
  PROVE  N \in T
  <1> DEFINE Bad == {n \in 0 .. N : n \notin T}
  <1> SUFFICES ASSUME N \notin T PROVE FALSE
    OBVIOUS
  <1>1. Bad \subseteq Nat /\ Bad # {}
    BY SMT
  <1>2. IsWellFoundedOn(OpToRel(<, Nat), Nat)
    BY NatLessThanWellFounded
  <1>3. PICK n \in Bad : \A m \in Bad : <<m, n>> \notin OpToRel(<, Nat)
    <2> HIDE DEF Bad
    <2> QED
      BY <1>1, <1>2, WFMin
  <1>4. n # 0 /\ n \in 0 .. N /\ n \notin T
    OBVIOUS
  <1>5. n - 1 \in 0 .. N /\ n \in 1 .. N /\ n - 1 < n /\ n - 1 \in Nat /\ n \in Nat
    BY <1>4, SMT
  <1>6. <<n - 1, n>> \in OpToRel(<, Nat)
    BY <1>5 DEF OpToRel
  <1>7. n - 1 \notin Bad
    BY <1>3, <1>6
  <1> QED
    BY <1>4, <1>5, <1>7

(* A set of numbers that is bounded has a largest one.                     *)
LEMMA MaxIsLargest ==
  ASSUME NEW N \in Nat, NEW t \in SUBSET (1 .. N), t # {}
  PROVE  Max(t) \in t /\ \A i \in t : Max(t) >= i
  <1> DEFINE T == {n \in 0 .. N : \A s \in SUBSET (1 .. n) : s # {} => \E m \in s : \A i \in s : m >= i}
  <1>1. 0 \in T
    <2>1. 1 .. 0 = {} /\ 0 \in 0 .. N
      BY SMT
    <2> QED
      BY <2>1
  <1>2. ASSUME NEW n \in 1 .. N, n - 1 \in T PROVE n \in T
    <2> SUFFICES ASSUME NEW s \in SUBSET (1 .. n), s # {} PROVE \E m \in s : \A i \in s : m >= i
      BY SMT
    <2>1. CASE n \in s
      <3>1. \A i \in s : n >= i
        BY SMT
      <3> QED
        BY <2>1, <3>1
    <2>2. CASE n \notin s
      <3>1. s \in SUBSET (1 .. (n - 1))
        BY <2>2, SMT
      <3> QED
        BY <1>2, <3>1
    <2> QED
      BY <2>1, <2>2
  <1> HIDE DEF T
  <1>3. N \in T
    BY <1>1, <1>2, Climb
  <1>4. \E m \in t : \A i \in t : m >= i
    BY <1>3 DEF T
  <1> QED
    BY <1>4, Zenon DEF Max

(* The first n of N numbers, and the largest of them.                      *)
LEMMA MaxOfFirst ==
  ASSUME NEW N \in Nat, NEW n \in 1 .. N
  PROVE  /\ 1 .. n \in SUBSET (1 .. N) /\ 1 .. n # {}
         /\ Max(1 .. n) = n /\ (1 .. n) \ {n} = 1 .. (n - 1)
  <1>1. n \in Nat \ {0}
    BY SMT
  <1>2. 1 .. n \in SUBSET (1 .. N) /\ 1 .. n # {}
    BY SMT
  <1>3. Max(1 .. n) \in 1 .. n /\ \A i \in 1 .. n : Max(1 .. n) >= i
    BY <1>1, <1>2, MaxIsLargest
  <1>4. PICK m \in 1 .. n : m = Max(1 .. n)
    BY <1>3
  <1>5. m >= n
    BY <1>1, <1>3, <1>4, SMT
  <1> QED
    BY <1>1, <1>2, <1>4, <1>5, SMT

(* The equation of a fold over s from base, by a step function.            *)
Folds(step, base, s, D, h) ==
    \A t \in SUBSET D : h[t] = IF t = {} THEN base ELSE step[<<h[t \ {Max(t)}], s[Max(t)]>>]

(* It has a solution.                                                      *)
LEMMA FoldExists ==
  ASSUME NEW A, NEW E, NEW step \in [A \X E -> A], NEW base \in A, NEW s \in Seq(E)
  PROVE  \E h \in [SUBSET DOMAIN s -> A] : Folds(step, base, s, DOMAIN s, h)
  <1> DEFINE T == {n \in 0 .. Len(s) : \E h \in [SUBSET (1 .. n) -> A] : Folds(step, base, s, 1 .. n, h)}
  <1>0. Len(s) \in Nat /\ DOMAIN s = 1 .. Len(s) /\ \A i \in 1 .. Len(s) : s[i] \in E
    OBVIOUS
  <1>1. 0 \in T
    <2> DEFINE h == [t \in SUBSET (1 .. 0) |-> base]
    <2>1. 1 .. 0 = {}
      BY SMT
    <2>2. h \in [SUBSET (1 .. 0) -> A] /\ Folds(step, base, s, 1 .. 0, h)
      BY <2>1 DEF Folds
    <2>3. 0 \in 0 .. Len(s)
      BY <1>0, SMT
    <2> HIDE DEF h
    <2> QED
      BY <2>2, <2>3
  <1>2. ASSUME NEW n \in 1 .. Len(s), n - 1 \in T PROVE n \in T
    <2>1. PICK h \in [SUBSET (1 .. (n - 1)) -> A] : Folds(step, base, s, 1 .. (n - 1), h)
      BY <1>2
    <2> DEFINE g == [t \in SUBSET (1 .. n) |-> IF n \in t THEN step[<<h[t \ {n}], s[n]>>] ELSE h[t]]
    <2>2. \A t \in SUBSET (1 .. n) : t \ {n} \in SUBSET (1 .. (n - 1)) /\ (n \notin t => t \in SUBSET (1 .. (n - 1)))
      BY <1>0, SMT
    <2>3. g \in [SUBSET (1 .. n) -> A]
      BY <1>0, <2>1, <2>2
    <2>4. ASSUME NEW t \in SUBSET (1 .. n)
          PROVE  g[t] = IF t = {} THEN base ELSE step[<<g[t \ {Max(t)}], s[Max(t)]>>]
      <3>1. CASE t = {}
        BY <2>1, <2>2, <3>1 DEF Folds
      <3>2. CASE t # {} /\ n \in t
        <4>1. Max(t) \in t /\ \A i \in t : Max(t) >= i
          <5>1. n \in Nat
            BY <1>0, SMT
          <5> QED
            BY <3>2, <5>1, MaxIsLargest
        <4>2. PICK m \in 1 .. n : m = Max(t)
          BY <4>1
        <4>3. m = n
          BY <3>2, <4>1, <4>2, SMT
        <4>4. g[t \ {n}] = h[t \ {n}]
          BY <2>2
        <4>5. g[t] = step[<<h[t \ {n}], s[n]>>]
          BY <3>2
        <4> HIDE DEF g
        <4> QED
          BY <3>2, <4>2, <4>3, <4>4, <4>5
      <3>3. CASE t # {} /\ n \notin t
        <4>1. Max(t) \in t /\ t \in SUBSET (1 .. (n - 1)) /\ n \notin t \ {Max(t)} /\ t \ {Max(t)} \in SUBSET (1 .. n)
          <5>1. n \in Nat
            BY <1>0, SMT
          <5> QED
            BY <2>2, <3>3, <5>1, MaxIsLargest
        <4>2. g[t] = h[t] /\ g[t \ {Max(t)}] = h[t \ {Max(t)}]
          BY <3>3, <4>1
        <4>3. h[t] = step[<<h[t \ {Max(t)}], s[Max(t)]>>]
          BY <2>1, <3>3, <4>1 DEF Folds
        <4> HIDE DEF g
        <4> QED
          BY <3>3, <4>2, <4>3
      <3> QED
        BY <3>1, <3>2, <3>3
    <2>5. Folds(step, base, s, 1 .. n, g)
      BY <2>4 DEF Folds
    <2>6. n \in 0 .. Len(s)
      BY <1>0, SMT
    <2> HIDE DEF g
    <2> QED
      BY <2>3, <2>5, <2>6
  <1> HIDE DEF T
  <1>3. Len(s) \in T
    BY <1>0, <1>1, <1>2, Climb
  <1> QED
    BY <1>0, <1>3 DEF T

(* Along a fold, what passes from each item to the next holds at the end.  *)
LEMMA FoldClimbs ==
  ASSUME NEW A, NEW E, NEW s \in Seq(E), NEW I, NEW h, h[{}] \in A, <<0, h[{}]>> \in I,
         \A n \in 1 .. Len(s) : h[1 .. (n - 1)] \in A /\ <<n - 1, h[1 .. (n - 1)]>> \in I
                                => h[1 .. n] \in A /\ <<n, h[1 .. n]>> \in I
  PROVE  h[DOMAIN s] \in A /\ <<Len(s), h[DOMAIN s]>> \in I
  <1> DEFINE T == {n \in 0 .. Len(s) : h[1 .. n] \in A /\ <<n, h[1 .. n]>> \in I}
  <1>0. Len(s) \in Nat /\ DOMAIN s = 1 .. Len(s)
    OBVIOUS
  <1>1. 0 \in T
    <2>1. 1 .. 0 = {} /\ 0 \in 0 .. Len(s)
      BY <1>0, SMT
    <2> QED
      BY <2>1
  <1>2. ASSUME NEW n \in 1 .. Len(s), n - 1 \in T PROVE n \in T
    <2>1. n \in 0 .. Len(s)
      BY <1>0, SMT
    <2> QED
      BY <1>2, <2>1
  <1> HIDE DEF T
  <1>3. Len(s) \in T
    BY <1>0, <1>1, <1>2, Climb
  <1> QED
    BY <1>0, <1>3 DEF T

(* The claim phase, item by item.                                          *)
Claims == [room : Nat, visited : SUBSET URLs, batch : Seq(Items), queue : Seq(Items)]

(* A claim keeps the shape of what it works on.                            *)
LEMMA ClaimType == \A a \in Claims, item \in Items : ClaimItem(a, item) \in Claims
  <1> SUFFICES ASSUME NEW a \in Claims, NEW item \in Items PROVE ClaimItem(a, item) \in Claims
    OBVIOUS
  <1>1. Append(a.queue, item) \in Seq(Items) /\ Append(a.batch, item) \in Seq(Items)
    BY AppendProperties DEF Claims
  <1>2. a.room # 0 => a.room - 1 \in Nat
    BY SMT DEF Claims
  <1>3. a.visited \cup {item.url} \in SUBSET URLs
    BY DEF Claims, Items
  <1> QED
    BY <1>1, <1>2, <1>3 DEF Claims, ClaimItem

(* What a claim passes on, the claims of a queue pass on.                  *)
LEMMA ClaimRises ==
  ASSUME NEW base \in Claims, NEW s \in Seq(Items), NEW I, <<0, base>> \in I,
         \A n \in 1 .. Len(s), a \in Claims : <<n - 1, a>> \in I => <<n, ClaimItem(a, s[n])>> \in I
  PROVE  /\ FoldLeft(ClaimItem, base, s) \in Claims
         /\ <<Len(s), FoldLeft(ClaimItem, base, s)>> \in I
  <1> DEFINE step == [p \in Claims \X Items |-> ClaimItem(p[1], p[2])]
             Eq(h) == h = [t \in SUBSET DOMAIN s |->
                             IF t = {} THEN base ELSE ClaimItem(h[t \ {Max(t)}], s[Max(t)])]
  <1>0. Len(s) \in Nat /\ DOMAIN s = 1 .. Len(s) /\ \A i \in 1 .. Len(s) : s[i] \in Items
    OBVIOUS
  <1>1. \A a \in Claims, e \in Items : ClaimItem(a, e) \in Claims
    BY ClaimType
  <1>2. \E h : Eq(h)
    <2>1. PICK h \in [SUBSET DOMAIN s -> Claims] : Folds(step, base, s, DOMAIN s, h)
      <3>1. step \in [Claims \X Items -> Claims]
        BY <1>1
      <3> HIDE DEF step
      <3> QED
        BY <3>1, FoldExists
    <2>2. ASSUME NEW t \in SUBSET DOMAIN s
          PROVE  h[t] = IF t = {} THEN base ELSE ClaimItem(h[t \ {Max(t)}], s[Max(t)])
      <3>1. CASE t # {}
        <4>1. Max(t) \in t
          BY <1>0, <3>1, MaxIsLargest
        <4>2. h[t \ {Max(t)}] \in Claims /\ s[Max(t)] \in Items
          BY <1>0, <4>1
        <4> QED
          BY <2>1, <3>1, <4>2 DEF Folds
      <3> QED
        BY <2>1, <3>1 DEF Folds
    <2> QED
      BY <2>2, Zenon
  <1>3. PICK h : h = (CHOOSE f : Eq(f)) /\ Eq(h)
    BY <1>2, Zenon
  <1>4. FoldLeft(ClaimItem, base, s) = h[DOMAIN s]
    BY <1>3, Zenon DEF FoldLeft, MapThenFoldSet
  <1>5. h[{}] = base
    BY <1>3, Zenon
  <1>6. ASSUME NEW n \in 1 .. Len(s) PROVE h[1 .. n] = ClaimItem(h[1 .. (n - 1)], s[n])
    <2>1. 1 .. n \in SUBSET DOMAIN s /\ 1 .. n # {}
      BY <1>0, MaxOfFirst
    <2>2. Max(1 .. n) = n /\ (1 .. n) \ {n} = 1 .. (n - 1)
      BY <1>0, MaxOfFirst
    <2>3. h[1 .. n] = ClaimItem(h[(1 .. n) \ {Max(1 .. n)}], s[Max(1 .. n)])
      BY <1>3, <2>1, Zenon
    <2> QED
      BY <2>2, <2>3, Zenon
  <1> HIDE DEF Eq, step
  <1>7. h[{}] \in Claims /\ <<0, h[{}]>> \in I
    BY <1>5
  <1>8. ASSUME NEW n \in 1 .. Len(s), h[1 .. (n - 1)] \in Claims, <<n - 1, h[1 .. (n - 1)]>> \in I
        PROVE  h[1 .. n] \in Claims /\ <<n, h[1 .. n]>> \in I
    BY <1>0, <1>1, <1>6, <1>8
  <1>9. h[DOMAIN s] \in Claims /\ <<Len(s), h[DOMAIN s]>> \in I
    BY <1>7, <1>8, FoldClimbs
  <1> QED
    BY <1>4, <1>9

(* The links of a page, one by one.                                        *)
Fronts == [queue : Seq(Items), enqueued : SUBSET URLs, full : BOOLEAN]

(* A link keeps the shape of the frontier.                                 *)
LEMMA EnqueueType ==
  ASSUME NEW depth \in Nat
  PROVE  \A a \in Fronts, link \in URLs : Enqueue(a, link, depth) \in Fronts
  <1> SUFFICES ASSUME NEW a \in Fronts, NEW link \in URLs PROVE Enqueue(a, link, depth) \in Fronts
    OBVIOUS
  <1>1. [url |-> link, depth |-> depth] \in Items
    BY DEF Items
  <1>2. Append(a.queue, [url |-> link, depth |-> depth]) \in Seq(Items)
    BY <1>1, AppendProperties DEF Fronts
  <1>3. a.enqueued \cup {link} \in SUBSET URLs
    BY DEF Fronts
  <1>4. [a EXCEPT !.full = TRUE] \in Fronts
    BY DEF Fronts
  <1> QED
    BY <1>2, <1>3, <1>4 DEF Fronts, Enqueue

(* What a link passes on, the links of a page pass on.                     *)
LEMMA EnqueueRises ==
  ASSUME NEW depth \in Nat, NEW base \in Fronts, NEW s \in Seq(URLs), NEW I, <<0, base>> \in I,
         \A n \in 1 .. Len(s), a \in Fronts : <<n - 1, a>> \in I => <<n, Enqueue(a, s[n], depth)>> \in I
  PROVE  /\ FoldLeft(LAMBDA f, link : Enqueue(f, link, depth), base, s) \in Fronts
         /\ <<Len(s), FoldLeft(LAMBDA f, link : Enqueue(f, link, depth), base, s)>> \in I
  <1> DEFINE step == [p \in Fronts \X URLs |-> Enqueue(p[1], p[2], depth)]
             Eq(h) == h = [t \in SUBSET DOMAIN s |->
                             IF t = {} THEN base ELSE Enqueue(h[t \ {Max(t)}], s[Max(t)], depth)]
  <1>0. Len(s) \in Nat /\ DOMAIN s = 1 .. Len(s) /\ \A i \in 1 .. Len(s) : s[i] \in URLs
    OBVIOUS
  <1>1. \A a \in Fronts, e \in URLs : Enqueue(a, e, depth) \in Fronts
    BY EnqueueType
  <1>2. \E h : Eq(h)
    <2>1. PICK h \in [SUBSET DOMAIN s -> Fronts] : Folds(step, base, s, DOMAIN s, h)
      <3>1. step \in [Fronts \X URLs -> Fronts]
        BY <1>1
      <3> HIDE DEF step
      <3> QED
        BY <3>1, FoldExists
    <2>2. ASSUME NEW t \in SUBSET DOMAIN s
          PROVE  h[t] = IF t = {} THEN base ELSE Enqueue(h[t \ {Max(t)}], s[Max(t)], depth)
      <3>1. CASE t # {}
        <4>1. Max(t) \in t
          BY <1>0, <3>1, MaxIsLargest
        <4>2. h[t \ {Max(t)}] \in Fronts /\ s[Max(t)] \in URLs
          BY <1>0, <4>1
        <4> QED
          BY <2>1, <3>1, <4>2 DEF Folds
      <3> QED
        BY <2>1, <3>1 DEF Folds
    <2> QED
      BY <2>2, Zenon
  <1>3. PICK h : h = (CHOOSE f : Eq(f)) /\ Eq(h)
    BY <1>2, Zenon
  <1>4. FoldLeft(LAMBDA f, link : Enqueue(f, link, depth), base, s) = h[DOMAIN s]
    BY <1>3, Zenon DEF FoldLeft, MapThenFoldSet
  <1>5. h[{}] = base
    BY <1>3, Zenon
  <1>6. ASSUME NEW n \in 1 .. Len(s) PROVE h[1 .. n] = Enqueue(h[1 .. (n - 1)], s[n], depth)
    <2>1. 1 .. n \in SUBSET DOMAIN s /\ 1 .. n # {}
      BY <1>0, MaxOfFirst
    <2>2. Max(1 .. n) = n /\ (1 .. n) \ {n} = 1 .. (n - 1)
      BY <1>0, MaxOfFirst
    <2>3. h[1 .. n] = Enqueue(h[(1 .. n) \ {Max(1 .. n)}], s[Max(1 .. n)], depth)
      BY <1>3, <2>1, Zenon
    <2> QED
      BY <2>2, <2>3, Zenon
  <1> HIDE DEF Eq, step
  <1>7. h[{}] \in Fronts /\ <<0, h[{}]>> \in I
    BY <1>5
  <1>8. ASSUME NEW n \in 1 .. Len(s), h[1 .. (n - 1)] \in Fronts, <<n - 1, h[1 .. (n - 1)]>> \in I
        PROVE  h[1 .. n] \in Fronts /\ <<n, h[1 .. n]>> \in I
    BY <1>0, <1>1, <1>6, <1>8
  <1>9. h[DOMAIN s] \in Fronts /\ <<Len(s), h[DOMAIN s]>> \in I
    BY <1>7, <1>8, FoldClimbs
  <1> QED
    BY <1>4, <1>9

(* Usable URLs of a list of them.                                          *)
Locs == [list : Seq(URLs), seen : SUBSET URLs]

(* A URL of a sitemap keeps the shape of what was read.                    *)
LEMMA ClaimLocType == \A a \in Locs, u \in URLs : ClaimLoc(a, u) \in Locs
  <1> SUFFICES ASSUME NEW a \in Locs, NEW u \in URLs PROVE ClaimLoc(a, u) \in Locs
    OBVIOUS
  <1>1. Append(a.list, u) \in Seq(URLs) /\ a.seen \cup {u} \in SUBSET URLs
    BY AppendProperties DEF Locs
  <1> QED
    BY <1>1 DEF Locs, ClaimLoc

(* The usable URLs of a list are URLs.                                     *)
LEMMA ClaimLocStays ==
  ASSUME NEW base \in Locs, NEW s \in Seq(URLs)
  PROVE  FoldLeft(ClaimLoc, base, s) \in Locs
  <1> DEFINE step == [p \in Locs \X URLs |-> ClaimLoc(p[1], p[2])]
             I == Nat \X Locs
             Eq(h) == h = [t \in SUBSET DOMAIN s |->
                             IF t = {} THEN base ELSE ClaimLoc(h[t \ {Max(t)}], s[Max(t)])]
  <1>0. Len(s) \in Nat /\ DOMAIN s = 1 .. Len(s) /\ \A i \in 1 .. Len(s) : s[i] \in URLs
    OBVIOUS
  <1>1. \A a \in Locs, e \in URLs : ClaimLoc(a, e) \in Locs
    BY ClaimLocType
  <1>2. \E h : Eq(h)
    <2>1. PICK h \in [SUBSET DOMAIN s -> Locs] : Folds(step, base, s, DOMAIN s, h)
      <3>1. step \in [Locs \X URLs -> Locs]
        BY <1>1
      <3> HIDE DEF step
      <3> QED
        BY <3>1, FoldExists
    <2>2. ASSUME NEW t \in SUBSET DOMAIN s
          PROVE  h[t] = IF t = {} THEN base ELSE ClaimLoc(h[t \ {Max(t)}], s[Max(t)])
      <3>1. CASE t # {}
        <4>1. Max(t) \in t
          BY <1>0, <3>1, MaxIsLargest
        <4>2. h[t \ {Max(t)}] \in Locs /\ s[Max(t)] \in URLs
          BY <1>0, <4>1
        <4> QED
          BY <2>1, <3>1, <4>2 DEF Folds
      <3> QED
        BY <2>1, <3>1 DEF Folds
    <2> QED
      BY <2>2, Zenon
  <1>3. PICK h : h = (CHOOSE f : Eq(f)) /\ Eq(h)
    BY <1>2, Zenon
  <1>4. FoldLeft(ClaimLoc, base, s) = h[DOMAIN s]
    BY <1>3, Zenon DEF FoldLeft, MapThenFoldSet
  <1>5. h[{}] = base
    BY <1>3, Zenon
  <1>6. ASSUME NEW n \in 1 .. Len(s) PROVE h[1 .. n] = ClaimLoc(h[1 .. (n - 1)], s[n])
    <2>1. 1 .. n \in SUBSET DOMAIN s /\ 1 .. n # {}
      BY <1>0, MaxOfFirst
    <2>2. Max(1 .. n) = n /\ (1 .. n) \ {n} = 1 .. (n - 1)
      BY <1>0, MaxOfFirst
    <2>3. h[1 .. n] = ClaimLoc(h[(1 .. n) \ {Max(1 .. n)}], s[Max(1 .. n)])
      BY <1>3, <2>1, Zenon
    <2> QED
      BY <2>2, <2>3, Zenon
  <1> HIDE DEF Eq, step
  <1>7. h[{}] \in Locs /\ <<0, h[{}]>> \in I
    BY <1>5
  <1>8. ASSUME NEW n \in 1 .. Len(s), h[1 .. (n - 1)] \in Locs, <<n - 1, h[1 .. (n - 1)]>> \in I
        PROVE  h[1 .. n] \in Locs /\ <<n, h[1 .. n]>> \in I
    <2>1. n \in Nat
      BY <1>0, SMT
    <2> QED
      BY <1>0, <1>1, <1>6, <1>8, <2>1
  <1>9. h[DOMAIN s] \in Locs /\ <<Len(s), h[DOMAIN s]>> \in I
    <2> HIDE DEF I
    <2> QED
      BY <1>7, <1>8, FoldClimbs
  <1> QED
    BY <1>4, <1>9

(* The usable URLs of a list are URLs, and so are those they were checked  *)
(* against.                                                                *)
LEMMA UsableType ==
  ASSUME NEW urls \in Seq(URLs), NEW seen \in SUBSET URLs
  PROVE  Usable(urls, seen) \in Locs
  <1>1. [list |-> <<>>, seen |-> seen] \in Locs
    BY EmptySeq DEF Locs
  <1> QED
    BY <1>1, ClaimLocStays DEF Usable

(* The children of a sitemap.                                              *)
Children == [lists : Seq(Seq(URLs)), seen : SUBSET URLs]

(* A child of the sitemap index adds a list of URLs.                       *)
LEMMA AddChildType == \A a \in Children, child \in Seq(URLs) : AddChild(a, child) \in Children
  <1> SUFFICES ASSUME NEW a \in Children, NEW child \in Seq(URLs) PROVE AddChild(a, child) \in Children
    OBVIOUS
  <1>1. Usable(child, a.seen).list \in Seq(URLs) /\ Usable(child, a.seen).seen \in SUBSET URLs
    BY UsableType DEF Locs, Children
  <1>2. Append(a.lists, Usable(child, a.seen).list) \in Seq(Seq(URLs))
    BY <1>1, AppendProperties DEF Children
  <1> QED
    BY <1>1, <1>2 DEF Children, AddChild

(* What they hold are lists of URLs.                                       *)
LEMMA AddChildStays ==
  ASSUME NEW base \in Children, NEW s \in Seq(Seq(URLs))
  PROVE  FoldLeft(AddChild, base, s) \in Children
  <1> DEFINE step == [p \in Children \X Seq(URLs) |-> AddChild(p[1], p[2])]
             I == Nat \X Children
             Eq(h) == h = [t \in SUBSET DOMAIN s |->
                             IF t = {} THEN base ELSE AddChild(h[t \ {Max(t)}], s[Max(t)])]
  <1>0. Len(s) \in Nat /\ DOMAIN s = 1 .. Len(s) /\ \A i \in 1 .. Len(s) : s[i] \in Seq(URLs)
    OBVIOUS
  <1>1. \A a \in Children, e \in Seq(URLs) : AddChild(a, e) \in Children
    BY AddChildType
  <1>2. \E h : Eq(h)
    <2>1. PICK h \in [SUBSET DOMAIN s -> Children] : Folds(step, base, s, DOMAIN s, h)
      <3>1. step \in [Children \X Seq(URLs) -> Children]
        BY <1>1
      <3> HIDE DEF step
      <3> QED
        BY <3>1, FoldExists
    <2>2. ASSUME NEW t \in SUBSET DOMAIN s
          PROVE  h[t] = IF t = {} THEN base ELSE AddChild(h[t \ {Max(t)}], s[Max(t)])
      <3>1. CASE t # {}
        <4>1. Max(t) \in t
          BY <1>0, <3>1, MaxIsLargest
        <4>2. h[t \ {Max(t)}] \in Children /\ s[Max(t)] \in Seq(URLs)
          BY <1>0, <4>1
        <4> QED
          BY <2>1, <3>1, <4>2 DEF Folds
      <3> QED
        BY <2>1, <3>1 DEF Folds
    <2> QED
      BY <2>2, Zenon
  <1>3. PICK h : h = (CHOOSE f : Eq(f)) /\ Eq(h)
    BY <1>2, Zenon
  <1>4. FoldLeft(AddChild, base, s) = h[DOMAIN s]
    BY <1>3, Zenon DEF FoldLeft, MapThenFoldSet
  <1>5. h[{}] = base
    BY <1>3, Zenon
  <1>6. ASSUME NEW n \in 1 .. Len(s) PROVE h[1 .. n] = AddChild(h[1 .. (n - 1)], s[n])
    <2>1. 1 .. n \in SUBSET DOMAIN s /\ 1 .. n # {}
      BY <1>0, MaxOfFirst
    <2>2. Max(1 .. n) = n /\ (1 .. n) \ {n} = 1 .. (n - 1)
      BY <1>0, MaxOfFirst
    <2>3. h[1 .. n] = AddChild(h[(1 .. n) \ {Max(1 .. n)}], s[Max(1 .. n)])
      BY <1>3, <2>1, Zenon
    <2> QED
      BY <2>2, <2>3, Zenon
  <1> HIDE DEF Eq, step
  <1>7. h[{}] \in Children /\ <<0, h[{}]>> \in I
    BY <1>5
  <1>8. ASSUME NEW n \in 1 .. Len(s), h[1 .. (n - 1)] \in Children, <<n - 1, h[1 .. (n - 1)]>> \in I
        PROVE  h[1 .. n] \in Children /\ <<n, h[1 .. n]>> \in I
    <2>1. n \in Nat
      BY <1>0, SMT
    <2> QED
      BY <1>0, <1>1, <1>6, <1>8, <2>1
  <1>9. h[DOMAIN s] \in Children /\ <<Len(s), h[DOMAIN s]>> \in I
    <2> HIDE DEF I
    <2> QED
      BY <1>7, <1>8, FoldClimbs
  <1> QED
    BY <1>4, <1>9

(* The length of the longest list is a number.                             *)
LEMMA LongestStays ==
  ASSUME NEW base \in Nat, NEW s \in Seq(Seq(URLs))
  PROVE  FoldLeft(LAMBDA n, l : IF Len(l) > n THEN Len(l) ELSE n, base, s) \in Nat
  <1> DEFINE step == [p \in Nat \X Seq(URLs) |-> (IF Len(p[2]) > p[1] THEN Len(p[2]) ELSE p[1])]
             I == Nat \X Nat
             Eq(h) == h = [t \in SUBSET DOMAIN s |->
                             IF t = {} THEN base ELSE
                                       (IF Len(s[Max(t)]) > h[t \ {Max(t)}] THEN Len(s[Max(t)])
                                          ELSE h[t \ {Max(t)}])]
  <1>0. Len(s) \in Nat /\ DOMAIN s = 1 .. Len(s) /\ \A i \in 1 .. Len(s) : s[i] \in Seq(URLs)
    OBVIOUS
  <1>1. \A a \in Nat, e \in Seq(URLs) : (IF Len(e) > a THEN Len(e) ELSE a) \in Nat
    BY LenProperties
  <1>2. \E h : Eq(h)
    <2>1. PICK h \in [SUBSET DOMAIN s -> Nat] : Folds(step, base, s, DOMAIN s, h)
      <3>1. step \in [Nat \X Seq(URLs) -> Nat]
        BY <1>1
      <3> HIDE DEF step
      <3> QED
        BY <3>1, FoldExists
    <2>2. ASSUME NEW t \in SUBSET DOMAIN s
          PROVE  h[t] = IF t = {} THEN base ELSE
                    (IF Len(s[Max(t)]) > h[t \ {Max(t)}] THEN Len(s[Max(t)]) ELSE h[t \ {Max(t)}])
      <3>1. CASE t # {}
        <4>1. Max(t) \in t
          BY <1>0, <3>1, MaxIsLargest
        <4>2. h[t \ {Max(t)}] \in Nat /\ s[Max(t)] \in Seq(URLs)
          BY <1>0, <4>1
        <4> QED
          BY <2>1, <3>1, <4>2 DEF Folds
      <3> QED
        BY <2>1, <3>1 DEF Folds
    <2> QED
      BY <2>2, Zenon
  <1>3. PICK h : h = (CHOOSE f : Eq(f)) /\ Eq(h)
    BY <1>2, Zenon
  <1>4. FoldLeft(LAMBDA n, l : IF Len(l) > n THEN Len(l) ELSE n, base, s) = h[DOMAIN s]
    BY <1>3, Zenon DEF FoldLeft, MapThenFoldSet
  <1>5. h[{}] = base
    BY <1>3, Zenon
  <1>6. ASSUME NEW n \in 1 .. Len(s) PROVE h[1 .. n] =
            (IF Len(s[n]) > h[1 .. (n - 1)] THEN Len(s[n]) ELSE h[1 .. (n - 1)])
    <2>1. 1 .. n \in SUBSET DOMAIN s /\ 1 .. n # {}
      BY <1>0, MaxOfFirst
    <2>2. Max(1 .. n) = n /\ (1 .. n) \ {n} = 1 .. (n - 1)
      BY <1>0, MaxOfFirst
    <2>3. h[1 .. n] =
              (IF Len(s[Max(1 .. n)]) > h[(1 .. n) \ {Max(1 .. n)}] THEN Len(s[Max(1 .. n)])
                 ELSE h[(1 .. n) \ {Max(1 .. n)}])
      BY <1>3, <2>1, Zenon
    <2> QED
      BY <2>2, <2>3, Zenon
  <1> HIDE DEF Eq, step
  <1>7. h[{}] \in Nat /\ <<0, h[{}]>> \in I
    BY <1>5
  <1>8. ASSUME NEW n \in 1 .. Len(s), h[1 .. (n - 1)] \in Nat, <<n - 1, h[1 .. (n - 1)]>> \in I
        PROVE  h[1 .. n] \in Nat /\ <<n, h[1 .. n]>> \in I
    <2>1. n \in Nat
      BY <1>0, SMT
    <2> QED
      BY <1>0, <1>1, <1>6, <1>8, <2>1
  <1>9. h[DOMAIN s] \in Nat /\ <<Len(s), h[DOMAIN s]>> \in I
    <2> HIDE DEF I
    <2> QED
      BY <1>7, <1>8, FoldClimbs
  <1> QED
    BY <1>4, <1>9

(* The i-th URLs of the lists.                                             *)
LEMMA RoundType ==
  ASSUME NEW i \in Nat \ {0}
  PROVE  \A a \in Seq(URLs), l \in Seq(URLs) : (IF i <= Len(l) THEN Append(a, l[i]) ELSE a) \in Seq(URLs)
  <1> SUFFICES ASSUME NEW a \in Seq(URLs), NEW l \in Seq(URLs), i <= Len(l) PROVE Append(a, l[i]) \in Seq(URLs)
    OBVIOUS
  <1>1. i \in 1 .. Len(l)
    BY LenProperties, SMT
  <1> QED
    BY <1>1, ElementOfSeq, AppendProperties

(* They are a list of URLs.                                                *)
LEMMA RoundStays ==
  ASSUME NEW k \in Nat \ {0}, NEW base \in Seq(URLs), NEW s \in Seq(Seq(URLs))
  PROVE  FoldLeft(LAMBDA acc, l : IF k <= Len(l) THEN Append(acc, l[k]) ELSE acc, base, s) \in Seq(URLs)
  <1> DEFINE step == [p \in Seq(URLs) \X Seq(URLs) |-> (IF k <= Len(p[2]) THEN Append(p[1], p[2][k]) ELSE p[1])]
             I == Nat \X Seq(URLs)
             Eq(h) == h = [t \in SUBSET DOMAIN s |->
                             IF t = {} THEN base ELSE
                                       (IF k <= Len(s[Max(t)]) THEN Append(h[t \ {Max(t)}], s[Max(t)][k])
                                          ELSE h[t \ {Max(t)}])]
  <1>0. Len(s) \in Nat /\ DOMAIN s = 1 .. Len(s) /\ \A i \in 1 .. Len(s) : s[i] \in Seq(URLs)
    OBVIOUS
  <1>1. \A a \in Seq(URLs), e \in Seq(URLs) : (IF k <= Len(e) THEN Append(a, e[k]) ELSE a) \in Seq(URLs)
    BY RoundType
  <1>2. \E h : Eq(h)
    <2>1. PICK h \in [SUBSET DOMAIN s -> Seq(URLs)] : Folds(step, base, s, DOMAIN s, h)
      <3>1. step \in [Seq(URLs) \X Seq(URLs) -> Seq(URLs)]
        BY <1>1
      <3> HIDE DEF step
      <3> QED
        BY <3>1, FoldExists
    <2>2. ASSUME NEW t \in SUBSET DOMAIN s
          PROVE  h[t] = IF t = {} THEN base ELSE
                    (IF k <= Len(s[Max(t)]) THEN Append(h[t \ {Max(t)}], s[Max(t)][k]) ELSE h[t \ {Max(t)}])
      <3>1. CASE t # {}
        <4>1. Max(t) \in t
          BY <1>0, <3>1, MaxIsLargest
        <4>2. h[t \ {Max(t)}] \in Seq(URLs) /\ s[Max(t)] \in Seq(URLs)
          BY <1>0, <4>1
        <4> QED
          BY <2>1, <3>1, <4>2 DEF Folds
      <3> QED
        BY <2>1, <3>1 DEF Folds
    <2> QED
      BY <2>2, Zenon
  <1>3. PICK h : h = (CHOOSE f : Eq(f)) /\ Eq(h)
    BY <1>2, Zenon
  <1>4. FoldLeft(LAMBDA acc, l : IF k <= Len(l) THEN Append(acc, l[k]) ELSE acc, base, s) = h[DOMAIN s]
    BY <1>3, Zenon DEF FoldLeft, MapThenFoldSet
  <1>5. h[{}] = base
    BY <1>3, Zenon
  <1>6. ASSUME NEW n \in 1 .. Len(s) PROVE h[1 .. n] =
            (IF k <= Len(s[n]) THEN Append(h[1 .. (n - 1)], s[n][k]) ELSE h[1 .. (n - 1)])
    <2>1. 1 .. n \in SUBSET DOMAIN s /\ 1 .. n # {}
      BY <1>0, MaxOfFirst
    <2>2. Max(1 .. n) = n /\ (1 .. n) \ {n} = 1 .. (n - 1)
      BY <1>0, MaxOfFirst
    <2>3. h[1 .. n] =
              (IF k <= Len(s[Max(1 .. n)]) THEN Append(h[(1 .. n) \ {Max(1 .. n)}], s[Max(1 .. n)][k])
                 ELSE h[(1 .. n) \ {Max(1 .. n)}])
      BY <1>3, <2>1, Zenon
    <2> QED
      BY <2>2, <2>3, Zenon
  <1> HIDE DEF Eq, step
  <1>7. h[{}] \in Seq(URLs) /\ <<0, h[{}]>> \in I
    BY <1>5
  <1>8. ASSUME NEW n \in 1 .. Len(s), h[1 .. (n - 1)] \in Seq(URLs), <<n - 1, h[1 .. (n - 1)]>> \in I
        PROVE  h[1 .. n] \in Seq(URLs) /\ <<n, h[1 .. n]>> \in I
    <2>1. n \in Nat
      BY <1>0, SMT
    <2> QED
      BY <1>0, <1>1, <1>6, <1>8, <2>1
  <1>9. h[DOMAIN s] \in Seq(URLs) /\ <<Len(s), h[DOMAIN s]>> \in I
    <2> HIDE DEF I
    <2> QED
      BY <1>7, <1>8, FoldClimbs
  <1> QED
    BY <1>4, <1>9

(* Lists one after the other make a list.                                  *)
LEMMA FlattenType ==
  ASSUME NEW A, NEW s \in Seq(Seq(A))
  PROVE  FlattenSeq(s) \in Seq(A)
  <1> DEFINE N == Len(s)
             Eq(h) == h = [i \in 1 .. N |-> IF i = 1 THEN s[i] ELSE h[i - 1] \o s[i]]
             Has(n, h) == h \in [1 .. n -> Seq(A)] /\ \A i \in 1 .. n : h[i] = IF i = 1 THEN s[i] ELSE h[i - 1] \o s[i]
             T == {n \in 0 .. N : \E h : Has(n, h)}
  <1>0. N \in Nat /\ \A i \in 1 .. N : s[i] \in Seq(A)
    BY LenProperties, ElementOfSeq
  <1>1. CASE N = 0
    <2>1. s = <<>>
      BY <1>1, EmptySeq, SMT
    <2> QED
      BY <1>1, <2>1, EmptySeq DEF FlattenSeq
  <1>2. CASE N # 0
    <2> HIDE DEF N
    <2>1. 0 \in T
      <3>1. 1 .. 0 = {} /\ 0 \in 0 .. N
        BY <1>0, SMT
      <3>2. Has(0, [i \in 1 .. 0 |-> <<>>])
        BY <3>1
      <3> QED
        BY <3>1, <3>2
    <2>2. ASSUME NEW n \in 1 .. N, n - 1 \in T PROVE n \in T
      <3>1. PICK h : Has(n - 1, h)
        BY <2>2
      <3> DEFINE g == [i \in 1 .. n |-> IF i = n THEN IF i = 1 THEN s[i] ELSE h[i - 1] \o s[i] ELSE h[i]]
      <3>2. \A i \in 1 .. n : i # n => i \in 1 .. (n - 1)
        BY <1>0, SMT
      <3>3. n # 1 => n - 1 \in 1 .. (n - 1) /\ n - 1 \in 1 .. n /\ n - 1 # n
        BY <1>0, SMT
      <3>4. n # 1 => h[n - 1] \o s[n] \in Seq(A)
        BY <1>0, <3>1, <3>3, ConcatProperties
      <3>5. g \in [1 .. n -> Seq(A)]
        BY <1>0, <3>1, <3>2, <3>4
      <3>6. ASSUME NEW i \in 1 .. n PROVE g[i] = IF i = 1 THEN s[i] ELSE g[i - 1] \o s[i]
        <4>1. CASE i = n
          <5>1. i # 1 => g[i - 1] = h[i - 1]
            BY <3>3, <4>1
          <5> QED
            BY <4>1, <5>1
        <4>2. CASE i # n
          <5>1. i \in 1 .. (n - 1) /\ (i # 1 => i - 1 \in 1 .. n /\ i - 1 # n)
            BY <1>0, <4>2, SMT
          <5>2. g[i] = h[i] /\ (i # 1 => g[i - 1] = h[i - 1])
            BY <4>2, <5>1
          <5>3. h[i] = IF i = 1 THEN s[i] ELSE h[i - 1] \o s[i]
            BY <3>1, <5>1
          <5> HIDE DEF g
          <5> QED
            BY <5>2, <5>3
        <4> QED
          BY <4>1, <4>2
      <3>7. Has(n, g) /\ n \in 0 .. N
        <4>1. n \in 0 .. N
          BY <1>0, SMT
        <4> HIDE DEF g
        <4> QED
          BY <3>5, <3>6, <4>1
      <3> HIDE DEF g, Has
      <3> QED
        BY <3>7
    <2>3. PICK k : Has(N, k)
      <3> HIDE DEF T
      <3>1. N \in T
        BY <1>0, <2>1, <2>2, Climb
      <3> QED
        BY <3>1 DEF T
    <2>4. Eq(k)
      BY <2>3
    <2>5. PICK h : h = (CHOOSE f : Eq(f)) /\ Eq(h)
      BY <2>4, Zenon
    <2>6. FlattenSeq(s) = h[N]
      BY <1>2, <2>5, Zenon DEF FlattenSeq, N
    <2> DEFINE U == {n \in 0 .. N : n = 0 \/ h[n] \in Seq(A)}
    <2>7. 0 \in U
      BY <1>0, SMT
    <2>8. ASSUME NEW n \in 1 .. N, n - 1 \in U PROVE n \in U
      <3>1. n \in 0 .. N /\ (n # 1 => n - 1 # 0) /\ s[n] \in Seq(A)
        BY <1>0, SMT
      <3>2. h[n] = IF n = 1 THEN s[n] ELSE h[n - 1] \o s[n]
        BY <2>5, Zenon
      <3> QED
        BY <2>8, <3>1, <3>2, ConcatProperties
    <2>9. N \in U
      <3> HIDE DEF U
      <3> QED
        BY <1>0, <2>7, <2>8, Climb
    <2> QED
      BY <1>2, <2>6, <2>9
  <1> QED
    BY <1>1, <1>2

(* The beginning of a list.                                                *)
LEMMA FirstOfType ==
  ASSUME NEW A, NEW s \in Seq(A), NEW n \in Nat
  PROVE  /\ FirstOf(s, n) \in Seq(A) /\ Len(FirstOf(s, n)) = IF Len(s) < n THEN Len(s) ELSE n
         /\ \A i \in 1 .. Len(FirstOf(s, n)) : FirstOf(s, n)[i] = s[i]
  <1> DEFINE k == IF Len(s) < n THEN Len(s) ELSE n
  <1>1. k \in Nat /\ k <= Len(s) /\ Len(s) \in Nat
    BY LenProperties, SMT
  <1>2. FirstOf(s, n) = SubSeq(s, 1, k)
    BY DEF FirstOf
  <1> HIDE DEF k
  <1>3. \A i \in 1 .. k : s[i] \in A
    BY <1>1, ElementOfSeq, SMT
  <1>4. /\ SubSeq(s, 1, k) \in Seq(A) /\ Len(SubSeq(s, 1, k)) = IF 1 <= k THEN k - 1 + 1 ELSE 0
        /\ \A i \in 1 .. k - 1 + 1 : SubSeq(s, 1, k)[i] = s[1 + i - 1]
    BY <1>1, <1>3, SubSeqProperties
  <1>5. (IF 1 <= k THEN k - 1 + 1 ELSE 0) = k /\ k - 1 + 1 = k /\ \A i \in 1 .. k : 1 + i - 1 = i
    BY <1>1, SMT
  <1>6. Len(SubSeq(s, 1, k)) = k /\ \A i \in 1 .. k : SubSeq(s, 1, k)[i] = s[i]
    BY <1>4, <1>5
  <1> QED
    BY <1>2, <1>4, <1>6 DEF k

(* What a sitemap is read as, and what a crawl starts from, are URLs.      *)
LEMMA SitemapType ==
  ASSUME NEW children \in Seq(Seq(URLs))
  PROVE  RoundRobin(ChildLists(children)) \in Seq(URLs)
  <1>1. ChildLists(children) \in Seq(Seq(URLs))
    <2>1. [lists |-> <<>>, seen |-> {}] \in Children
      BY EmptySeq DEF Children
    <2> QED
      BY <2>1, AddChildStays DEF ChildLists, Children
  <1>2. PICK lists \in Seq(Seq(URLs)) : lists = ChildLists(children)
    BY <1>1
  <1>3. PICK n \in Nat : n = Longest(lists)
    <2>1. 0 \in Nat
      OBVIOUS
    <2>2. Longest(lists) \in Nat
      BY <2>1, LongestStays DEF Longest
    <2> QED
      BY <2>2
  <1>4. ASSUME NEW i \in 1 .. n PROVE Round(lists, i) \in Seq(URLs)
    <2>1. i \in Nat \ {0} /\ <<>> \in Seq(URLs)
      BY EmptySeq, SMT
    <2> QED
      BY <2>1, RoundStays DEF Round
  <1>5. [i \in 1 .. n |-> Round(lists, i)] \in Seq(Seq(URLs))
    <2>1. [i \in 1 .. n |-> Round(lists, i)] \in [1 .. n -> Seq(URLs)]
      BY <1>4
    <2> QED
      BY <2>1, SeqDef
  <1>6. FlattenSeq([i \in 1 .. n |-> Round(lists, i)]) \in Seq(URLs)
    BY <1>5, FlattenType
  <1>7. SitemapLimit \in Nat
    BY CrawlAssumption DEF SitemapLimit
  <1> QED
    BY <1>2, <1>3, <1>6, <1>7, FirstOfType DEF RoundRobin

(* The seeds, of the homepage, the ranking pages and the sitemap, are      *)
(* URLs.                                                                   *)
LEMMA SeedsType ==
  ASSUME NEW urls \in Seq(URLs)
  PROVE  Seeds(urls) \in Seq(URLs)
  <1> DEFINE ranking == FirstOf(Usable(ExtraSeeds, {}).list, MaxUrls)
             rest    == FirstOf(urls, MaxUrls)
  <1>1. ranking \in Seq(URLs) /\ rest \in Seq(URLs)
    <2>1. Usable(ExtraSeeds, {}).list \in Seq(URLs)
      BY CrawlAssumption, UsableType DEF Locs
    <2> QED
      BY <2>1, CrawlAssumption, FirstOfType
  <1>2. <<Root>> \in Seq(URLs)
    BY CrawlAssumption
  <1> HIDE DEF ranking, rest
  <1>3. <<Root>> \o ranking \o rest \in Seq(URLs)
    BY <1>1, <1>2, ConcatProperties
  <1>4. Usable(<<Root>> \o ranking \o rest, {}).list \in Seq(URLs)
    BY <1>3, UsableType DEF Locs
  <1> QED
    BY <1>4 DEF Seeds, ranking, rest

-----------------------------------------------------------------------------
(* Lists of items.                                                         *)
UrlsIn(items) == {items[i].url : i \in DOMAIN items}
Sorted(items) == \A i, j \in DOMAIN items : i <= j => items[i].depth <= items[j].depth
Distinct(items) == \A i, j \in DOMAIN items : items[i].url = items[j].url => i = j

(* One item more.                                                          *)
LEMMA AppendItem ==
  ASSUME NEW S, NEW s \in Seq(S), NEW e \in S
  PROVE  /\ Append(s, e) \in Seq(S) /\ Append(s, e) # <<>>
         /\ ToSet(Append(s, e)) = ToSet(s) \cup {e} /\ UrlsIn(Append(s, e)) = UrlsIn(s) \cup {e.url}
         /\ DOMAIN Append(s, e) = DOMAIN s \cup {Len(s) + 1} /\ Len(s) + 1 \notin DOMAIN s
         /\ Append(s, e)[Len(s) + 1] = e /\ \A i \in DOMAIN s : Append(s, e)[i] = s[i] /\ i \in Nat /\ i < Len(s) + 1
  <1>1. /\ Append(s, e) \in Seq(S) /\ Append(s, e) # <<>> /\ Len(Append(s, e)) = Len(s) + 1
        /\ \A i \in 1 .. Len(s) : Append(s, e)[i] = s[i]
        /\ Append(s, e)[Len(s) + 1] = e
    BY AppendProperties
  <1>2. Len(s) \in Nat /\ DOMAIN s = 1 .. Len(s) /\ DOMAIN Append(s, e) = 1 .. (Len(s) + 1)
    BY <1>1, LenProperties
  <1>3. 1 .. (Len(s) + 1) = (1 .. Len(s)) \cup {Len(s) + 1} /\ Len(s) + 1 \notin 1 .. Len(s)
    BY <1>2, SMT
  <1>4. DOMAIN Append(s, e) = DOMAIN s \cup {Len(s) + 1} /\ Len(s) + 1 \notin DOMAIN s
    BY <1>2, <1>3
  <1>5. ToSet(Append(s, e)) = ToSet(s) \cup {e} /\ UrlsIn(Append(s, e)) = UrlsIn(s) \cup {e.url}
    BY <1>1, <1>2, <1>4 DEF ToSet, UrlsIn
  <1>6. \A i \in DOMAIN s : Append(s, e)[i] = s[i] /\ i \in Nat /\ i < Len(s) + 1
    BY <1>1, <1>2, SMT
  <1> QED
    BY <1>1, <1>4, <1>5, <1>6

(* An item as deep as the last keeps a list in order.                      *)
LEMMA AppendKeepsOrder ==
  ASSUME NEW s \in Seq(Items), NEW e \in Items, Sorted(s), \A p \in ToSet(s) : p.depth <= e.depth
  PROVE  Sorted(Append(s, e))
  <1> SUFFICES ASSUME NEW i \in DOMAIN Append(s, e), NEW j \in DOMAIN Append(s, e), i <= j
               PROVE  Append(s, e)[i].depth <= Append(s, e)[j].depth
    BY DEF Sorted
  <1>1. CASE j = Len(s) + 1
    <2>1. CASE i \in DOMAIN s
      BY <1>1, <2>1, AppendItem DEF ToSet
    <2>2. CASE i = Len(s) + 1
      <3>1. e.depth <= e.depth
        BY SMT DEF Items
      <3> QED
        BY <1>1, <2>2, <3>1, AppendItem
    <2> QED
      BY <2>1, <2>2, AppendItem
  <1>2. CASE j \in DOMAIN s
    <2>1. i # Len(s) + 1
      BY <1>2, AppendItem, LenProperties, SMT
    <2>2. i \in DOMAIN s
      BY <2>1, AppendItem
    <2> QED
      BY <1>2, <2>2, AppendItem DEF Sorted
  <1> QED
    BY <1>1, <1>2, AppendItem

(* An item of a new URL keeps the URLs of a list distinct.                 *)
LEMMA AppendKeepsDistinct ==
  ASSUME NEW S, NEW s \in Seq(S), NEW e \in S, Distinct(s), e.url \notin UrlsIn(s)
  PROVE  Distinct(Append(s, e))
  BY AppendItem DEF Distinct, UrlsIn

(* An empty list.                                                          *)
LEMMA NoItems ==
  /\ UrlsIn(<<>>) = {} /\ ToSet(<<>>) = {} /\ Sorted(<<>>) /\ Distinct(<<>>)
  /\ \A S : <<>> \in Seq(S)
  BY EmptySeq DEF UrlsIn, ToSet, Sorted, Distinct

(* The elements of a list.                                                 *)
LEMMA ItemsOf ==
  ASSUME NEW S, NEW s \in Seq(S)
  PROVE  ToSet(s) \subseteq S
  BY ElementOfSeq DEF ToSet

(* The URLs of a finite list are finitely many.                            *)
LEMMA UrlsFinite ==
  ASSUME NEW S, NEW s \in Seq(S)
  PROVE  IsFiniteSet(UrlsIn(s)) /\ IsFiniteSet(UrlsIn(s) \ Disallowed) /\ Cardinality(UrlsIn(s) \ Disallowed) \in Nat
  <1> DEFINE f == [i \in DOMAIN s |-> s[i].url]
  <1>1. IsFiniteSet(DOMAIN s)
    <2>1. Len(s) \in Nat /\ DOMAIN s = 1 .. Len(s) /\ 1 \in Int /\ Len(s) \in Int
      BY LenProperties
    <2> QED
      BY <2>1, FS_Interval
  <1>2. f \in Surjection(DOMAIN s, UrlsIn(s))
    BY DEF Surjection, UrlsIn
  <1>3. IsFiniteSet(UrlsIn(s))
    <2> HIDE DEF f
    <2> QED
      BY <1>1, <1>2, FS_Surjection
  <1>4. UrlsIn(s) \ Disallowed \in SUBSET UrlsIn(s)
    OBVIOUS
  <1> QED
    BY <1>3, <1>4, FS_Subset, FS_CardinalityType

(* The first item and the others.                                          *)
LEMMA TailItems ==
  ASSUME NEW s \in Seq(Items), s # <<>>
  PROVE  /\ Head(s) \in Items /\ Tail(s) \in Seq(Items)
         /\ UrlsIn(s) = {Head(s).url} \cup UrlsIn(Tail(s)) /\ ToSet(s) = {Head(s)} \cup ToSet(Tail(s))
         /\ Distinct(s) => Distinct(Tail(s)) /\ Head(s).url \notin UrlsIn(Tail(s))
         /\ Sorted(s) => Sorted(Tail(s)) /\ \A p \in ToSet(s) : Head(s).depth <= p.depth
  <1>1. /\ Head(s) \in Items /\ Tail(s) \in Seq(Items) /\ Len(Tail(s)) = Len(s) - 1
        /\ \A i \in 1 .. Len(Tail(s)) : Tail(s)[i] = s[i + 1]
    BY HeadTailProperties
  <1>2. Len(s) \in Nat \ {0} /\ DOMAIN s = 1 .. Len(s) /\ DOMAIN Tail(s) = 1 .. (Len(s) - 1)
    BY <1>1, LenProperties, EmptySeq
  <1>3. Head(s) = s[1]
    OBVIOUS
  <1>4. 1 \in DOMAIN s /\ \A i \in DOMAIN Tail(s) : i + 1 \in DOMAIN s /\ i + 1 # 1
    BY <1>2, SMT
  <1>5. \A i \in DOMAIN s : i = 1 \/ (i - 1 \in DOMAIN Tail(s) /\ (i - 1) + 1 = i)
    BY <1>2, SMT
  <1>6. \A i \in DOMAIN Tail(s) : Tail(s)[i] = s[i + 1]
    BY <1>1, <1>2
  <1>7. \A i \in DOMAIN s : i = 1 \/ (i - 1 \in DOMAIN Tail(s) /\ Tail(s)[i - 1] = s[i])
    BY <1>5, <1>6, Zenon
  <1>8. UrlsIn(s) = {Head(s).url} \cup UrlsIn(Tail(s))
    <2>1. \A u \in UrlsIn(s) : u \in {Head(s).url} \cup UrlsIn(Tail(s))
      BY <1>3, <1>7 DEF UrlsIn
    <2>2. \A u \in {Head(s).url} \cup UrlsIn(Tail(s)) : u \in UrlsIn(s)
      BY <1>3, <1>4, <1>6 DEF UrlsIn
    <2> QED
      BY <2>1, <2>2
  <1>9. ToSet(s) = {Head(s)} \cup ToSet(Tail(s))
    <2>1. \A u \in ToSet(s) : u \in {Head(s)} \cup ToSet(Tail(s))
      BY <1>3, <1>7 DEF ToSet
    <2>2. \A u \in {Head(s)} \cup ToSet(Tail(s)) : u \in ToSet(s)
      BY <1>3, <1>4, <1>6 DEF ToSet
    <2> QED
      BY <2>1, <2>2
  <1>10. ASSUME Distinct(s) PROVE Distinct(Tail(s)) /\ Head(s).url \notin UrlsIn(Tail(s))
    <2>1. ASSUME NEW i \in DOMAIN Tail(s), NEW j \in DOMAIN Tail(s), Tail(s)[i].url = Tail(s)[j].url PROVE i = j
      <3>1. i + 1 = j + 1
        BY <1>4, <1>6, <1>10, <2>1 DEF Distinct
      <3> QED
        BY <1>2, <3>1, SMT
    <2>2. ASSUME NEW i \in DOMAIN Tail(s) PROVE Tail(s)[i].url # Head(s).url
      BY <1>3, <1>4, <1>6, <1>10 DEF Distinct
    <2> QED
      BY <2>1, <2>2 DEF Distinct, UrlsIn
  <1>11. ASSUME Sorted(s) PROVE Sorted(Tail(s)) /\ \A p \in ToSet(s) : Head(s).depth <= p.depth
    <2>1. ASSUME NEW i \in DOMAIN Tail(s), NEW j \in DOMAIN Tail(s), i <= j PROVE Tail(s)[i].depth <= Tail(s)[j].depth
      <3>1. i + 1 <= j + 1
        BY <1>2, <2>1, SMT
      <3> QED
        BY <1>4, <1>6, <1>11, <3>1 DEF Sorted
    <2>2. ASSUME NEW i \in DOMAIN s PROVE Head(s).depth <= s[i].depth
      <3>1. 1 <= i
        BY <1>2, SMT
      <3> QED
        BY <1>3, <1>4, <1>11, <3>1 DEF Sorted
    <2> QED
      BY <2>1, <2>2 DEF Sorted, ToSet
  <1> QED
    BY <1>1, <1>8, <1>9, <1>10, <1>11

-----------------------------------------------------------------------------
(* What the claims of the first n items of a queue make of it.             *)
ClaimInv(Q, room, n, a) ==
    /\ a.room + Cardinality(UrlsIn(a.batch) \ Disallowed) = room
    /\ a.visited = visited \cup UrlsIn(a.batch) /\ visited \cap UrlsIn(a.batch) = {}
    /\ Distinct(a.batch)
    /\ \A p \in ToSet(a.batch) \cup ToSet(a.queue) : \E m \in 1 .. n : p = Q[m]
    /\ \A m \in 1 .. n : Q[m].url \in a.visited \cup UrlsIn(a.queue)
    /\ a.queue # <<>> => a.room = 0
    /\ Sorted(Q) => /\ Sorted(a.batch) /\ Sorted(a.queue)
                    /\ \A p \in ToSet(a.batch), q \in ToSet(a.queue) : p.depth <= q.depth

(* One item more.                                                          *)
LEMMA ClaimStep ==
  ASSUME NEW Q \in Seq(Items), NEW room \in Nat, NEW n \in 1 .. Len(Q), NEW a \in Claims,
         ClaimInv(Q, room, n - 1, a)
  PROVE  ClaimInv(Q, room, n, ClaimItem(a, Q[n]))
  <1> DEFINE e == Q[n]
             b == ClaimItem(a, Q[n])
  <1>0. Len(Q) \in Nat /\ DOMAIN Q = 1 .. Len(Q) /\ e \in Items
    BY LenProperties, ElementOfSeq
  <1>1. n \in Nat /\ n \in 1 .. n /\ \A m \in 1 .. (n - 1) : m \in 1 .. n /\ m <= n /\ m \in DOMAIN Q
    BY <1>0, SMT
  <1>2. \A m \in 1 .. n : m = n \/ m \in 1 .. (n - 1)
    BY <1>1, SMT
  <1>3. /\ a.room \in Nat /\ a.batch \in Seq(Items) /\ a.queue \in Seq(Items)
        /\ b = IF a.room = 0 THEN [a EXCEPT !.queue = Append(a.queue, e)]
               ELSE IF e.url \in a.visited THEN a
               ELSE [a EXCEPT !.visited = a.visited \cup {e.url}, !.batch = Append(a.batch, e),
                              !.room = IF e.url \in Disallowed THEN a.room ELSE a.room - 1]
    BY DEF Claims, ClaimItem
  <1>4. \A p \in ToSet(a.batch) \cup ToSet(a.queue) : \E m \in 1 .. (n - 1) : p = Q[m]
    BY DEF ClaimInv
  <1>5. \A p \in ToSet(a.batch) \cup ToSet(a.queue) : Sorted(Q) => p.depth <= e.depth
    <2> SUFFICES ASSUME NEW p \in ToSet(a.batch) \cup ToSet(a.queue), Sorted(Q) PROVE p.depth <= e.depth
      OBVIOUS
    <2>1. PICK m \in 1 .. (n - 1) : p = Q[m]
      BY <1>4
    <2>2. n \in DOMAIN Q /\ m \in DOMAIN Q /\ m <= n
      BY <1>0, <1>1
    <2> QED
      BY <2>1, <2>2 DEF Sorted
  <1> HIDE DEF e, b
  <1>6. CASE a.room = 0
    <2>1. b = [a EXCEPT !.queue = Append(a.queue, e)]
      BY <1>3, <1>6
    <2>2. b.room = a.room /\ b.batch = a.batch /\ b.visited = a.visited /\ b.queue = Append(a.queue, e)
      BY <2>1 DEF Claims
    <2>3. ToSet(b.queue) = ToSet(a.queue) \cup {e} /\ UrlsIn(b.queue) = UrlsIn(a.queue) \cup {e.url}
      BY <1>0, <1>3, <2>2, AppendItem
    <2>4. \A p \in ToSet(b.batch) \cup ToSet(b.queue) : \E m \in 1 .. n : p = Q[m]
      BY <1>1, <1>4, <2>2, <2>3 DEF e
    <2>5. \A m \in 1 .. n : Q[m].url \in b.visited \cup UrlsIn(b.queue)
      BY <1>2, <2>2, <2>3 DEF e, ClaimInv
    <2>6. ASSUME Sorted(Q)
          PROVE  /\ Sorted(b.batch) /\ Sorted(b.queue)
                 /\ \A p \in ToSet(b.batch), q \in ToSet(b.queue) : p.depth <= q.depth
      <3>1. Sorted(b.queue) /\ Sorted(b.batch)
        BY <1>0, <1>3, <1>5, <2>2, <2>6, AppendKeepsOrder DEF ClaimInv
      <3>2. \A p \in ToSet(b.batch), q \in ToSet(b.queue) : p.depth <= q.depth
        BY <1>5, <2>2, <2>3, <2>6 DEF ClaimInv
      <3> QED
        BY <3>1, <3>2
    <2>7. ClaimInv(Q, room, n, b)
      BY <1>6, <2>2, <2>4, <2>5, <2>6 DEF ClaimInv
    <2> QED
      BY <2>7 DEF b
  <1>7. CASE a.room # 0 /\ e.url \in a.visited
    <2>1. b = a
      BY <1>3, <1>7
    <2>2. \A p \in ToSet(b.batch) \cup ToSet(b.queue) : \E m \in 1 .. n : p = Q[m]
      BY <1>1, <1>4, <2>1
    <2>3. \A m \in 1 .. n : Q[m].url \in b.visited \cup UrlsIn(b.queue)
      BY <1>2, <1>7, <2>1 DEF e, ClaimInv
    <2>4. ClaimInv(Q, room, n, b)
      BY <2>1, <2>2, <2>3 DEF ClaimInv
    <2> QED
      BY <2>4 DEF b
  <1>8. CASE a.room # 0 /\ e.url \notin a.visited
    <2>1. b = [a EXCEPT !.visited = a.visited \cup {e.url}, !.batch = Append(a.batch, e),
                        !.room = IF e.url \in Disallowed THEN a.room ELSE a.room - 1]
      BY <1>3, <1>8
    <2>2. /\ b.visited = a.visited \cup {e.url} /\ b.batch = Append(a.batch, e) /\ b.queue = a.queue
          /\ b.room = IF e.url \in Disallowed THEN a.room ELSE a.room - 1
      BY <2>1 DEF Claims
    <2>3. a.queue = <<>>
      BY <1>8 DEF ClaimInv
    <2>4. ToSet(b.batch) = ToSet(a.batch) \cup {e} /\ UrlsIn(b.batch) = UrlsIn(a.batch) \cup {e.url}
      BY <1>0, <1>3, <2>2, AppendItem
    <2>5. e.url \notin visited /\ e.url \notin UrlsIn(a.batch)
      BY <1>8 DEF ClaimInv
    <2>6. b.room + Cardinality(UrlsIn(b.batch) \ Disallowed) = room
      <3>1. PICK S : S = UrlsIn(a.batch) \ Disallowed
        OBVIOUS
      <3>2. IsFiniteSet(S) /\ Cardinality(S) \in Nat /\ a.room + Cardinality(S) = room
        BY <1>3, <3>1, UrlsFinite DEF ClaimInv
      <3>3. CASE e.url \in Disallowed
        <4>1. UrlsIn(b.batch) \ Disallowed = S
          BY <2>4, <3>1, <3>3
        <4> QED
          BY <2>2, <3>2, <3>3, <4>1
      <3>4. CASE e.url \notin Disallowed
        <4>1. UrlsIn(b.batch) \ Disallowed = S \cup {e.url} /\ e.url \notin S
          BY <2>4, <2>5, <3>1, <3>4
        <4>2. Cardinality(S \cup {e.url}) = Cardinality(S) + 1
          BY <3>2, <4>1, FS_AddElement
        <4>3. PICK k \in Nat : k = Cardinality(S)
          BY <3>2
        <4>4. PICK l \in Nat : l = a.room
          BY <1>3
        <4>5. b.room = l - 1 /\ l # 0 /\ l + k = room /\ Cardinality(UrlsIn(b.batch) \ Disallowed) = k + 1
          BY <1>8, <2>2, <3>2, <3>4, <4>1, <4>2, <4>3, <4>4, Zenon
        <4> QED
          BY <4>5, SMT
      <3> QED
        BY <3>3, <3>4
    <2>7. b.visited = visited \cup UrlsIn(b.batch) /\ visited \cap UrlsIn(b.batch) = {} /\ Distinct(b.batch)
      BY <1>0, <1>3, <2>2, <2>4, <2>5, AppendKeepsDistinct DEF ClaimInv
    <2>8. \A p \in ToSet(b.batch) \cup ToSet(b.queue) : \E m \in 1 .. n : p = Q[m]
      BY <1>1, <1>4, <2>2, <2>4 DEF e
    <2>9. \A m \in 1 .. n : Q[m].url \in b.visited \cup UrlsIn(b.queue)
      BY <1>2, <2>2 DEF e, ClaimInv
    <2>10. ASSUME Sorted(Q)
           PROVE  /\ Sorted(b.batch) /\ Sorted(b.queue)
                  /\ \A p \in ToSet(b.batch), q \in ToSet(b.queue) : p.depth <= q.depth
      <3>1. Sorted(b.queue) /\ Sorted(b.batch)
        BY <1>0, <1>3, <1>5, <2>2, <2>10, AppendKeepsOrder DEF ClaimInv
      <3>2. ToSet(b.queue) = {}
        BY <2>2, <2>3, NoItems
      <3> QED
        BY <3>1, <3>2
    <2>11. ClaimInv(Q, room, n, b)
      BY <2>2, <2>3, <2>6, <2>7, <2>8, <2>9, <2>10 DEF ClaimInv
    <2> QED
      BY <2>11 DEF b
  <1> QED
    BY <1>6, <1>7, <1>8

(* The claim phase: what it takes off the queue, and what it leaves.       *)
LEMMA ClaimFacts ==
  ASSUME NEW room \in Nat, visited \subseteq URLs, frontier.queue \in Seq(Items),
         NEW c, c = FoldLeft(ClaimItem, [room |-> room, visited |-> visited, batch |-> <<>>, queue |-> <<>>],
                             frontier.queue)
  PROVE  c \in Claims /\ ClaimInv(frontier.queue, room, Len(frontier.queue), c)
  <1> DEFINE base == [room |-> room, visited |-> visited, batch |-> <<>>, queue |-> <<>>]
             I == {p \in Nat \X Claims : ClaimInv(frontier.queue, room, p[1], p[2])}
  <1>0. Len(frontier.queue) \in Nat
    BY LenProperties
  <1>1. base \in Claims
    BY NoItems DEF Claims
  <1>2. <<0, base>> \in I
    <2>1. 1 .. 0 = {} /\ {} \ Disallowed = {} /\ Cardinality({}) = 0 /\ room + 0 = room
      BY FS_EmptySet, SMT
    <2>2. base.batch = <<>> /\ base.queue = <<>> /\ base.visited = visited /\ base.room = room
      OBVIOUS
    <2> HIDE DEF base
    <2>3. ClaimInv(frontier.queue, room, 0, base)
      BY <2>1, <2>2, NoItems DEF ClaimInv
    <2> QED
      BY <1>1, <2>3
  <1>3. ASSUME NEW n \in 1 .. Len(frontier.queue), NEW a \in Claims, <<n - 1, a>> \in I
        PROVE  <<n, ClaimItem(a, frontier.queue[n])>> \in I
    <2>1. n \in Nat /\ frontier.queue[n] \in Items
      BY <1>0, ElementOfSeq, SMT
    <2>2. ClaimItem(a, frontier.queue[n]) \in Claims
      BY <2>1, ClaimType
    <2>3. ClaimInv(frontier.queue, room, n, ClaimItem(a, frontier.queue[n]))
      BY <1>3, ClaimStep
    <2> QED
      BY <2>1, <2>2, <2>3
  <1> HIDE DEF I, base
  <1>4. /\ FoldLeft(ClaimItem, base, frontier.queue) \in Claims
        /\ <<Len(frontier.queue), FoldLeft(ClaimItem, base, frontier.queue)>> \in I
    BY <1>1, <1>2, <1>3, ClaimRises
  <1> QED
    BY <1>4 DEF I, base

-----------------------------------------------------------------------------
(* What the first n links of a page make of the frontier: the queue gains  *)
(* links at the depth k that were neither reached nor queued before, and a *)
(* link in scope that is left out was, or the queue is marked full.        *)
EnqueueInv(links, k, n, f) ==
    /\ ToSet(frontier.queue) \subseteq ToSet(f.queue)
    /\ \A p \in ToSet(f.queue) :
          \/ p \in ToSet(frontier.queue)
          \/ p.depth = k /\ p.url \in InScope /\ p.url \notin visited' \cup frontier.enqueued
    /\ frontier.enqueued \subseteq f.enqueued
    /\ \A u \in f.enqueued : u \in frontier.enqueued \/ (u \in UrlsIn(f.queue) /\ u \notin visited')
    /\ (f.full = FALSE => /\ frontier.full = FALSE
                          /\ \A m \in 1 .. n : links[m] \in InScope => links[m] \in visited' \cup f.enqueued)
    /\ Sorted(frontier.queue) /\ (\A p \in ToSet(frontier.queue) : p.depth <= k) =>
          Sorted(f.queue) /\ \A p \in ToSet(f.queue) : p.depth <= k

(* One link more.                                                          *)
LEMMA EnqueueStep ==
  ASSUME NEW links \in Seq(URLs), NEW k \in Nat, NEW n \in 1 .. Len(links), NEW f \in Fronts,
         EnqueueInv(links, k, n - 1, f)
  PROVE  EnqueueInv(links, k, n, Enqueue(f, links[n], k))
  <1>0. PICK l \in URLs : l = links[n]
    BY ElementOfSeq, LenProperties, SMT
  <1>1. \A m \in 1 .. n : m = n \/ m \in 1 .. (n - 1)
    BY LenProperties, SMT
  <1>2. PICK g : g = Enqueue(f, links[n], k)
    OBVIOUS
  <1> SUFFICES EnqueueInv(links, k, n, g)
    BY <1>2
  <1>3. PICK e \in Items : e = [url |-> l, depth |-> k]
    BY DEF Items
  <1>4. \/ g = [f EXCEPT !.full = TRUE]
        \/ /\ l \in InScope /\ l \notin visited' \cup f.enqueued
           /\ g = [f EXCEPT !.queue = Append(f.queue, e), !.enqueued = f.enqueued \cup {l}]
        \/ g = f /\ (l \in InScope => l \in visited' \cup f.enqueued)
    BY <1>0, <1>2, <1>3, Zenon DEF Enqueue
  <1>5. CASE g = [f EXCEPT !.full = TRUE]
    <2>1. g.queue = f.queue /\ g.enqueued = f.enqueued /\ g.full = TRUE
      BY <1>5 DEF Fronts
    <2> QED
      BY <2>1, Zenon DEF EnqueueInv
  <1>6. CASE g = f /\ (l \in InScope => l \in visited' \cup f.enqueued)
    <2>1. f.full = FALSE => \A m \in 1 .. n : links[m] \in InScope => links[m] \in visited' \cup f.enqueued
      BY <1>0, <1>1, <1>6, Zenon DEF EnqueueInv
    <2> QED
      BY <1>6, <2>1, Zenon DEF EnqueueInv
  <1>7. CASE /\ l \in InScope /\ l \notin visited' \cup f.enqueued
             /\ g = [f EXCEPT !.queue = Append(f.queue, e), !.enqueued = f.enqueued \cup {l}]
    <2>1. g.queue = Append(f.queue, e) /\ g.enqueued = f.enqueued \cup {l} /\ g.full = f.full
      BY <1>7 DEF Fronts
    <2>2. f.queue \in Seq(Items) /\ e.url = l /\ e.depth = k
      BY <1>3 DEF Fronts
    <2>3. ToSet(g.queue) = ToSet(f.queue) \cup {e} /\ UrlsIn(g.queue) = UrlsIn(f.queue) \cup {l}
      BY <2>1, <2>2, AppendItem
    <2>4. ToSet(frontier.queue) \subseteq ToSet(g.queue) /\ frontier.enqueued \subseteq g.enqueued
      BY <2>1, <2>3 DEF EnqueueInv
    <2>5. l \notin frontier.enqueued
      BY <1>7 DEF EnqueueInv
    <2>6. ASSUME NEW p \in ToSet(g.queue)
          PROVE  \/ p \in ToSet(frontier.queue)
                 \/ p.depth = k /\ p.url \in InScope /\ p.url \notin visited' \cup frontier.enqueued
      <3>1. p = e \/ p \in ToSet(f.queue)
        BY <2>3
      <3> QED
        BY <1>7, <2>2, <2>5, <3>1, Zenon DEF EnqueueInv
    <2>7. \A u \in g.enqueued : u \in frontier.enqueued \/ (u \in UrlsIn(g.queue) /\ u \notin visited')
      BY <1>7, <2>1, <2>3 DEF EnqueueInv
    <2>8. f.full = FALSE => \A m \in 1 .. n : links[m] \in InScope => links[m] \in visited' \cup g.enqueued
      BY <1>0, <1>1, <2>1, Zenon DEF EnqueueInv
    <2>9. ASSUME Sorted(frontier.queue), \A p \in ToSet(frontier.queue) : p.depth <= k
          PROVE  Sorted(g.queue) /\ \A p \in ToSet(g.queue) : p.depth <= k
      <3>1. Sorted(f.queue) /\ \A p \in ToSet(f.queue) : p.depth <= k
        BY <2>9 DEF EnqueueInv
      <3>2. Sorted(g.queue)
        BY <2>1, <2>2, <3>1, AppendKeepsOrder
      <3>3. k <= k
        BY SMT
      <3> QED
        BY <2>2, <2>3, <3>1, <3>2, <3>3
    <2>10. f.full = FALSE => frontier.full = FALSE
      BY DEF EnqueueInv
    <2>11. g.full = FALSE => /\ frontier.full = FALSE
                             /\ \A m \in 1 .. n : links[m] \in InScope => links[m] \in visited' \cup g.enqueued
      BY <2>1, <2>8, <2>10, Zenon
    <2> QED
      BY <2>4, <2>6, <2>7, <2>9, <2>11, Zenon DEF EnqueueInv
  <1> QED
    BY <1>4, <1>5, <1>6, <1>7

(* What the links of a page make of the frontier.                          *)
LEMMA EnqueueFacts ==
  ASSUME NEW links \in Seq(URLs), NEW k \in Nat, frontier \in Fronts
  PROVE  EnqueueLinks(links, k) \in Fronts /\ EnqueueInv(links, k, Len(links), EnqueueLinks(links, k))
  <1> DEFINE I == {p \in Nat \X Fronts : EnqueueInv(links, k, p[1], p[2])}
  <1>0. Len(links) \in Nat
    BY LenProperties
  <1>1. <<0, frontier>> \in I
    <2>1. 1 .. 0 = {}
      BY SMT
    <2>2. EnqueueInv(links, k, 0, frontier)
      BY <2>1, Zenon DEF EnqueueInv
    <2> QED
      BY <2>2
  <1>2. ASSUME NEW n \in 1 .. Len(links), NEW a \in Fronts, <<n - 1, a>> \in I
        PROVE  <<n, Enqueue(a, links[n], k)>> \in I
    <2>1. n \in Nat /\ links[n] \in URLs
      BY <1>0, ElementOfSeq, SMT
    <2>2. Enqueue(a, links[n], k) \in Fronts
      BY <2>1, EnqueueType
    <2>3. EnqueueInv(links, k, n, Enqueue(a, links[n], k))
      BY <1>2, EnqueueStep
    <2> QED
      BY <2>1, <2>2, <2>3
  <1> HIDE DEF I
  <1>3. /\ EnqueueLinks(links, k) \in Fronts
        /\ <<Len(links), EnqueueLinks(links, k)>> \in I
    BY <1>1, <1>2, EnqueueRises DEF EnqueueLinks
  <1> QED
    BY <1>3 DEF I

-----------------------------------------------------------------------------
(* The skip list, and the count of what it has no room for.                *)
Skips == [listed : Seq(URLs), dropped : Nat]

(* A listed URL stays listed; the URLs added are listed, or counted one by *)
(* one (D): the count covers them even if some are the same.               *)
LEMMA SkipsAdd ==
  ASSUME NEW urls \in Seq(URLs), skips \in Skips, Len(skips.listed) <= MaxSkippedListed, AddSkips(urls)
  PROVE  /\ skips' \in Skips /\ Len(skips'.listed) <= MaxSkippedListed /\ Skipped \subseteq Skipped'
         /\ \E D \in SUBSET URLs : /\ IsFiniteSet(D) /\ ToSet(urls) \subseteq Skipped' \cup D
                                   /\ skips.dropped + Cardinality(D) <= skips'.dropped
  <1>1. PICK all, kept : all = skips.listed \o urls /\ kept = FirstOf(all, MaxSkippedListed)
    OBVIOUS
  <1>2. skips' = [listed |-> kept, dropped |-> skips.dropped + Len(all) - Len(kept)]
    BY <1>1 DEF AddSkips
  <1>3. PICK l \in Seq(URLs), n \in Nat, d \in Nat : l = skips.listed /\ n = Len(l) /\ d = skips.dropped
    BY LenProperties DEF Skips
  <1>4. PICK m \in Nat : m = Len(urls)
    BY LenProperties
  <1>5. /\ all \in Seq(URLs) /\ Len(all) = n + m
        /\ \A i \in 1 .. n + m : all[i] = IF i <= n THEN l[i] ELSE urls[i - n]
    BY <1>1, <1>3, <1>4, ConcatProperties
  <1>6. PICK K \in Nat : K = IF n + m < MaxSkippedListed THEN n + m ELSE MaxSkippedListed
    BY CrawlAssumption
  <1>7. /\ kept \in Seq(URLs) /\ Len(kept) = K /\ \A i \in 1 .. K : kept[i] = all[i]
    <2>1. PICK M \in Nat : M = MaxSkippedListed
      BY CrawlAssumption
    <2>2. /\ kept \in Seq(URLs) /\ Len(kept) = IF Len(all) < M THEN Len(all) ELSE M
          /\ \A i \in 1 .. Len(kept) : kept[i] = all[i]
      BY <1>1, <1>5, <2>1, FirstOfType
    <2>3. Len(kept) = K
      BY <1>5, <1>6, <2>1, <2>2
    <2> QED
      BY <2>2, <2>3
  <1>8. n <= K /\ K <= n + m /\ K <= MaxSkippedListed
    BY <1>3, <1>6, CrawlAssumption, SMT
  <1>9. skips'.listed = kept /\ skips'.dropped = d + (n + m - K)
    <2>1. skips'.listed = kept /\ skips'.dropped = d + (n + m) - K
      BY <1>2, <1>3, <1>5, <1>7
    <2> QED
      BY <2>1, SMT
  <1>10. skips' \in Skips
    <2>1. n + m - K \in Nat
      BY <1>8, SMT
    <2> QED
      BY <1>2, <1>7, <1>9, <2>1 DEF Skips
  <1>11. DOMAIN l = 1 .. n /\ DOMAIN urls = 1 .. m /\ DOMAIN kept = 1 .. K
    BY <1>3, <1>4, <1>7, LenProperties
  <1>12. Skipped \subseteq Skipped'
    <2>0. Skipped = {l[i] : i \in 1 .. n} /\ Skipped' = {kept[i] : i \in 1 .. K}
      <3>1. Skipped = ToSet(l) /\ Skipped' = ToSet(kept)
        BY <1>3, <1>9 DEF Skipped
      <3> QED
        BY <1>11, <3>1, Zenon DEF ToSet
    <2> SUFFICES ASSUME NEW i \in 1 .. n PROVE \E j \in 1 .. K : l[i] = kept[j]
      BY <2>0
    <2>1. i \in 1 .. K /\ i \in 1 .. (n + m) /\ i <= n
      BY <1>8, SMT
    <2>2. all[i] = l[i]
      BY <1>5, <2>1
    <2>3. kept[i] = all[i]
      BY <1>7, <2>1
    <2> QED
      BY <2>1, <2>2, <2>3
  <1> DEFINE Rest == (K + 1) .. (n + m)
             D == {all[i] : i \in Rest}
  <1>13. D \in SUBSET URLs
    <2>1. Rest \subseteq 1 .. (n + m)
      BY SMT
    <2> QED
      BY <1>5, <2>1, ElementOfSeq
  <1>14. IsFiniteSet(Rest) /\ Cardinality(Rest) = n + m - K
    <2>1. IsFiniteSet(Rest) /\ Cardinality(Rest) = IF K + 1 > n + m THEN 0 ELSE n + m - (K + 1) + 1
      <3>1. K + 1 \in Int /\ n + m \in Int
        BY SMT
      <3> QED
        BY <3>1, FS_Interval
    <2> QED
      BY <1>8, <2>1, SMT
  <1>15. IsFiniteSet(D) /\ Cardinality(D) <= n + m - K
    <2> DEFINE g == [i \in Rest |-> all[i]]
    <2>1. g \in Surjection(Rest, D)
      BY DEF Surjection
    <2> HIDE DEF g, D, Rest
    <2> QED
      BY <1>14, <2>1, FS_Surjection
  <1>16. ToSet(urls) \subseteq Skipped' \cup D
    <2> SUFFICES ASSUME NEW i \in 1 .. m PROVE urls[i] \in Skipped' \cup D
      BY <1>11 DEF ToSet
    <2>1. n + i \in 1 .. (n + m) /\ ~(n + i <= n) /\ (n + i) - n = i
      BY SMT
    <2>2. all[n + i] = urls[i]
      BY <1>5, <2>1
    <2>3. n + i \in 1 .. K \/ n + i \in Rest
      BY <2>1, SMT
    <2> QED
      BY <1>7, <1>9, <1>11, <2>2, <2>3 DEF Skipped, ToSet
  <1>17. skips.dropped + Cardinality(D) <= skips'.dropped
    <2>1. PICK k \in Nat : k = Cardinality(D)
      BY <1>15, FS_CardinalityType
    <2> HIDE DEF D
    <2> QED
      BY <1>3, <1>8, <1>9, <1>15, <2>1, SMT
  <1> HIDE DEF D
  <1> QED
    BY <1>7, <1>8, <1>9, <1>10, <1>12, <1>13, <1>15, <1>16, <1>17

-----------------------------------------------------------------------------
(* The URLs the skip count is about: queued or reached, not pending, and   *)
(* neither read nor listed.                                                *)
Missing ==
    {u \in frontier.enqueued \cup visited :
        /\ ~Accounted(u) /\ u \notin UrlsIn(batch)
        /\ u \in visited \/ u \notin UrlsIn(frontier.queue)}
Lost == {EndOf(u) : u \in Missing}

Counted == IsFiniteSet(Lost) /\ Cardinality(Lost) <= skips.dropped

(* What is lost more is covered by what the count grows by.                *)
LEMMA CountedStep ==
  ASSUME skips \in Skips, Counted, skips'.dropped \in Nat, NEW D, IsFiniteSet(D), Lost' \subseteq Lost \cup D,
         skips.dropped + Cardinality(D) <= skips'.dropped
  PROVE  Counted'
  <1>1. /\ IsFiniteSet(Lost \cup D)
        /\ Cardinality(Lost \cup D) = Cardinality(Lost) + Cardinality(D) - Cardinality(Lost \cap D)
    BY FS_Union DEF Counted
  <1>2. IsFiniteSet(Lost') /\ Cardinality(Lost') <= Cardinality(Lost \cup D)
    <2>1. Lost' \in SUBSET (Lost \cup D)
      OBVIOUS
    <2> QED
      BY <1>1, <2>1, FS_Subset
  <1>3. IsFiniteSet(Lost \cap D)
    <2>1. Lost \cap D \in SUBSET D
      OBVIOUS
    <2> QED
      BY <2>1, FS_Subset
  <1>4. PICK a \in Nat, b \in Nat, c \in Nat, d \in Nat, e \in Nat :
          /\ a = Cardinality(Lost) /\ b = Cardinality(D) /\ c = Cardinality(Lost \cap D)
          /\ d = Cardinality(Lost') /\ e = Cardinality(Lost \cup D)
    BY <1>1, <1>2, <1>3, FS_CardinalityType DEF Counted
  <1>5. PICK s \in Nat, t \in Nat : s = skips.dropped /\ t = skips'.dropped
    BY DEF Skips
  <1>6. a <= s /\ s + b <= t /\ e = a + b - c /\ d <= e
    BY <1>1, <1>2, <1>4, <1>5 DEF Counted
  <1>7. d <= t
    BY <1>6, SMT
  <1>8. Cardinality(Lost') <= skips'.dropped
    BY <1>4, <1>5, <1>7
  <1> QED
    BY <1>2, <1>8 DEF Counted

(* Nothing more is lost.                                                   *)
LEMMA NoneLost ==
  ASSUME skips \in Skips, Counted, UNCHANGED skips, Lost' \subseteq Lost
  PROVE  Counted'
  <1>1. Lost' \in SUBSET Lost
    OBVIOUS
  <1>2. IsFiniteSet(Lost') /\ Cardinality(Lost') <= Cardinality(Lost)
    BY <1>1, FS_Subset DEF Counted
  <1>3. PICK a \in Nat, b \in Nat, s \in Nat : a = Cardinality(Lost) /\ b = Cardinality(Lost') /\ s = skips.dropped
    BY <1>2, FS_CardinalityType DEF Counted, Skips
  <1>4. b <= s
    BY <1>2, <1>3, SMT DEF Counted
  <1> QED
    BY <1>2, <1>3, <1>4 DEF Counted

-----------------------------------------------------------------------------
(* The invariant of the frontier loop, in parts.                           *)
Typed ==
    /\ slots \in {1, MaxConcurrentFetches} /\ sitemap \in Seq(URLs)
    /\ frontier \in Fronts /\ visited \subseteq URLs /\ batch \in Seq(Items)
    /\ final \in [URLs -> URLs \cup {Nil}] /\ pages \in Seq(Records)
    /\ bytes \in Nat /\ bytes <= MaxResultBytes
    /\ skips \in Skips /\ Len(skips.listed) <= MaxSkippedListed

(* The pages, and the slots that may become one, are within the limit.     *)
Limited == Len(pages) + Cardinality(UrlsIn(batch) \ Disallowed) <= MaxUrls

(* A URL is claimed once, is reached when it is claimed or read, and has   *)
(* led somewhere only after its slot.                                      *)
Claimed ==
    /\ Distinct(pages) /\ Distinct(batch)
    /\ UrlsIn(batch) \cap UrlsIn(pages) = {} /\ UrlsIn(batch) \cup UrlsIn(pages) \subseteq visited
    /\ \A u \in URLs : final[u] # Nil => u \in visited \ UrlsIn(batch)

(* A batch is empty between two rounds, and nothing is queued before.      *)
Phased ==
    /\ pc \in {"resolve", "robots", "loop", "settle"} => batch = <<>>
    /\ pc \in {"resolve", "robots"} =>
          visited = {} /\ pages = <<>> /\ frontier.queue = <<>> /\ frontier.enqueued = {}

(* A link in scope was queued, or reached, unless the queue was full.      *)
Linked ==
    frontier.full = FALSE =>
        \A r \in ToSet(pages), u \in URLs :
            u \in ToSet(r.links) /\ u \in InScope => u \in frontier.enqueued \cup visited

(* What waits is in the order of its depth and spans two levels; no page   *)
(* is below it, none that links to it is more than one level above; and    *)
(* what was queued and not reached still waits.                            *)
Pending == ToSet(batch) \cup ToSet(frontier.queue)

Levelled ==
    /\ Sorted(batch) /\ Sorted(frontier.queue)
    /\ \A p \in ToSet(batch), q \in ToSet(frontier.queue) : p.depth <= q.depth
    /\ \A p, q \in Pending : q.depth <= p.depth + 1
    /\ \A r \in ToSet(pages), p \in Pending : r.depth <= p.depth
    /\ frontier.full = FALSE =>
          \A r \in ToSet(pages), p \in Pending : p.url \in ToSet(r.links) => p.depth <= r.depth + 1
    /\ Pending = {} \/ \A u \in frontier.enqueued : u \in visited \/ u \in UrlsIn(frontier.queue)

Shortest ==
    frontier.full = FALSE =>
        \A r, s \in ToSet(pages) :
            r.url \in InScope /\ r.url \in ToSet(s.links) => r.depth <= s.depth + 1

-----------------------------------------------------------------------------
(* The URLs of a list are those of its elements.                           *)
LEMMA UrlsOfElements == \A s : UrlsIn(s) = {p.url : p \in ToSet(s)}
  BY DEF UrlsIn, ToSet

(* Depths are numbers.                                                     *)
LEMMA Depths ==
  ASSUME Typed
  PROVE  /\ \A p \in Pending : p \in Items /\ p.depth \in Nat /\ p.url \in URLs
         /\ \A r \in ToSet(pages) : r \in Records /\ r.depth \in Nat /\ r.url \in URLs /\ r.links \in Seq(URLs)
  <1>1. ToSet(batch) \subseteq Items /\ ToSet(frontier.queue) \subseteq Items /\ ToSet(pages) \subseteq Records
    BY ItemsOf DEF Typed, Fronts
  <1> QED
    BY <1>1 DEF Pending, Items, Records

(* What a fetch brings is typed.                                           *)
LEMMA FetchedType ==
  ASSUME NEW url \in URLs, NEW f \in Fetched(url)
  PROVE  f.url \in URLs /\ (f.html => f.links \in Seq(URLs) /\ f.size \in Nat \ {0})
  <1>1. PICK u \in EndsAt[url] :
          f \in {[url |-> u, html |-> FALSE]} \cup [url : {u}, html : {TRUE}, links : LinkLists[u], size : Sizes]
    BY Zenon DEF Fetched
  <1>2. u \in URLs
    BY CrawlAssumption
  <1>3. CASE f = [url |-> u, html |-> FALSE]
    BY <1>2, <1>3
  <1>4. CASE f \in [url : {u}, html : {TRUE}, links : LinkLists[u], size : Sizes]
    BY <1>2, <1>4, CrawlAssumption
  <1> QED
    BY <1>1, <1>3, <1>4

-----------------------------------------------------------------------------
(* A step that reads nothing and only takes from what waits.               *)
LEMMA ShrinkKeeps ==
  ASSUME Typed, Linked, Levelled, Shortest, UNCHANGED pages,
         frontier'.enqueued = frontier.enqueued, frontier'.full = frontier.full, visited \subseteq visited',
         \/ batch # <<>> /\ batch' = Tail(batch) /\ frontier'.queue = frontier.queue
         \/ batch' = batch /\ frontier'.queue = frontier.queue
         \/ batch' = <<>> /\ frontier'.queue = <<>>
  PROVE  Linked' /\ Levelled' /\ Shortest'
  <1>1. Linked'
    BY DEF Linked
  <1>2. Shortest'
    BY DEF Shortest
  <1>3. /\ Sorted(batch') /\ ToSet(batch') \subseteq ToSet(batch)
        /\ Sorted(frontier'.queue) /\ ToSet(frontier'.queue) \subseteq ToSet(frontier.queue)
    <2>0. Sorted(batch) /\ Sorted(frontier.queue) /\ batch \in Seq(Items)
      BY DEF Typed, Levelled
    <2>1. /\ Sorted(<<>>) /\ ToSet(<<>>) \subseteq ToSet(batch) /\ ToSet(<<>>) \subseteq ToSet(frontier.queue)
      BY NoItems
    <2>2. batch # <<>> => Sorted(Tail(batch)) /\ ToSet(Tail(batch)) \subseteq ToSet(batch)
      BY <2>0, TailItems
    <2> QED
      BY <2>0, <2>1, <2>2, Zenon
  <1>4. Pending' \subseteq Pending
    BY <1>3 DEF Pending
  <1>5. Pending' = {} \/ \A u \in frontier'.enqueued : u \in visited' \/ u \in UrlsIn(frontier'.queue)
    <2>1. CASE batch' = <<>> /\ frontier'.queue = <<>>
      BY <2>1, NoItems DEF Pending
    <2>2. CASE frontier'.queue = frontier.queue
      BY <1>4, <2>2 DEF Levelled
    <2> QED
      BY <2>1, <2>2
  <1>6. Levelled'
    BY <1>3, <1>4, <1>5 DEF Levelled
  <1> QED
    BY <1>1, <1>2, <1>6

(* A claim takes the head of the queue.                                    *)
LEMMA ClaimLevels ==
  ASSUME Typed, Linked, Levelled, Shortest, UNCHANGED pages, batch = <<>>,
         NEW room \in Nat, NEW c \in Claims, ClaimInv(frontier.queue, room, Len(frontier.queue), c),
         batch' = c.batch, visited' = c.visited, frontier' = [frontier EXCEPT !.queue = c.queue]
  PROVE  Linked' /\ Levelled' /\ Shortest'
  <1>0. frontier'.enqueued = frontier.enqueued /\ frontier'.full = frontier.full /\ frontier'.queue = c.queue
    BY DEF Typed, Fronts
  <1>1. visited' = visited \cup UrlsIn(batch')
    BY DEF ClaimInv
  <1>2. Linked'
    BY <1>0, <1>1 DEF Linked
  <1>3. Shortest'
    BY <1>0 DEF Shortest
  <1>4. DOMAIN frontier.queue = 1 .. Len(frontier.queue) /\ frontier.queue \in Seq(Items)
    BY LenProperties DEF Typed, Fronts
  <1>5. ToSet(batch') \cup ToSet(c.queue) \subseteq ToSet(frontier.queue)
    <2>1. \A m \in 1 .. Len(frontier.queue) : frontier.queue[m] \in ToSet(frontier.queue)
      BY <1>4 DEF ToSet
    <2>2. \A p \in ToSet(c.batch) \cup ToSet(c.queue) : \E m \in 1 .. Len(frontier.queue) : p = frontier.queue[m]
      BY DEF ClaimInv
    <2> QED
      BY <2>1, <2>2
  <1>6. Pending' \subseteq Pending
    BY <1>0, <1>5 DEF Pending
  <1>7. /\ Sorted(batch') /\ Sorted(frontier'.queue)
        /\ \A p \in ToSet(batch'), q \in ToSet(frontier'.queue) : p.depth <= q.depth
    BY <1>0 DEF Levelled, ClaimInv
  <1>8. Pending' = {} \/ \A u \in frontier'.enqueued : u \in visited' \/ u \in UrlsIn(frontier'.queue)
    <2>1. \A u \in UrlsIn(frontier.queue) : u \in visited' \/ u \in UrlsIn(c.queue)
      BY <1>4 DEF ClaimInv, UrlsIn
    <2> QED
      BY <1>0, <1>1, <1>6, <2>1 DEF Levelled
  <1>9. Levelled'
    BY <1>0, <1>6, <1>7, <1>8 DEF Levelled
  <1> QED
    BY <1>2, <1>3, <1>9

(* A page is read: its links are queued a level below it.                  *)
LEMMA PageLevels ==
  ASSUME Typed, Linked, Levelled, Shortest, batch # <<>>,
         NEW url \in URLs, NEW links \in Seq(URLs), NEW rec \in Records,
         rec.url = url, rec.depth = Slot.depth, rec.links = links, pages' = Append(pages, rec),
         url = Slot.url \/ url \notin visited, visited' = visited \cup {url}, batch' = Tail(batch),
         frontier' \in Fronts, EnqueueInv(links, Slot.depth + 1, Len(links), frontier')
  PROVE  Linked' /\ Levelled' /\ Shortest'
  <1>1. PICK s \in Items : s = Head(batch) /\ s = Slot
    BY TailItems DEF Typed, Slot
  <1>2. PICK d \in Nat, k \in Nat : d = s.depth /\ k = d + 1 /\ k = Slot.depth + 1
    BY <1>1, SMT DEF Items
  <1>3. EnqueueInv(links, k, Len(links), frontier')
    BY <1>2
  <1>4. ToSet(batch) = {s} \cup ToSet(Tail(batch)) /\ s \in Pending /\ Sorted(Tail(batch))
    BY <1>1, TailItems DEF Typed, Levelled, Pending
  <1>5. \A p \in Pending : d <= p.depth /\ p.depth <= k
    <2>1. \A p \in ToSet(batch) : s.depth <= p.depth
      BY <1>1, TailItems DEF Typed, Levelled
    <2>2. \A p \in Pending : s.depth <= p.depth
      BY <1>4, <2>1 DEF Pending, Levelled
    <2>3. \A p \in Pending : p.depth <= s.depth + 1
      BY <1>4 DEF Levelled
    <2> QED
      BY <1>2, <2>2, <2>3
  <1>6. Sorted(frontier'.queue) /\ \A p \in ToSet(frontier'.queue) : p.depth <= k
    BY <1>3, <1>5 DEF EnqueueInv, Levelled, Pending
  <1>7. \A p \in Pending' : \/ p \in Pending
                            \/ p.depth = k /\ p.url \in InScope /\ p.url \notin visited' \cup frontier.enqueued
    BY <1>3, <1>4 DEF EnqueueInv, Pending
  <1>8. \A p \in Pending' : p.depth \in Nat /\ d <= p.depth /\ p.depth <= k
    <2>1. d <= k
      BY <1>2, SMT
    <2> QED
      BY <1>5, <1>7, <2>1, Depths
  <1>9. ToSet(pages') = ToSet(pages) \cup {rec} /\ rec.depth = d
    BY <1>1, <1>2, AppendItem DEF Typed
  <1>10. \A r \in ToSet(pages) : r.depth \in Nat /\ r.depth <= d
    BY <1>2, <1>4, Depths DEF Levelled
  <1>11. frontier'.full = FALSE => frontier.full = FALSE
    BY <1>3 DEF EnqueueInv
  <1>12. frontier.enqueued \subseteq frontier'.enqueued /\ visited \subseteq visited'
    BY <1>3 DEF EnqueueInv
  <1>13. Linked'
    <2> SUFFICES ASSUME frontier'.full = FALSE, NEW r \in ToSet(pages'), NEW u \in URLs,
                        u \in ToSet(r.links), u \in InScope
                 PROVE  u \in frontier'.enqueued \cup visited'
      BY DEF Linked
    <2>1. CASE r \in ToSet(pages)
      BY <1>11, <1>12, <2>1 DEF Linked
    <2>2. CASE r = rec
      <3>1. PICK m \in DOMAIN links : u = links[m]
        BY <2>2 DEF ToSet
      <3>2. m \in 1 .. Len(links)
        BY <3>1, LenProperties
      <3> QED
        BY <1>3, <3>1, <3>2 DEF EnqueueInv
    <2> QED
      BY <1>9, <2>1, <2>2
  <1>14. \A p \in ToSet(batch'), q \in ToSet(frontier'.queue) : p.depth <= q.depth
    <2> SUFFICES ASSUME NEW p \in ToSet(batch'), NEW q \in ToSet(frontier'.queue) PROVE p.depth <= q.depth
      OBVIOUS
    <2>1. p \in ToSet(batch) /\ p \in Pending
      BY <1>4 DEF Pending
    <2>2. CASE q \in ToSet(frontier.queue)
      BY <2>1, <2>2 DEF Levelled
    <2>3. CASE q.depth = k
      BY <1>5, <2>1, <2>3
    <2> QED
      BY <1>3, <2>2, <2>3 DEF EnqueueInv
  <1>15. \A p, q \in Pending' : q.depth <= p.depth + 1
    <2> SUFFICES ASSUME NEW p \in Pending', NEW q \in Pending' PROVE q.depth <= p.depth + 1
      OBVIOUS
    <2>1. PICK a \in Nat, b \in Nat : a = p.depth /\ b = q.depth
      BY <1>8
    <2>2. d <= a /\ b <= k
      BY <1>8, <2>1
    <2>3. b <= a + 1
      BY <1>2, <2>2, SMT
    <2> QED
      BY <2>1, <2>3
  <1>16. \A r \in ToSet(pages'), p \in Pending' : r.depth <= p.depth
    <2> SUFFICES ASSUME NEW r \in ToSet(pages'), NEW p \in Pending' PROVE r.depth <= p.depth
      OBVIOUS
    <2>1. PICK a \in Nat, b \in Nat : a = p.depth /\ b = r.depth
      BY <1>8, <1>9, <1>10
    <2>2. d <= a /\ b <= d
      BY <1>8, <1>9, <1>10, <2>1, SMT
    <2>3. b <= a
      BY <2>2, SMT
    <2> QED
      BY <2>1, <2>3
  <1>17. ASSUME frontier'.full = FALSE, NEW r \in ToSet(pages'), NEW p \in Pending', p.url \in ToSet(r.links)
         PROVE  p.depth <= r.depth + 1
    <2>1. CASE r = rec
      <3>1. p.depth <= d + 1
        BY <1>2, <1>8
      <3> QED
        BY <1>9, <2>1, <3>1
    <2>2. CASE r \in ToSet(pages) /\ p \in Pending
      BY <1>11, <1>17, <2>2 DEF Levelled
    <2>3. CASE r \in ToSet(pages) /\ p.url \in InScope /\ p.url \notin visited' \cup frontier.enqueued
      <3>1. p.url \in URLs
        BY <2>3, CrawlAssumption
      <3> QED
        BY <1>11, <1>12, <1>17, <2>3, <3>1 DEF Linked
    <2> QED
      BY <1>7, <1>9, <2>1, <2>2, <2>3
  <1>18. \A u \in frontier'.enqueued : u \in visited' \/ u \in UrlsIn(frontier'.queue)
    <2>1. \A u \in UrlsIn(frontier.queue) : u \in UrlsIn(frontier'.queue)
      BY <1>3, UrlsOfElements DEF EnqueueInv
    <2>2. \A u \in frontier.enqueued : u \in visited \/ u \in UrlsIn(frontier.queue)
      BY <1>4 DEF Levelled
    <2> QED
      BY <1>3, <1>12, <2>1, <2>2 DEF EnqueueInv
  <1>19. Levelled'
    BY <1>4, <1>6, <1>14, <1>15, <1>16, <1>17, <1>18 DEF Levelled
  <1>20. Shortest'
    <2> SUFFICES ASSUME frontier'.full = FALSE, NEW r \in ToSet(pages'), NEW t \in ToSet(pages'),
                        r.url \in InScope, r.url \in ToSet(t.links)
                 PROVE  r.depth <= t.depth + 1
      BY DEF Shortest
    <2>1. CASE r \in ToSet(pages) /\ t \in ToSet(pages)
      BY <1>11, <2>1 DEF Shortest
    <2>2. CASE t = rec
      <3>1. PICK b \in Nat : b = r.depth
        BY <1>9, <1>10
      <3>2. b <= d
        BY <1>9, <1>10, <3>1, SMT
      <3>3. b <= d + 1
        BY <3>2, SMT
      <3> QED
        BY <1>9, <2>2, <3>1, <3>3
    <2>3. CASE r = rec /\ t \in ToSet(pages)
      <3>1. PICK q \in Pending : q.url = url
        <4>1. CASE url = Slot.url
          BY <1>1, <1>4, <4>1
        <4>2. CASE url \notin visited
          <5>1. url \in frontier.enqueued
            BY <1>11, <2>3, <4>2 DEF Linked
          <5>2. url \in UrlsIn(frontier.queue)
            BY <1>4, <4>2, <5>1 DEF Levelled
          <5> QED
            BY <5>2, UrlsOfElements DEF Pending
        <4> QED
          BY <4>1, <4>2
      <3>2. q.depth <= t.depth + 1
        BY <1>11, <2>3, <3>1 DEF Levelled
      <3>3. PICK a \in Nat, b \in Nat : a = q.depth /\ b = t.depth
        BY <2>3, Depths
      <3>4. d <= a /\ a <= b + 1
        BY <1>5, <3>2, <3>3
      <3>5. d <= b + 1
        BY <3>4, SMT
      <3> QED
        BY <1>9, <2>3, <3>3, <3>5
    <2> QED
      BY <1>9, <2>1, <2>2, <2>3
  <1> QED
    BY <1>13, <1>19, <1>20

-----------------------------------------------------------------------------
(* The slot that is committed.                                             *)
LEMMA SlotFacts ==
  ASSUME Typed, Claimed, batch # <<>>
  PROVE  /\ Slot \in Items /\ Slot.url \in URLs /\ Tail(batch) \in Seq(Items) /\ Distinct(Tail(batch))
         /\ UrlsIn(batch) = {Slot.url} \cup UrlsIn(Tail(batch)) /\ Slot.url \notin UrlsIn(Tail(batch))
         /\ Slot.url \in visited /\ final[Slot.url] = Nil /\ Slot.url \notin UrlsIn(pages)
  <1>1. batch \in Seq(Items) /\ Distinct(batch)
    BY DEF Typed, Claimed
  <1>2. /\ Slot \in Items /\ Tail(batch) \in Seq(Items) /\ Distinct(Tail(batch))
        /\ UrlsIn(batch) = {Slot.url} \cup UrlsIn(Tail(batch)) /\ Slot.url \notin UrlsIn(Tail(batch))
    BY <1>1, TailItems DEF Slot
  <1>3. Slot.url \in URLs
    BY <1>2 DEF Items
  <1> QED
    BY <1>2, <1>3 DEF Claimed

(* The slots left, and the page that may be read, are within the limit.    *)
LEMMA SlotLimit ==
  ASSUME Typed, Claimed, Limited, batch # <<>>
  PROVE  /\ Len(pages) + Cardinality(UrlsIn(Tail(batch)) \ Disallowed) <= MaxUrls
         /\ Slot.url \notin Disallowed =>
               Len(pages) + 1 + Cardinality(UrlsIn(Tail(batch)) \ Disallowed) <= MaxUrls
         /\ Len(pages) + Cardinality(UrlsIn(<<>>) \ Disallowed) <= MaxUrls
  <1>1. PICK S, T : S = UrlsIn(batch) \ Disallowed /\ T = UrlsIn(Tail(batch)) \ Disallowed
    OBVIOUS
  <1>2. IsFiniteSet(S) /\ IsFiniteSet(T)
    BY <1>1, SlotFacts, UrlsFinite DEF Typed
  <1>3. /\ T \in SUBSET S /\ S \subseteq T \cup {Slot.url}
        /\ (Slot.url \notin Disallowed => S = T \cup {Slot.url} /\ Slot.url \notin T)
    BY <1>1, SlotFacts
  <1>4. PICK l \in Nat, m \in Nat, n \in Nat, M \in Nat :
          l = Len(pages) /\ m = Cardinality(S) /\ n = Cardinality(T) /\ M = MaxUrls
    BY <1>2, FS_CardinalityType, LenProperties, CrawlAssumption DEF Typed
  <1>5. l + m <= M
    BY <1>1, <1>4 DEF Limited
  <1>6. n <= m
    BY <1>2, <1>3, <1>4, FS_Subset
  <1>7. Slot.url \notin Disallowed => m = n + 1
    BY <1>2, <1>3, <1>4, FS_AddElement
  <1>8. Cardinality(UrlsIn(<<>>) \ Disallowed) = 0
    <2>1. UrlsIn(<<>>) \ Disallowed = {}
      BY NoItems
    <2> QED
      BY <2>1, FS_EmptySet
  <1>9. l + n <= M /\ (m = n + 1 => l + 1 + n <= M) /\ l + 0 <= M
    BY <1>5, <1>6, SMT
  <1> QED
    BY <1>1, <1>4, <1>7, <1>8, <1>9

(* A committed slot: what is claimed stays so, and a page it reads is new. *)
LEMMA CommitClaims ==
  ASSUME Typed, Claimed, batch # <<>>, batch' = Tail(batch) \/ batch' = <<>>,
         visited \subseteq visited', \A u \in URLs : u # Slot.url => final'[u] = final[u],
         \/ UNCHANGED pages
         \/ \E rec \in Records : /\ pages' = Append(pages, rec) /\ rec.url \in visited'
                                 /\ rec.url = Slot.url \/ rec.url \notin visited
  PROVE  Claimed'
  <1>1. /\ batch' \in Seq(Items) /\ Distinct(batch')
        /\ UrlsIn(batch') \subseteq UrlsIn(batch) /\ Slot.url \notin UrlsIn(batch')
    <2>1. CASE batch' = Tail(batch)
      BY <2>1, SlotFacts
    <2>2. CASE batch' = <<>>
      <3>1. /\ <<>> \in Seq(Items) /\ Distinct(<<>>) /\ UrlsIn(<<>>) \subseteq UrlsIn(batch)
            /\ Slot.url \notin UrlsIn(<<>>)
        BY NoItems
      <3> QED
        BY <2>2, <3>1, Zenon
    <2> QED
      BY <2>1, <2>2
  <1>2. \A u \in URLs : final'[u] # Nil => u \in visited' \ UrlsIn(batch')
    BY <1>1, SlotFacts DEF Claimed
  <1>3. CASE UNCHANGED pages
    BY <1>1, <1>2, <1>3 DEF Claimed
  <1>4. ASSUME NEW rec \in Records, pages' = Append(pages, rec), rec.url \in visited',
               rec.url = Slot.url \/ rec.url \notin visited
        PROVE  Claimed'
    <2>1. rec.url \notin UrlsIn(pages) /\ rec.url \notin UrlsIn(batch')
      BY <1>1, <1>4, SlotFacts DEF Claimed
    <2>2. UrlsIn(pages') = UrlsIn(pages) \cup {rec.url}
      BY <1>4, AppendItem DEF Typed
    <2>3. Distinct(pages')
      BY <1>4, <2>1, AppendKeepsDistinct DEF Typed, Claimed
    <2> QED
      BY <1>1, <1>2, <1>4, <2>1, <2>2, <2>3 DEF Claimed
  <1> QED
    BY <1>3, <1>4

(* The claim phase stays within the limit and claims new URLs only.        *)
LEMMA ClaimClaims ==
  ASSUME Typed, Claimed, batch = <<>>, NEW room \in Nat, room <= MaxUrls - Len(pages),
         NEW c \in Claims, ClaimInv(frontier.queue, room, Len(frontier.queue), c),
         batch' = c.batch, visited' = c.visited, UNCHANGED <<pages, final>>
  PROVE  Claimed' /\ Limited'
  <1>1. /\ visited' = visited \cup UrlsIn(batch') /\ visited \cap UrlsIn(batch') = {} /\ Distinct(batch')
        /\ c.room + Cardinality(UrlsIn(batch') \ Disallowed) = room
    BY DEF ClaimInv
  <1>2. Claimed'
    BY <1>1 DEF Claimed
  <1>3. batch' \in Seq(Items)
    BY DEF Claims
  <1>4. PICK k \in Nat, l \in Nat, a \in Nat, M \in Nat :
          k = Cardinality(UrlsIn(batch') \ Disallowed) /\ l = Len(pages) /\ a = c.room /\ M = MaxUrls
    BY <1>3, UrlsFinite, LenProperties, CrawlAssumption DEF Typed, Claims
  <1>5. l + k <= M
    BY <1>1, <1>4, SMT
  <1> QED
    BY <1>2, <1>4, <1>5 DEF Limited

-----------------------------------------------------------------------------
(* What is read or listed stays so.                                        *)
LEMMA AccountedStays ==
  ASSUME NEW u, Accounted(u), Read \subseteq Read', Skipped \subseteq Skipped', final'[u] = final[u]
  PROVE  Accounted(u)'
  BY DEF Accounted

(* The URLs a step that moves x may lose: the others were lost before.     *)
Exposed(u, x) ==
    \/ u = x \/ u \notin frontier.enqueued \cup visited \/ u \in UrlsIn(batch)
    \/ u \notin visited /\ u \in UrlsIn(frontier.queue)

(* What a step adds to the lost URLs.                                      *)
LEMMA LostGrows ==
  ASSUME Typed, Typed', NEW x, NEW D, Read \subseteq Read', Skipped \subseteq Skipped',
         \A u \in URLs : u # x => final'[u] = final[u],
         \A u \in Missing' : Exposed(u, x) => EndOf(u)' \in D
  PROVE  Lost' \subseteq Lost \cup D
  <1> SUFFICES ASSUME NEW u \in Missing' PROVE EndOf(u)' \in Lost \cup D
    BY Zenon DEF Lost
  <1>1. u \in URLs
    BY DEF Missing, Typed, Fronts
  <1>2. CASE u = x \/ u \notin Missing
    <2>1. CASE u = x
      BY <2>1 DEF Exposed
    <2>2. CASE u # x /\ u \notin Missing
      <3>1. ~Accounted(u)
        BY <1>1, <2>2, AccountedStays, Zenon DEF Missing
      <3>2. Exposed(u, x)
        BY <2>2, <3>1, Zenon DEF Missing, Exposed
      <3> QED
        BY <3>2
    <2> QED
      BY <1>2, <2>1, <2>2
  <1>3. CASE u # x /\ u \in Missing
    <2>1. EndOf(u)' = EndOf(u)
      BY <1>1, <1>3 DEF EndOf
    <2> QED
      BY <1>3, <2>1 DEF Lost
  <1> QED
    BY <1>2, <1>3

(* The URLs of a list of items, as a list.                                 *)
LEMMA UrlsOfType ==
  ASSUME NEW s \in Seq(Items)
  PROVE  UrlsOf(s) \in Seq(URLs) /\ ToSet(UrlsOf(s)) = UrlsIn(s)
  <1>1. Len(s) \in Nat /\ DOMAIN s = 1 .. Len(s) /\ \A i \in 1 .. Len(s) : s[i] \in Items
    BY LenProperties, ElementOfSeq
  <1>2. UrlsOf(s) \in [1 .. Len(s) -> URLs]
    BY <1>1 DEF UrlsOf, Items
  <1>3. UrlsOf(s) \in Seq(URLs)
    BY <1>1, <1>2, SeqDef
  <1>4. ToSet(UrlsOf(s)) = UrlsIn(s)
    BY DEF UrlsOf, UrlsIn, ToSet
  <1> QED
    BY <1>3, <1>4

(* The elements of two lists, one after the other.                         *)
LEMMA ConcatSet ==
  ASSUME NEW S, NEW s \in Seq(S), NEW t \in Seq(S)
  PROVE  s \o t \in Seq(S) /\ ToSet(s) \subseteq ToSet(s \o t) /\ ToSet(t) \subseteq ToSet(s \o t)
  <1>1. PICK m \in Nat, n \in Nat : m = Len(s) /\ n = Len(t)
    BY LenProperties
  <1>2. /\ s \o t \in Seq(S) /\ Len(s \o t) = m + n
        /\ \A i \in 1 .. m + n : (s \o t)[i] = IF i <= m THEN s[i] ELSE t[i - m]
    BY <1>1, ConcatProperties
  <1>3. DOMAIN s = 1 .. m /\ DOMAIN t = 1 .. n /\ DOMAIN (s \o t) = 1 .. (m + n)
    BY <1>1, <1>2, LenProperties
  <1>4. ASSUME NEW i \in 1 .. m PROVE i \in DOMAIN (s \o t) /\ (s \o t)[i] = s[i]
    <2>1. i \in 1 .. (m + n) /\ i <= m
      BY SMT
    <2> QED
      BY <1>2, <1>3, <2>1
  <1>5. ASSUME NEW i \in 1 .. n PROVE m + i \in DOMAIN (s \o t) /\ (s \o t)[m + i] = t[i]
    <2>1. m + i \in 1 .. (m + n) /\ ~(m + i <= m) /\ (m + i) - m = i
      BY SMT
    <2> QED
      BY <1>2, <1>3, <2>1
  <1>6. ToSet(s) \subseteq ToSet(s \o t)
    BY <1>3, <1>4 DEF ToSet
  <1>7. ToSet(t) \subseteq ToSet(s \o t)
    BY <1>3, <1>5 DEF ToSet
  <1> QED
    BY <1>2, <1>6, <1>7

-----------------------------------------------------------------------------
(* A slot without a page: skipped alone, or with all that waits.           *)
LEMMA NoPageKeeps ==
  ASSUME Typed, Limited, Claimed, Linked, Levelled, Shortest, batch # <<>>,
         NEW urls \in Seq(URLs), AddSkips(urls), UNCHANGED <<slots, sitemap, pages, bytes>>,
         \/ batch' = Tail(batch) /\ frontier' = frontier
         \/ batch' = <<>> /\ frontier' = [frontier EXCEPT !.queue = <<>>],
         visited \subseteq visited', visited' \subseteq URLs,
         final' \in [URLs -> URLs \cup {Nil}], \A u \in URLs : u # Slot.url => final'[u] = final[u]
  PROVE  Typed' /\ Limited' /\ Claimed' /\ Linked' /\ Levelled' /\ Shortest'
  <1>1. /\ frontier' \in Fronts /\ frontier'.enqueued = frontier.enqueued /\ frontier'.full = frontier.full
        /\ \/ batch' = Tail(batch) /\ frontier'.queue = frontier.queue
           \/ batch' = <<>> /\ frontier'.queue = <<>>
    BY NoItems DEF Typed, Fronts
  <1>2. batch' \in Seq(Items)
    BY NoItems, SlotFacts
  <1>3. Typed'
    BY <1>1, <1>2, SkipsAdd DEF Typed
  <1>4. Limited'
    <2>1. batch' = Tail(batch) \/ batch' = <<>>
      OBVIOUS
    <2>2. CASE batch' = Tail(batch)
      BY <2>2, SlotLimit, Zenon DEF Limited
    <2>3. CASE batch' = <<>>
      BY <2>3, SlotLimit, Zenon DEF Limited
    <2> QED
      BY <2>1, <2>2, <2>3
  <1>5. Claimed'
    BY <1>1, CommitClaims
  <1>6. Linked' /\ Levelled' /\ Shortest'
    BY <1>1, ShrinkKeeps
  <1> QED
    BY <1>3, <1>4, <1>5, <1>6

(* The skipped URLs cover what such a slot loses.                          *)
LEMMA SkipsCount ==
  ASSUME Typed, Typed', Claimed, Counted, batch # <<>>, NEW urls \in Seq(URLs), AddSkips(urls),
         UNCHANGED pages, frontier'.enqueued = frontier.enqueued,
         \/ batch' = Tail(batch) /\ frontier'.queue = frontier.queue
         \/ batch' = <<>> /\ UrlsIn(Tail(batch)) \cup UrlsIn(frontier.queue) \subseteq ToSet(urls),
         \A u \in URLs : u # Slot.url => final'[u] = final[u],
         \/ Slot.url \in ToSet(urls) /\ visited' = visited /\ final'[Slot.url] = Nil
         \/ \E y \in ToSet(urls) : visited' = visited \cup {y} /\ final'[Slot.url] = y
  PROVE  Counted'
  <1>1. PICK x \in URLs : x = Slot.url
    BY SlotFacts
  <1>2. Skipped \subseteq Skipped' /\ Read = Read' /\ skips'.dropped \in Nat /\ skips \in Skips
    BY SkipsAdd DEF Typed, Read, Skips
  <1>3. PICK D \in SUBSET URLs : /\ IsFiniteSet(D) /\ ToSet(urls) \subseteq Skipped' \cup D
                                 /\ skips.dropped + Cardinality(D) <= skips'.dropped
    BY SkipsAdd DEF Typed
  <1>4. ToSet(urls) \subseteq URLs /\ Nil \notin URLs
    BY ItemsOf, CrawlAssumption
  <1>5. ASSUME NEW u \in Missing', Exposed(u, x) PROVE EndOf(u)' \in D
    <2>1. u \in URLs /\ u \notin Read' \cup Skipped' /\ ~(final'[u] # Nil /\ final'[u] \in Read' \cup Skipped')
      BY DEF Missing, Accounted, Typed, Fronts
    <2>2. CASE u = x
      <3>1. CASE x \in ToSet(urls) /\ final'[x] = Nil
        BY <1>3, <2>1, <2>2, <3>1 DEF EndOf
      <3>2. ASSUME NEW y \in ToSet(urls), final'[x] = y PROVE EndOf(u)' \in D
        <4>1. y # Nil /\ y \in D
          BY <1>3, <1>4, <2>1, <2>2, <3>2
        <4> QED
          BY <2>2, <3>2, <4>1 DEF EndOf
      <3> QED
        BY <1>1, <3>1, <3>2
    <2>3. CASE u # x
      <3>1. /\ u \in frontier.enqueued \cup visited' /\ u \notin UrlsIn(batch')
            /\ (u \in visited' \/ u \notin UrlsIn(frontier'.queue))
        BY DEF Missing
      <3>2. u \in UrlsIn(batch) => u \in UrlsIn(Tail(batch))
        BY <1>1, <2>3, SlotFacts
      <3>3. u \in visited' => u \in visited \/ u \in ToSet(urls)
        OBVIOUS
      <3>4. u \in ToSet(urls)
        BY <1>5, <2>3, <3>1, <3>2, <3>3 DEF Exposed
      <3>5. u \notin visited \/ u \in UrlsIn(batch)
        BY <1>5, <2>3 DEF Exposed
      <3>6. final'[u] = Nil
        BY <1>1, <2>1, <2>3, <3>5 DEF Claimed
      <3> QED
        BY <1>3, <2>1, <3>4, <3>6 DEF EndOf
    <2> QED
      BY <2>2, <2>3
  <1>6. Lost' \subseteq Lost \cup D
    BY <1>1, <1>2, <1>5, LostGrows
  <1> QED
    BY <1>2, <1>3, <1>6, CountedStep

(* A redirect onto a URL reached before: the slot's URL is skipped, and    *)
(* what is lost, if anything, is where it led.                             *)
LEMMA RedirectCounts ==
  ASSUME Typed, Typed', Claimed, Counted, batch # <<>>, AddSkips(<<Slot.url>>), NEW y \in URLs,
         UNCHANGED <<pages, visited, frontier>>, batch' = Tail(batch),
         final' = [final EXCEPT ![Slot.url] = y]
  PROVE  Counted'
  <1>1. PICK x \in URLs : x = Slot.url
    BY SlotFacts
  <1>0. <<x>> \in Seq(URLs) /\ x \in ToSet(<<x>>)
    BY DEF ToSet
  <1>2. Skipped \subseteq Skipped' /\ Read = Read' /\ skips'.dropped \in Nat /\ skips \in Skips
    <2>1. skips' \in Skips /\ Skipped \subseteq Skipped'
      BY <1>0, <1>1, SkipsAdd DEF Typed
    <2> QED
      BY <2>1 DEF Typed, Read, Skips
  <1>3. PICK D \in SUBSET URLs : /\ IsFiniteSet(D) /\ ToSet(<<x>>) \subseteq Skipped' \cup D
                                 /\ skips.dropped + Cardinality(D) <= skips'.dropped
    BY <1>0, <1>1, SkipsAdd DEF Typed
  <1>4. final'[x] = y /\ y # Nil /\ \A u \in URLs : u # x => final'[u] = final[u]
    BY <1>1, CrawlAssumption DEF Typed
  <1> DEFINE E == IF x \in D THEN {y} ELSE {}
  <1>5. IsFiniteSet(E) /\ skips.dropped + Cardinality(E) <= skips'.dropped
    <2>1. PICK s \in Nat, t \in Nat, k \in Nat : s = skips.dropped /\ t = skips'.dropped /\ k = Cardinality(D)
      BY <1>2, <1>3, FS_CardinalityType DEF Skips
    <2>2. CASE x \in D
      <3>1. E = {y} /\ IsFiniteSet(E) /\ Cardinality(E) = 1
        BY <2>2, FS_Singleton
      <3>2. 1 <= k
        <4>1. {x} \in SUBSET D /\ Cardinality({x}) = 1
          BY <2>2, FS_Singleton
        <4> QED
          BY <1>3, <2>1, <4>1, FS_Subset
      <3>3. s + k <= t => s + 1 <= t
        BY <3>2, SMT
      <3> QED
        BY <1>3, <2>1, <3>1, <3>3
    <2>3. CASE x \notin D
      <3>1. E = {} /\ IsFiniteSet(E) /\ Cardinality(E) = 0
        BY <2>3, FS_EmptySet
      <3>2. s + k <= t => s + 0 <= t
        BY SMT
      <3> QED
        BY <1>3, <2>1, <3>1, <3>2
    <2> QED
      BY <2>2, <2>3
  <1>6. ASSUME NEW u \in Missing', Exposed(u, x) PROVE EndOf(u)' \in E
    <2>1. u \in URLs /\ u \notin Read' \cup Skipped'
      BY DEF Missing, Accounted, Typed, Fronts
    <2>2. CASE u = x
      <3>1. x \in D
        BY <1>0, <1>3, <2>1, <2>2
      <3> QED
        BY <1>4, <2>2, <3>1 DEF EndOf
    <2>3. CASE u # x
      <3>1. /\ u \in frontier.enqueued \cup visited /\ u \notin UrlsIn(Tail(batch))
            /\ u \in visited \/ u \notin UrlsIn(frontier.queue)
        BY DEF Missing
      <3>2. u \notin UrlsIn(batch)
        BY <1>1, <2>3, <3>1, SlotFacts
      <3> QED
        BY <1>6, <2>3, <3>1, <3>2 DEF Exposed
    <2> QED
      BY <2>2, <2>3
  <1> HIDE DEF E
  <1>7. Lost' \subseteq Lost \cup E
    BY <1>1, <1>2, <1>4, <1>6, LostGrows
  <1> QED
    BY <1>2, <1>5, <1>7, CountedStep

(* A page that is read loses nothing: its links wait.                      *)
LEMMA PageCounts ==
  ASSUME Typed, Typed', Claimed, Counted, batch # <<>>, NEW rec \in Records, NEW links, NEW k,
         pages' = Append(pages, rec), visited' = visited \cup {rec.url}, batch' = Tail(batch), UNCHANGED skips,
         final' = [final EXCEPT ![Slot.url] = rec.url], EnqueueInv(links, k, Len(links), frontier')
  PROVE  Counted'
  <1>1. PICK x \in URLs, y \in URLs : x = Slot.url /\ y = rec.url
    BY SlotFacts DEF Records
  <1>2. Skipped = Skipped' /\ Read' = Read \cup {y} /\ skips'.dropped = skips.dropped /\ skips \in Skips
    <2>1. UrlsIn(pages') = UrlsIn(pages) \cup {y}
      BY <1>1, AppendItem DEF Typed
    <2> QED
      BY <2>1 DEF Typed, Read, Skipped, UrlsIn
  <1>3. final'[x] = y /\ y # Nil /\ \A u \in URLs : u # x => final'[u] = final[u]
    BY <1>1, CrawlAssumption DEF Typed
  <1>4. ASSUME NEW u \in Missing', Exposed(u, x) PROVE EndOf(u)' \in {}
    <2>1. u \in URLs /\ u # y /\ u # x
      BY <1>2, <1>3 DEF Missing, Accounted, Typed, Fronts
    <2>2. /\ u \in frontier'.enqueued \cup visited' /\ u \notin UrlsIn(Tail(batch))
          /\ u \in visited' \/ u \notin UrlsIn(frontier'.queue)
      BY DEF Missing
    <2>3. u \notin UrlsIn(batch) /\ (u \in visited' => u \in visited)
      BY <1>1, <2>1, <2>2, SlotFacts
    <2>4. UrlsIn(frontier.queue) \subseteq UrlsIn(frontier'.queue)
      BY UrlsOfElements DEF EnqueueInv
    <2>5. u \in frontier'.enqueued => u \in frontier.enqueued \/ (u \in UrlsIn(frontier'.queue) /\ u \notin visited')
      BY DEF EnqueueInv
    <2> QED
      BY <1>4, <2>1, <2>2, <2>3, <2>4, <2>5 DEF Exposed
  <1>5. Lost' \subseteq Lost \cup {}
    BY <1>1, <1>2, <1>3, <1>4, LostGrows
  <1> QED
    BY <1>2, <1>5, NoneLost

-----------------------------------------------------------------------------
(* What every step of the frontier loop keeps.                             *)
Kept == Typed /\ Limited /\ Claimed /\ Counted /\ Linked /\ Levelled /\ Shortest

(* Steps outside the loop.                                                 *)
LEMMA SameKeeps == ASSUME Kept, UNCHANGED crawl PROVE Kept'
  <1>1. UNCHANGED <<slots, sitemap, frontier, visited, batch, pages, skips, bytes, final>>
    BY DEF crawl
  <1>2. Typed' /\ Limited' /\ Claimed'
    BY <1>1, Zenon DEF Kept, Typed, Limited, Claimed
  <1>3. Counted'
    BY <1>1, Zenon DEF Kept, Counted, Lost, Missing, EndOf, Accounted, Read, Skipped
  <1>4. Linked' /\ Levelled' /\ Shortest'
    BY <1>1, Zenon DEF Kept, Linked, Levelled, Pending, Shortest
  <1> QED
    BY <1>2, <1>3, <1>4 DEF Kept

(* Nothing is queued, read, skipped.                                       *)
LEMMA InitKept == Init => Kept /\ Phased
  <1> SUFFICES ASSUME Init PROVE Kept /\ Phased
    OBVIOUS
  <1>1. /\ frontier.queue = <<>> /\ frontier.enqueued = {} /\ frontier.full = FALSE /\ visited = {}
        /\ batch = <<>> /\ pages = <<>> /\ skips.dropped = 0 /\ skips.listed = <<>> /\ bytes = 0
        /\ final = [u \in URLs |-> Nil]
    BY DEF Init
  <1>2. UrlsIn(batch) = {} /\ ToSet(batch) = {} /\ ToSet(frontier.queue) = {} /\ ToSet(pages) = {}
    BY <1>1, NoItems
  <1>3. Len(pages) = 0 /\ Len(skips.listed) = 0
    BY <1>1
  <1>4. Typed
    <2>1. frontier \in Fronts /\ skips \in Skips
      BY NoItems DEF Init, Fronts, Skips
    <2>2. final \in [URLs -> URLs \cup {Nil}]
      BY <1>1
    <2>3. 0 <= MaxResultBytes /\ 0 <= MaxSkippedListed /\ 0 \in Nat
      BY CrawlAssumption, SMT
    <2> QED
      BY <1>1, <1>3, <2>1, <2>2, <2>3, NoItems DEF Init, Typed
  <1>5. Limited
    <2>1. {} \ Disallowed = {}
      OBVIOUS
    <2>2. 0 + 0 <= MaxUrls
      BY CrawlAssumption, SMT
    <2> QED
      BY <1>2, <1>3, <2>1, <2>2, FS_EmptySet DEF Limited
  <1>6. Claimed
    <2>1. Distinct(batch) /\ Distinct(pages) /\ UrlsIn(pages) = {}
      BY <1>1, NoItems
    <2> QED
      BY <1>1, <1>2, <2>1 DEF Claimed
  <1>7. Counted
    <2>1. Lost = {}
      BY <1>1 DEF Lost, Missing
    <2>2. 0 <= 0
      BY SMT
    <2> QED
      BY <1>1, <2>1, <2>2, FS_EmptySet DEF Counted
  <1>8. Linked /\ Levelled /\ Shortest
    BY <1>1, <1>2, NoItems DEF Linked, Levelled, Pending, Shortest
  <1>9. Phased
    BY <1>1 DEF Phased
  <1> QED
    BY <1>4, <1>5, <1>6, <1>7, <1>8, <1>9 DEF Kept

-----------------------------------------------------------------------------
(* Nothing is lost of a frontier that is new, or still empty.              *)
LEMMA NothingLost ==
  ASSUME visited' = {}, \A u \in frontier'.enqueued : u \in UrlsIn(frontier'.queue), skips'.dropped \in Nat
  PROVE  Counted'
  <1>1. Lost' = {}
    BY DEF Lost, Missing
  <1>2. 0 <= skips'.dropped
    BY SMT
  <1> QED
    BY <1>1, <1>2, FS_EmptySet DEF Counted

(* A site that cannot be reached: the homepage is skipped.                 *)
LEMMA UnreachableKeeps == ASSUME Kept, Phased, Unreachable PROVE Kept' /\ Phased'
  <1>1. /\ pc = "robots" /\ pc' = "settle" /\ AddSkips(<<Root>>)
        /\ UNCHANGED <<slots, sitemap, frontier, visited, batch, pages, bytes, final>>
    BY DEF Unreachable
  <1>2. /\ visited = {} /\ pages = <<>> /\ frontier.queue = <<>> /\ frontier.enqueued = {} /\ batch = <<>>
    BY <1>1 DEF Phased
  <1>3. skips' \in Skips /\ Len(skips'.listed) <= MaxSkippedListed
    <2>1. <<Root>> \in Seq(URLs)
      BY CrawlAssumption
    <2> QED
      BY <1>1, <2>1, SkipsAdd DEF Kept, Typed
  <1>4. Typed' /\ Limited' /\ Claimed'
    BY <1>1, <1>3, Zenon DEF Kept, Typed, Limited, Claimed
  <1>5. Counted'
    BY <1>1, <1>2, <1>3, NothingLost DEF Skips
  <1>6. Linked' /\ Levelled' /\ Shortest'
    BY <1>1, Zenon DEF Kept, Linked, Levelled, Pending, Shortest
  <1>7. Phased'
    BY <1>1, <1>2 DEF Phased
  <1> QED
    BY <1>4, <1>5, <1>6, <1>7 DEF Kept

(* The frontier starts with the seeds, all at depth 0.                     *)
LEMMA LoadSeedsKeeps == ASSUME Kept, Phased, LoadSeeds PROVE Kept' /\ Phased'
  <1>1. /\ pc = "robots" /\ pc' = "loop" /\ slots' \in {1, MaxConcurrentFetches}
        /\ UNCHANGED <<visited, batch, pages, skips, bytes, final>>
    BY DEF LoadSeeds
  <1>2. visited = {} /\ pages = <<>> /\ batch = <<>>
    BY <1>1 DEF Phased
  <1>3. sitemap' \in Seq(URLs)
    <2>1. PICK children \in SitemapReads : sitemap' = RoundRobin(ChildLists(children))
      BY DEF LoadSeeds
    <2>2. children \in Seq(Seq(URLs))
      BY CrawlAssumption
    <2> QED
      BY <2>1, <2>2, SitemapType
  <1>4. PICK s \in Seq(URLs) : s = Seeds(sitemap')
    BY <1>3, SeedsType
  <1>5. frontier' = [queue |-> [i \in DOMAIN s |-> [url |-> s[i], depth |-> 0]], enqueued |-> ToSet(s), full |-> FALSE]
    BY <1>4, Zenon DEF LoadSeeds
  <1>6. PICK Q : Q = [i \in DOMAIN s |-> [url |-> s[i], depth |-> 0]]
    OBVIOUS
  <1>7. frontier'.queue = Q /\ frontier'.enqueued = ToSet(s) /\ frontier'.full = FALSE
    BY <1>5, <1>6
  <1>8. Len(s) \in Nat /\ DOMAIN s = 1 .. Len(s) /\ \A i \in 1 .. Len(s) : s[i] \in URLs
    BY LenProperties, ElementOfSeq
  <1>9. Q \in Seq(Items)
    <2>1. Q \in [1 .. Len(s) -> Items]
      BY <1>6, <1>8 DEF Items
    <2> QED
      BY <1>8, <2>1, SeqDef
  <1>10. ToSet(s) = UrlsIn(Q) /\ ToSet(s) \subseteq URLs
    BY <1>6, <1>8 DEF ToSet, UrlsIn
  <1>11. \A p \in ToSet(Q) : p.depth = 0
    BY <1>6 DEF ToSet
  <1>12. Sorted(Q)
    <2>1. \A i \in DOMAIN Q : Q[i].depth = 0
      BY <1>6
    <2>2. 0 <= 0
      BY SMT
    <2> QED
      BY <2>1, <2>2 DEF Sorted
  <1>13. Typed'
    <2>1. frontier' \in Fronts
      BY <1>5, <1>6, <1>9, <1>10 DEF Fronts
    <2> QED
      BY <1>1, <1>3, <2>1 DEF Kept, Typed
  <1>14. Limited' /\ Claimed'
    BY <1>1, Zenon DEF Kept, Limited, Claimed
  <1>15. Counted'
    <2>1. \A u \in frontier'.enqueued : u \in UrlsIn(frontier'.queue)
      BY <1>7, <1>10
    <2> QED
      BY <1>1, <1>2, <2>1, NothingLost DEF Kept, Typed, Skips
  <1>16. pages' = <<>> /\ batch' = <<>> /\ ToSet(pages') = {} /\ ToSet(batch') = {}
    BY <1>1, <1>2, NoItems
  <1>17. Linked' /\ Shortest'
    BY <1>16 DEF Linked, Shortest
  <1>18. Levelled'
    <2>1. Pending' = ToSet(Q)
      BY <1>7, <1>16 DEF Pending
    <2>2. \A p, q \in Pending' : q.depth <= p.depth + 1
      <3>1. 0 <= 0 + 1
        BY SMT
      <3> QED
        BY <1>11, <2>1, <3>1
    <2>3. Sorted(batch') /\ Sorted(frontier'.queue)
      BY <1>7, <1>12, <1>16, NoItems
    <2> QED
      BY <1>7, <1>10, <1>16, <2>2, <2>3 DEF Levelled
  <1>19. Phased'
    BY <1>1, <1>16 DEF Phased
  <1> QED
    BY <1>13, <1>14, <1>15, <1>17, <1>18, <1>19 DEF Kept

(* The queue is drained into the skip list.                                *)
LEMMA DrainKeeps == ASSUME Kept, Phased, Drain PROVE Kept' /\ Phased'
  <1>1. /\ pc = "loop" /\ pc' = "settle" /\ AddSkips(UrlsOf(frontier.queue))
        /\ frontier' = [frontier EXCEPT !.queue = <<>>]
        /\ UNCHANGED <<slots, sitemap, visited, batch, pages, bytes, final>>
    BY DEF Drain
  <1>2. batch = <<>> /\ UrlsIn(batch) = {}
    BY <1>1, NoItems DEF Phased
  <1>3. /\ frontier' \in Fronts /\ frontier'.queue = <<>> /\ frontier'.enqueued = frontier.enqueued
        /\ frontier'.full = frontier.full
    BY <1>1, NoItems DEF Kept, Typed, Fronts
  <1>4. PICK urls \in Seq(URLs) : urls = UrlsOf(frontier.queue) /\ ToSet(urls) = UrlsIn(frontier.queue)
    BY UrlsOfType DEF Kept, Typed, Fronts
  <1>5. /\ skips' \in Skips /\ Len(skips'.listed) <= MaxSkippedListed /\ Skipped \subseteq Skipped'
        /\ \E D \in SUBSET URLs : /\ IsFiniteSet(D) /\ ToSet(urls) \subseteq Skipped' \cup D
                                  /\ skips.dropped + Cardinality(D) <= skips'.dropped
    BY <1>1, <1>4, SkipsAdd DEF Kept, Typed
  <1>6. Typed'
    BY <1>1, <1>3, <1>5 DEF Kept, Typed
  <1>7. Limited' /\ Claimed'
    BY <1>1, Zenon DEF Kept, Limited, Claimed
  <1>8. Linked' /\ Levelled' /\ Shortest'
    BY <1>1, <1>2, <1>3, ShrinkKeeps DEF Kept
  <1>9. Counted'
    <2>1. PICK D \in SUBSET URLs : /\ IsFiniteSet(D) /\ ToSet(urls) \subseteq Skipped' \cup D
                                   /\ skips.dropped + Cardinality(D) <= skips'.dropped
      BY <1>5
    <2>2. ASSUME NEW u \in Missing', Exposed(u, Nil) PROVE EndOf(u)' \in D
      <3>1. u \in URLs /\ u # Nil /\ u \in frontier.enqueued \cup visited /\ u \notin Skipped'
        BY <1>1, <1>3, <1>6, CrawlAssumption DEF Missing, Accounted, Typed, Fronts
      <3>2. u \in ToSet(urls) /\ u \notin visited
        BY <1>2, <1>4, <2>2, <3>1 DEF Exposed
      <3>3. final'[u] = Nil
        BY <1>1, <3>1, <3>2 DEF Kept, Claimed
      <3> QED
        BY <2>1, <3>1, <3>2, <3>3 DEF EndOf
    <2>3. Lost' \subseteq Lost \cup D
      <3>1. Read \subseteq Read' /\ \A u \in URLs : u # Nil => final'[u] = final[u]
        BY <1>1 DEF Read
      <3> QED
        BY <1>5, <1>6, <2>2, <3>1, LostGrows DEF Kept
    <2> QED
      BY <1>5, <2>1, <2>3, CountedStep DEF Kept, Typed, Skips
  <1>10. Phased'
    BY <1>1, <1>2 DEF Phased
  <1> QED
    BY <1>6, <1>7, <1>8, <1>9, <1>10 DEF Kept

(* The claim phase.                                                        *)
LEMMA ClaimKeeps == ASSUME Kept, Phased, Claim PROVE Kept' /\ Phased'
  <1>1. /\ pc = "loop" /\ Len(pages) < MaxUrls
        /\ batch' = ClaimBatch.batch /\ visited' = ClaimBatch.visited
        /\ frontier' = [frontier EXCEPT !.queue = ClaimBatch.queue]
        /\ UNCHANGED <<slots, sitemap, pages, skips, bytes, final>>
        /\ EndBatch
    BY DEF Claim
  <1>2. batch = <<>> /\ UrlsIn(batch) = {}
    BY <1>1, NoItems DEF Phased
  <1>3. PICK left \in Nat : left = MaxUrls - Len(pages)
    <2>1. MaxUrls \in Nat /\ Len(pages) \in Nat
      BY CrawlAssumption, LenProperties DEF Kept, Typed
    <2> QED
      BY <1>1, <2>1, SMT
  <1>4. PICK room \in Nat : room = (IF slots < left THEN slots ELSE left) /\ room <= left
    <2>1. slots \in Nat
      BY CrawlAssumption DEF Kept, Typed
    <2> QED
      BY <2>1, SMT
  <1>5. PICK c : c = ClaimBatch
    OBVIOUS
  <1>6. c = FoldLeft(ClaimItem, [room |-> room, visited |-> visited, batch |-> <<>>, queue |-> <<>>], frontier.queue)
    BY <1>3, <1>4, <1>5, Zenon DEF ClaimBatch
  <1>7. visited \subseteq URLs /\ frontier.queue \in Seq(Items)
    BY DEF Kept, Typed, Fronts
  <1>8. c \in Claims /\ ClaimInv(frontier.queue, room, Len(frontier.queue), c)
    BY <1>6, <1>7, ClaimFacts
  <1>9. batch' = c.batch /\ visited' = c.visited /\ frontier' = [frontier EXCEPT !.queue = c.queue]
    BY <1>1, <1>5
  <1>10. /\ c.queue \in Seq(Items) /\ c.batch \in Seq(Items) /\ c.visited \subseteq URLs
         /\ frontier' \in Fronts /\ frontier'.queue = c.queue /\ frontier'.enqueued = frontier.enqueued
    BY <1>8, <1>9 DEF Kept, Typed, Fronts, Claims
  <1>11. Typed'
    BY <1>1, <1>9, <1>10 DEF Kept, Typed
  <1>12. Claimed' /\ Limited'
    BY <1>1, <1>2, <1>3, <1>4, <1>8, <1>9, ClaimClaims DEF Kept
  <1>13. Linked' /\ Levelled' /\ Shortest'
    BY <1>1, <1>2, <1>8, <1>9, ClaimLevels DEF Kept
  <1>14. Counted'
    <2>1. \A u \in UrlsIn(frontier.queue) : u \in visited' \/ u \in UrlsIn(frontier'.queue)
      <3>1. DOMAIN frontier.queue = 1 .. Len(frontier.queue)
        BY <1>7, LenProperties
      <3> QED
        BY <1>8, <1>9, <1>10, <3>1 DEF ClaimInv, UrlsIn
    <2>2. visited' = visited \cup UrlsIn(batch')
      BY <1>8, <1>9 DEF ClaimInv
    <2>3. ASSUME NEW u \in Missing', Exposed(u, Nil) PROVE EndOf(u)' \in {}
      <3>1. /\ u \in URLs /\ u # Nil /\ u \in frontier.enqueued \cup visited' /\ u \notin UrlsIn(batch')
            /\ u \in visited' \/ u \notin UrlsIn(frontier'.queue)
        BY <1>10, <1>11, CrawlAssumption DEF Missing, Typed, Fronts
      <3> QED
        BY <1>2, <2>1, <2>2, <2>3, <3>1 DEF Exposed
    <2>4. Lost' \subseteq Lost \cup {}
      <3>1. Read \subseteq Read' /\ Skipped \subseteq Skipped' /\ \A u \in URLs : u # Nil => final'[u] = final[u]
        BY <1>1 DEF Read, Skipped
      <3> QED
        BY <1>11, <2>3, <3>1, LostGrows DEF Kept
    <2> QED
      BY <1>1, <2>4, NoneLost DEF Kept, Typed
  <1>15. Phased'
    BY <1>1 DEF Phased, EndBatch
  <1> QED
    BY <1>11, <1>12, <1>13, <1>14, <1>15 DEF Kept

-----------------------------------------------------------------------------
(* The slot is skipped: robots.txt, an error, a redirect onto a URL that   *)
(* was reached before, or nothing to read where it led.                    *)
LEMMA SkipKeeps ==
  ASSUME Kept, batch # <<>>,
         \/ SkipSlot
         \/ \E f \in Fetched(Slot.url) : SkipRedirect(f) \/ SkipFinal(f)
  PROVE  Kept'
  <1>0. PICK x \in URLs : x = Slot.url /\ x \in visited /\ final[x] = Nil
    BY SlotFacts DEF Kept
  <1>a. Typed /\ Limited /\ Claimed /\ Counted /\ Linked /\ Levelled /\ Shortest
    BY DEF Kept
  <1>1. ASSUME NEW e \in URLs, SlotSkipped(e), visited \subseteq visited', visited' \subseteq URLs,
               final' \in [URLs -> URLs \cup {Nil}], \A u \in URLs : u # Slot.url => final'[u] = final[u]
        PROVE  /\ Typed' /\ Limited' /\ Claimed' /\ Linked' /\ Levelled' /\ Shortest'
               /\ AddSkips(<<e>>) /\ batch' = Tail(batch) /\ UNCHANGED <<pages, frontier>>
               /\ <<e>> \in Seq(URLs) /\ ToSet(<<e>>) = {e}
    <2>1. /\ AddSkips(<<e>>) /\ batch' = Tail(batch) /\ UNCHANGED <<slots, sitemap, frontier, pages, bytes>>
      BY <1>1 DEF SlotSkipped
    <2>2. <<e>> \in Seq(URLs) /\ ToSet(<<e>>) = {e}
      BY DEF ToSet
    <2> QED
      BY <1>a, <1>1, <2>1, <2>2, NoPageKeeps
  <1>2. CASE SkipSlot
    <2>1. SlotSkipped(x) /\ UNCHANGED <<visited, final>>
      BY <1>0, <1>2 DEF SkipSlot
    <2>2. visited \subseteq visited' /\ visited' \subseteq URLs /\ final' \in [URLs -> URLs \cup {Nil}]
      BY <1>a, <2>1 DEF Typed
    <2>3. /\ Typed' /\ Limited' /\ Claimed' /\ Linked' /\ Levelled' /\ Shortest'
          /\ AddSkips(<<x>>) /\ batch' = Tail(batch) /\ UNCHANGED <<pages, frontier>>
          /\ <<x>> \in Seq(URLs) /\ ToSet(<<x>>) = {x}
      BY <1>1, <2>1, <2>2
    <2>4. Slot.url \in ToSet(<<x>>) /\ visited' = visited /\ final'[Slot.url] = Nil
      BY <1>0, <2>1, <2>3
    <2>5. Counted'
      BY <1>a, <2>1, <2>3, <2>4, SkipsCount
    <2> QED
      BY <2>3, <2>5 DEF Kept
  <1>3. ASSUME NEW f \in Fetched(Slot.url), SkipRedirect(f) PROVE Kept'
    <2>1. PICK y \in URLs : y = f.url
      BY <1>0, FetchedType
    <2>2. SlotSkipped(x) /\ final' = [final EXCEPT ![x] = y] /\ UNCHANGED visited
      BY <1>0, <1>3, <2>1 DEF SkipRedirect
    <2>3. /\ visited \subseteq visited' /\ visited' \subseteq URLs /\ final' \in [URLs -> URLs \cup {Nil}]
          /\ \A u \in URLs : u # Slot.url => final'[u] = final[u]
      BY <1>a, <1>0, <2>2 DEF Typed
    <2>4. /\ Typed' /\ Limited' /\ Claimed' /\ Linked' /\ Levelled' /\ Shortest'
          /\ AddSkips(<<x>>) /\ batch' = Tail(batch) /\ UNCHANGED <<pages, frontier>>
      BY <1>1, <2>2, <2>3
    <2>5. AddSkips(<<Slot.url>>) /\ final' = [final EXCEPT ![Slot.url] = y]
      BY <1>0, <2>2, <2>4
    <2>6. Counted'
      BY <1>a, <2>2, <2>4, <2>5, RedirectCounts
    <2> QED
      BY <2>4, <2>6 DEF Kept
  <1>4. ASSUME NEW f \in Fetched(Slot.url), SkipFinal(f) PROVE Kept'
    <2>1. PICK y \in URLs : y = f.url
      BY <1>0, FetchedType
    <2>2. SlotSkipped(y) /\ visited' = visited \cup {y} /\ final' = [final EXCEPT ![x] = y]
      BY <1>0, <1>4, <2>1 DEF SkipFinal, Reach
    <2>3. /\ visited \subseteq visited' /\ visited' \subseteq URLs /\ final' \in [URLs -> URLs \cup {Nil}]
          /\ \A u \in URLs : u # Slot.url => final'[u] = final[u]
      BY <1>a, <1>0, <2>2 DEF Typed
    <2>4. /\ Typed' /\ Limited' /\ Claimed' /\ Linked' /\ Levelled' /\ Shortest'
          /\ AddSkips(<<y>>) /\ batch' = Tail(batch) /\ UNCHANGED <<pages, frontier>>
          /\ <<y>> \in Seq(URLs) /\ ToSet(<<y>>) = {y}
      BY <1>1, <2>2, <2>3
    <2>5. y \in ToSet(<<y>>) /\ final'[Slot.url] = y
      BY <1>a, <1>0, <2>2, <2>4 DEF Typed
    <2>6. Counted'
      BY <1>a, <2>2, <2>3, <2>4, <2>5, SkipsCount
    <2> QED
      BY <2>4, <2>6 DEF Kept
  <1> QED
    BY <1>2, <1>3, <1>4

(* The page does not fit: all that waits is skipped.                       *)
LEMMA OverBudgetKeeps ==
  ASSUME Kept, batch # <<>>, NEW f \in Fetched(Slot.url), OverBudget(f) PROVE Kept'
  <1>a. Typed /\ Limited /\ Claimed /\ Counted /\ Linked /\ Levelled /\ Shortest
    BY DEF Kept
  <1>0. PICK x \in URLs, y \in URLs : x = Slot.url /\ y = f.url
    BY <1>a, SlotFacts, FetchedType
  <1>1. PICK s, t, urls : s = UrlsOf(Tail(batch)) /\ t = UrlsOf(frontier.queue) /\ urls = <<y>> \o s \o t
    OBVIOUS
  <1>2. /\ AddSkips(urls) /\ batch' = <<>> /\ frontier' = [frontier EXCEPT !.queue = <<>>]
        /\ UNCHANGED <<slots, sitemap, pages, bytes>>
        /\ visited' = visited \cup {y} /\ final' = [final EXCEPT ![x] = y]
    BY <1>0, <1>1 DEF OverBudget, Reach
  <1>3. /\ s \in Seq(URLs) /\ ToSet(s) = UrlsIn(Tail(batch))
        /\ t \in Seq(URLs) /\ ToSet(t) = UrlsIn(frontier.queue)
    BY <1>a, <1>1, SlotFacts, UrlsOfType DEF Typed, Fronts
  <1>4. <<y>> \in Seq(URLs) /\ y \in ToSet(<<y>>)
    BY DEF ToSet
  <1>5. <<y>> \o s \in Seq(URLs) /\ ToSet(<<y>>) \subseteq ToSet(<<y>> \o s) /\ ToSet(s) \subseteq ToSet(<<y>> \o s)
    BY <1>3, <1>4, ConcatSet
  <1>6. urls \in Seq(URLs) /\ ToSet(<<y>> \o s) \subseteq ToSet(urls) /\ ToSet(t) \subseteq ToSet(urls)
    BY <1>1, <1>3, <1>5, ConcatSet
  <1>7. /\ visited \subseteq visited' /\ visited' \subseteq URLs /\ final' \in [URLs -> URLs \cup {Nil}]
        /\ \A u \in URLs : u # Slot.url => final'[u] = final[u]
    BY <1>a, <1>0, <1>2 DEF Typed
  <1>8. Typed' /\ Limited' /\ Claimed' /\ Linked' /\ Levelled' /\ Shortest'
    BY <1>a, <1>2, <1>6, <1>7, NoPageKeeps
  <1>9. Counted'
    <2>1. y \in ToSet(urls) /\ UrlsIn(Tail(batch)) \cup UrlsIn(frontier.queue) \subseteq ToSet(urls)
      BY <1>3, <1>4, <1>5, <1>6
    <2>2. final'[Slot.url] = y /\ frontier'.enqueued = frontier.enqueued
      BY <1>a, <1>0, <1>2 DEF Typed, Fronts
    <2> QED
      BY <1>a, <1>2, <1>6, <1>7, <1>8, <2>1, <2>2, SkipsCount
  <1> QED
    BY <1>8, <1>9 DEF Kept

(* A page is read.                                                         *)
LEMMA ReadPageKeeps ==
  ASSUME Kept, batch # <<>>, Slot.url \notin Disallowed, NEW f \in Fetched(Slot.url), ReadPage(f) PROVE Kept'
  <1>a. Typed /\ Limited /\ Claimed /\ Counted /\ Linked /\ Levelled /\ Shortest
    BY DEF Kept
  <1>0. PICK x \in URLs, y \in URLs : x = Slot.url /\ y = f.url
    BY <1>a, SlotFacts, FetchedType
  <1>1. f.html
    BY DEF ReadPage, Readable
  <1>2. PICK links \in Seq(URLs), size \in Nat : links = f.links /\ size = f.size
    BY <1>0, <1>1, FetchedType
  <1>3. PICK d \in Nat : d = Slot.depth
    BY <1>a, SlotFacts DEF Items
  <1>4. PICK rec \in Records : rec = [url |-> y, from |-> x, depth |-> d, links |-> links]
    BY DEF Records
  <1>5. rec.url = y /\ rec.depth = Slot.depth /\ rec.links = links
    BY <1>3, <1>4
  <1>6. /\ pages' = Append(pages, rec) /\ bytes' = bytes + size /\ bytes + size <= MaxResultBytes
        /\ frontier' = EnqueueLinks(links, Slot.depth + 1) /\ batch' = Tail(batch)
        /\ UNCHANGED <<slots, sitemap, skips>>
        /\ visited' = visited \cup {y} /\ final' = [final EXCEPT ![x] = y]
        /\ y = x \/ y \notin visited
    BY <1>0, <1>2, <1>3, <1>4, Zenon DEF ReadPage, Reach, Known, Leads
  <1>7. frontier' \in Fronts /\ EnqueueInv(links, Slot.depth + 1, Len(links), frontier')
    <2>1. Slot.depth + 1 \in Nat /\ frontier \in Fronts
      BY <1>a, <1>3, SMT DEF Typed
    <2> QED
      BY <1>6, <2>1, EnqueueFacts
  <1>8. Typed'
    <2>1. pages' \in Seq(Records) /\ batch' \in Seq(Items)
      BY <1>a, <1>6, AppendItem, SlotFacts DEF Typed
    <2>2. bytes' \in Nat /\ bytes' <= MaxResultBytes
      BY <1>a, <1>6, SMT DEF Typed
    <2>3. visited' \subseteq URLs /\ final' \in [URLs -> URLs \cup {Nil}]
      BY <1>a, <1>6 DEF Typed
    <2> QED
      BY <1>a, <1>6, <1>7, <2>1, <2>2, <2>3 DEF Typed
  <1>9. Limited'
    <2>1. Len(pages') = Len(pages) + 1
      BY <1>a, <1>6, AppendProperties DEF Typed
    <2> QED
      BY <1>a, <1>6, <2>1, SlotLimit DEF Limited
  <1>10. Claimed'
    <2>1. /\ visited \subseteq visited' /\ \A u \in URLs : u # Slot.url => final'[u] = final[u]
          /\ rec.url \in visited' /\ (rec.url = Slot.url \/ rec.url \notin visited)
      BY <1>a, <1>0, <1>5, <1>6 DEF Typed
    <2> QED
      BY <1>a, <1>6, <2>1, CommitClaims
  <1>11. Counted'
    BY <1>a, <1>0, <1>5, <1>6, <1>7, <1>8, PageCounts
  <1>12. Linked' /\ Levelled' /\ Shortest'
    BY <1>a, <1>0, <1>5, <1>6, <1>7, PageLevels
  <1> QED
    BY <1>8, <1>9, <1>10, <1>11, <1>12 DEF Kept

(* A committed slot.                                                       *)
LEMMA CommitKeeps == ASSUME Kept, Commit PROVE Kept' /\ Phased'
  <1>1. batch # <<>> /\ EndBatch
    BY DEF Commit
  <1>2. ASSUME SkipSlot PROVE Kept'
    BY <1>1, <1>2, SkipKeeps
  <1>3. ASSUME Slot.url \notin Disallowed, NEW f \in Fetched(Slot.url),
               SkipRedirect(f) \/ SkipFinal(f) \/ OverBudget(f) \/ ReadPage(f)
        PROVE  Kept'
    BY <1>1, <1>3, SkipKeeps, OverBudgetKeeps, ReadPageKeeps
  <1>4. Phased'
    BY <1>1, SMT DEF Phased, EndBatch
  <1>5. \/ SkipSlot
        \/ /\ Slot.url \notin Disallowed
           /\ \E f \in Fetched(Slot.url) : SkipRedirect(f) \/ SkipFinal(f) \/ OverBudget(f) \/ ReadPage(f)
    BY Zenon DEF Commit
  <1> QED
    BY <1>2, <1>3, <1>4, <1>5, Zenon

-----------------------------------------------------------------------------
(* Where the handler is, what became of the project, and the write a tick  *)
(* waits for, which is on its way.                                         *)
Placed ==
    /\ pc \in {"resolve", "robots", "loop", "commit", "settle", "rows", "complete", "ended", "dead"}
    /\ project \in {"live", "archived", "gone"} /\ rows \in BOOLEAN
    /\ ticker.awaited \in flight \cup {Nil}

(* Every step keeps this.                                                  *)
LEMMA NextPlaced == ASSUME Shapes, Placed, [Next]_vars PROVE Placed'
  <1> USE CrawlAssumption DEF Placed
  <1>1. CASE Unreachable \/ LoadSeeds \/ Drain \/ Exhausted
    BY <1>1, Zenon DEF Unreachable, LoadSeeds, Drain, Exhausted, outside
  <1>2. CASE Claim \/ Commit
    <2>1. pc' \in {"loop", "commit"} /\ UNCHANGED <<project, rows>> /\ (Tick \/ UNCHANGED <<flight, ticker>>)
      BY <1>2, Zenon DEF Claim, Commit, EndBatch
    <2>2. ticker'.awaited \in flight' \cup {Nil}
      BY <2>1, SMT DEF Tick, Shapes
    <2> QED
      BY <2>1, <2>2, Zenon
  <1>3. ASSUME NEW n \in flight, WriteLands(n) PROVE Placed'
    <2>1. UNCHANGED <<pc, project, rows>>
      BY <1>3 DEF WriteLands
    <2>2. ticker'.awaited \in flight' \cup {Nil}
      BY <1>3, SMT DEF WriteLands, Shapes
    <2> QED
      BY <2>1, <2>2, Zenon
  <1>4. CASE WriteFails
    <2>1. UNCHANGED <<pc, project, rows>> /\ ticker'.awaited = Nil
      BY <1>4 DEF WriteFails
    <2> QED
      BY <2>1, Zenon
  <1>5. CASE Resolve \/ Settle \/ Complete \/ Reaped
    BY <1>5, Zenon DEF Resolve, Settle, Complete, Reaped, Fail
  <1>6. CASE WriteRows
    <2>1. rows' \in BOOLEAN /\ pc' \in {"complete", "ended"} /\ UNCHANGED <<project, flight, ticker>>
      BY <1>6, Zenon DEF WriteRows, Fail
    <2> QED
      BY <2>1, Zenon
  <1>7. CASE ProjectChanges
    <2>1. rows' \in BOOLEAN /\ project' \in {"live", "archived", "gone"} /\ UNCHANGED <<pc, flight, ticker>>
      BY <1>7, Zenon DEF ProjectChanges
    <2> QED
      BY <2>1, Zenon
  <1>8. CASE Crash
    <2>1. pc' = "dead" /\ ticker'.awaited = Nil /\ UNCHANGED <<project, rows, flight>>
      BY <1>8 DEF Crash, Shapes
    <2> QED
      BY <2>1, Zenon
  <1>9. CASE UNCHANGED vars
    BY <1>9, Zenon DEF vars, outside
  <1> QED
    BY <1>1, <1>2, <1>3, <1>4, <1>5, <1>6, <1>7, <1>8, <1>9 DEF Next

(* Every behaviour keeps the frontier loop's invariant.                    *)
LEMMA FrontierInvariance == Spec => [](Kept /\ Phased /\ Placed)
  <1>1. Init => Kept /\ Phased /\ Placed
    <2>1. ASSUME Init PROVE Placed
      BY <2>1 DEF Init, Placed
    <2> QED
      BY <2>1, InitKept
  <1>2. ASSUME IInv, Kept, Phased, Placed, [Next]_vars PROVE Kept' /\ Phased' /\ Placed'
    <2> USE <1>2
    <2>1. Placed'
      BY NextPlaced DEF IInv
    <2>2. CASE Unreachable \/ LoadSeeds \/ Drain \/ Claim \/ Commit
      BY <2>1, <2>2, UnreachableKeeps, LoadSeedsKeeps, DrainKeeps, ClaimKeeps, CommitKeeps
    <2>3. ASSUME UNCHANGED crawl,
                 \/ UNCHANGED pc
                 \/ pc \in {"loop", "settle"} /\ pc' \notin {"resolve", "robots", "loop"}
                 \/ pc = "resolve" /\ pc' \in {"robots", "ended"}
                 \/ pc' \in {"complete", "ended", "dead"}
          PROVE  Kept' /\ Phased' /\ Placed'
      <3>1. UNCHANGED <<visited, batch, pages, frontier>>
        BY <2>3 DEF crawl
      <3>2. Phased'
        BY <2>3, <3>1, Zenon DEF Phased
      <3> QED
        BY <2>1, <2>3, <3>2, SameKeeps
    <2>4. CASE (\E n \in flight : WriteLands(n)) \/ WriteFails \/ ProjectChanges \/ UNCHANGED vars
      <3>1. UNCHANGED crawl /\ UNCHANGED pc
        BY <2>4, Zenon DEF WriteLands, WriteFails, ProjectChanges, vars
      <3> QED
        BY <2>3, <3>1
    <2>5. CASE Resolve
      <3>1. UNCHANGED crawl /\ pc = "resolve" /\ pc' \in {"robots", "ended"}
        BY <2>5, Zenon DEF Resolve, Fail
      <3> QED
        BY <2>3, <3>1
    <2>6. CASE Exhausted \/ Settle
      <3>1. UNCHANGED crawl /\ pc \in {"loop", "settle"} /\ pc' \in {"settle", "rows", "ended"}
        BY <2>6, Zenon DEF Exhausted, Settle, Fail
      <3> QED
        BY <2>3, <3>1, SMT
    <2>7. CASE WriteRows \/ Complete \/ Crash \/ Reaped
      <3>1. UNCHANGED crawl /\ pc' \in {"complete", "ended", "dead"}
        BY <2>7, Zenon DEF WriteRows, Complete, Crash, Reaped, Fail
      <3> QED
        BY <2>3, <3>1
    <2> QED
      BY <2>2, <2>4, <2>5, <2>6, <2>7 DEF Next
  <1> QED
    BY Invariance, <1>1, <1>2, PTL DEF Spec

-----------------------------------------------------------------------------
(* The crawl's lists, limits and job row keep their types: no more pages   *)
(* than the limit, whichever slots of a batch are read, no more listed     *)
(* skips than the list has room for, and no count shown beyond the pages.  *)
THEOREM TypeCorrect == Spec => []TypeOK
  <1>1. ASSUME IInv, Kept, Placed PROVE TypeOK
    <2>1. PICK l \in Nat, k \in Nat, M \in Nat :
            l = Len(pages) /\ k = Cardinality(UrlsIn(batch) \ Disallowed) /\ M = MaxUrls
      BY <1>1, UrlsFinite, LenProperties, CrawlAssumption DEF Kept, Typed
    <2>2. l <= M
      <3>1. l + k <= M
        BY <1>1, <2>1 DEF Kept, Limited
      <3> QED
        BY <3>1, SMT
    <2>3. flight \subseteq 0 .. MaxUrls /\ job.result \in {Nil, Delivered} \cup 0 .. MaxUrls
      BY <1>1, <2>1, <2>2, SMT DEF IInv, Shapes, Shown
    <2>4. job.status \in {"running", "succeeded", "failed"} /\ ticker.off \in BOOLEAN
      BY <1>1 DEF IInv, Shapes
    <2>5. /\ frontier.queue \in Seq(Items) /\ frontier.enqueued \subseteq URLs /\ frontier.full \in BOOLEAN
          /\ skips.listed \in Seq(URLs) /\ skips.dropped \in Nat
      BY <1>1 DEF Kept, Typed, Fronts, Skips
    <2> QED
      BY <1>1, <2>1, <2>2, <2>3, <2>4, <2>5, Zenon DEF TypeOK, Kept, Typed, Placed
  <1> QED
    BY Invariance, FrontierInvariance, <1>1, PTL

(* Nothing is stored twice and nothing vanishes: whatever the site answers *)
(* and wherever the crawl stops, a URL that was queued was read, is listed *)
(* as skipped, or is one of those counted as dropped, and so for where its *)
(* redirects led; a link in scope was queued, reached, or met a full       *)
(* queue; and what is charged for is there.                                *)
THEOREM NothingVanishes == Spec => []AllAccounted
  <1>1. ASSUME IInv, Kept PROVE AllAccounted
    <2>1. \A i, j \in DOMAIN pages : pages[i].url = pages[j].url => i = j
      BY <1>1 DEF Kept, Claimed, Distinct
    <2>2. ASSUME Ended
          PROVE  Cardinality({EndOf(u) : u \in {v \in frontier.enqueued : ~Accounted(v)}}) <= skips.dropped
      <3> DEFINE S == {EndOf(u) : u \in {v \in frontier.enqueued : ~Accounted(v)}}
      <3>1. UrlsIn(batch) = {} /\ UrlsIn(frontier.queue) = {}
        BY <2>2, NoItems DEF Ended
      <3>2. S \in SUBSET Lost
        BY <3>1, Zenon DEF Lost, Missing
      <3> HIDE DEF S
      <3>3. IsFiniteSet(S) /\ Cardinality(S) <= Cardinality(Lost)
        BY <1>1, <3>2, FS_Subset DEF Kept, Counted
      <3>4. PICK a \in Nat, b \in Nat, s \in Nat : a = Cardinality(S) /\ b = Cardinality(Lost) /\ s = skips.dropped
        BY <1>1, <3>3, FS_CardinalityType DEF Kept, Counted, Typed, Skips
      <3>5. a <= s
        BY <1>1, <3>3, <3>4, SMT DEF Kept, Counted
      <3> QED
        BY <3>4, <3>5 DEF S
    <2>3. ASSUME NEW i \in DOMAIN pages
          PROVE  frontier.full \/ ToSet(pages[i].links) \cap InScope \subseteq frontier.enqueued \cup visited
      <3>1. frontier.full \in BOOLEAN
        BY <1>1 DEF Kept, Typed, Fronts
      <3>2. pages[i] \in ToSet(pages)
        BY DEF ToSet
      <3>3. InScope \subseteq URLs
        BY CrawlAssumption
      <3> QED
        BY <1>1, <3>1, <3>2, <3>3, Zenon DEF Kept, Linked
    <2>4. job.status = "succeeded" /\ project # "gone" => rows /\ pages # <<>>
      BY <1>1, Zenon DEF IInv, Backed
    <2> QED
      BY <2>1, <2>2, <2>3, <2>4, Zenon DEF AllAccounted
  <1> QED
    BY Invariance, FrontierInvariance, <1>1, PTL

(* A page's depth is its distance in clicks, for any site, batch size and  *)
(* limits: no page that links to it is more than a level above it.         *)
THEOREM FirstDiscoveryWins == Spec => []DepthIsShortest
  <1>1. ASSUME Kept PROVE DepthIsShortest
    <2> SUFFICES ASSUME NEW i \in DOMAIN pages, NEW j \in DOMAIN pages, ~frontier.full,
                        pages[i].url \in InScope \cap ToSet(pages[j].links)
                 PROVE  pages[i].depth <= pages[j].depth + 1
      BY Zenon DEF DepthIsShortest
    <2>1. frontier.full = FALSE
      BY <1>1 DEF Kept, Typed, Fronts
    <2>2. pages[i] \in ToSet(pages) /\ pages[j] \in ToSet(pages)
      BY DEF ToSet
    <2> QED
      BY <1>1, <2>1, <2>2 DEF Kept, Shortest
  <1> QED
    BY FrontierInvariance, <1>1, PTL
=============================================================================
