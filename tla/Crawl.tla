------------------------------- MODULE Crawl -------------------------------
(***************************************************************************)
(* A crawl_site job: the frontier loop of apps/mcp/src/crawler/crawl.ts,   *)
(* inside the queue handler (queue/handlers/crawl.ts) that reports live    *)
(* progress into jobs.result while it runs, writes the crawled rows and    *)
(* hands the result on.                                                    *)
(*                                                                         *)
(* A URL is a model value in its normalized form.  What a site answers is  *)
(* chosen when a fetch is committed: its redirects, types, links and sizes *)
(* may be any, and may differ from one request to the next.                *)
(***************************************************************************)
EXTENDS Naturals, SequencesExt

CONSTANTS
    URLs, Root,         \* the same-site URLs, and the homepage
    InScope,            \* those include_paths lets in, infrastructure paths out
    Disallowed,         \* those robots.txt forbids
    ExtraSeeds,         \* the ranking pages the queue message asks to seed
    SitemapReads,       \* what /sitemap.xml may hold: the URLs of each child in turn
    EndsAt,             \* where the redirects of a URL may end: with no redirect, there
    LinkLists,          \* the link lists the page at a URL may carry
    Sizes,              \* the sizes a page record may have
    MaxUrls, MaxConcurrentFetches, MaxSitemapUrls, MaxQueueUrls, MaxSkippedListed,
    MaxResultBytes,
    Nil, Delivered      \* a result column that is empty, or holds the finished crawl

ASSUME CrawlAssumption ==
    /\ Root \in URLs /\ InScope \subseteq URLs /\ Disallowed \subseteq URLs
    /\ Nil \notin URLs /\ {Nil, Delivered} \cap Nat = {} /\ Nil # Delivered
    /\ ExtraSeeds \in Seq(URLs) /\ SitemapReads \subseteq Seq(Seq(URLs))
    /\ EndsAt \in [URLs -> SUBSET URLs] /\ \A u \in URLs : LinkLists[u] \subseteq Seq(URLs)
    /\ Sizes \subseteq Nat \ {0} /\ MaxResultBytes \in Nat
    /\ MaxUrls \in Nat \ {0} /\ MaxConcurrentFetches \in Nat \ {0}
    /\ MaxSitemapUrls \in Nat /\ MaxQueueUrls \in Nat /\ MaxSkippedListed \in Nat

VARIABLES
    pc,         \* where the handler is
    slots,      \* fetches at a time: one if the site asks for a delay
    sitemap,    \* the sitemap URLs read, as stored with the result
    frontier,   \* the queue, what was ever put in it, and was it full?
    visited,    \* URLs claimed or reached by a redirect
    batch,      \* slots claimed and not committed
    pages,      \* the page records, in the order they were read
    skips,      \* the URLs listed as skipped, and the number dropped past the list
    bytes,      \* the size of the pages
    final,      \* history: where a fetched URL led
    project,    \* the job's project: live, archived or gone
    job,        \* the jobs row: status, result
    rows,       \* are the crawl's rows in crawl_pages?
    flight,     \* the progress snapshots on their way to the database
    ticker      \* the write awaited, or Nil; off: did one fail?

crawl   == <<slots, sitemap, frontier, visited, batch, pages, skips, bytes, final>>
outside == <<project, job, rows, flight, ticker>>
vars    == <<pc, crawl, outside>>

Items   == [url : URLs, depth : Nat]
Records == [url : URLs, from : URLs, depth : Nat, links : Seq(URLs)]

TypeOK ==
    /\ pc \in {"resolve", "robots", "loop", "commit", "settle", "rows", "complete", "ended", "dead"}
    /\ slots \in {1, MaxConcurrentFetches} /\ sitemap \in Seq(URLs)
    /\ frontier.queue \in Seq(Items) /\ frontier.enqueued \subseteq URLs
    /\ frontier.full \in BOOLEAN
    /\ visited \subseteq URLs /\ batch \in Seq(Items) /\ final \in [URLs -> URLs \cup {Nil}]
    /\ pages \in Seq(Records) /\ Len(pages) <= MaxUrls /\ bytes <= MaxResultBytes
    /\ skips.listed \in Seq(URLs) /\ Len(skips.listed) <= MaxSkippedListed /\ skips.dropped \in Nat
    /\ project \in {"live", "archived", "gone"} /\ rows \in BOOLEAN
    /\ job.status \in {"running", "succeeded", "failed"}
    /\ job.result \in {Nil, Delivered} \cup 0..MaxUrls
    /\ flight \subseteq 0..MaxUrls
    /\ ticker.awaited \in flight \cup {Nil} /\ ticker.off \in BOOLEAN

Init ==
    /\ pc = "resolve" /\ slots = MaxConcurrentFetches /\ sitemap = <<>>
    /\ frontier = [queue |-> <<>>, enqueued |-> {}, full |-> FALSE]
    /\ visited = {} /\ batch = <<>> /\ pages = <<>> /\ bytes = 0
    /\ skips = [listed |-> <<>>, dropped |-> 0]
    /\ final = [u \in URLs |-> Nil]
    /\ project = "live" /\ rows = FALSE
    /\ job = [status |-> "running", result |-> Nil]
    /\ flight = {} /\ ticker = [awaited |-> Nil, off |-> FALSE]

-----------------------------------------------------------------------------
(* Seeds.                                                                  *)
UrlsOf(items) == [i \in DOMAIN items |-> items[i].url]

FirstOf(s, n) == SubSeq(s, 1, IF Len(s) < n THEN Len(s) ELSE n)
SitemapLimit  == IF MaxUrls < MaxSitemapUrls THEN MaxSitemapUrls ELSE MaxUrls

(* In scope and not claimed before: usable.  The cap counts usable URLs.   *)
ClaimLoc(acc, u) ==
    IF u \in InScope /\ u \notin acc.seen /\ Len(acc.list) < SitemapLimit
    THEN [list |-> Append(acc.list, u), seen |-> acc.seen \cup {u}] ELSE acc

Usable(urls, seen) == FoldLeft(ClaimLoc, [list |-> <<>>, seen |-> seen], urls)

(* What each child adds to those before it.                                *)
AddChild(acc, child) ==
    LET read == Usable(child, acc.seen)
    IN  [lists |-> Append(acc.lists, read.list), seen |-> read.seen]

ChildLists(children) == FoldLeft(AddChild, [lists |-> <<>>, seen |-> {}], children).lists

(* Round-robin: one URL from each child in turn.                           *)
Longest(lists)  == FoldLeft(LAMBDA n, l : IF Len(l) > n THEN Len(l) ELSE n, 0, lists)
Round(lists, i) ==
    FoldLeft(LAMBDA acc, l : IF i <= Len(l) THEN Append(acc, l[i]) ELSE acc, <<>>, lists)

RoundRobin(lists) ==
    FirstOf(FlattenSeq([i \in 1..Longest(lists) |-> Round(lists, i)]), SitemapLimit)

(* The homepage first, then the ranking pages, then the sitemap.           *)
Seeds(urls) ==
    Usable(<<Root>> \o FirstOf(Usable(ExtraSeeds, {}).list, MaxUrls) \o FirstOf(urls, MaxUrls),
           {}).list

-----------------------------------------------------------------------------
(* What the loop does to its lists.                                        *)
AddSkips(urls) ==
    LET all == skips.listed \o urls
        kept == FirstOf(all, MaxSkippedListed)
    IN  skips' = [listed |-> kept, dropped |-> skips.dropped + Len(all) - Len(kept)]

Enqueue(f, link, depth) ==
    IF Len(f.queue) >= MaxQueueUrls THEN [f EXCEPT !.full = TRUE]
    ELSE IF link \in InScope /\ link \notin visited' \cup f.enqueued
    THEN [f EXCEPT !.queue = Append(@, [url |-> link, depth |-> depth]),
                   !.enqueued = @ \cup {link}]
    ELSE f

EnqueueLinks(links, depth) ==
    FoldLeft(LAMBDA f, link : Enqueue(f, link, depth), frontier, links)

(* The claim phase: up to "room" fetchable URLs off the head, robots-      *)
(* blocked ones on the way at no cost, visited ones dropped.               *)
ClaimItem(acc, item) ==
    IF acc.room = 0 THEN [acc EXCEPT !.queue = Append(@, item)]
    ELSE IF item.url \in acc.visited THEN acc
    ELSE [acc EXCEPT !.visited = @ \cup {item.url}, !.batch = Append(@, item),
                     !.room = IF item.url \in Disallowed THEN @ ELSE @ - 1]

(* Mutant: the room does not count the pages there are.                    *)
ClaimBatch_SlotsOnly ==
    FoldLeft(ClaimItem, [room |-> slots, visited |-> visited, batch |-> <<>>, queue |-> <<>>],
             frontier.queue)

ClaimBatch ==
    LET left == MaxUrls - Len(pages)
    IN  FoldLeft(ClaimItem,
                 [room |-> IF slots < left THEN slots ELSE left, visited |-> visited,
                  batch |-> <<>>, queue |-> <<>>], frontier.queue)

(* What a fetch may bring: HTML or not, at the end of the redirects.       *)
Fetched(url) == UNION {
    {[url |-> u, html |-> FALSE]} \cup [url : {u}, html : {TRUE}, links : LinkLists[u], size : Sizes]
        : u \in EndsAt[url]}

-----------------------------------------------------------------------------
(* Live progress: one snapshot after each batch, unless one is in flight,  *)
(* an earlier one failed, or the last is less than two seconds old.        *)
(* Mutant: a failed write does not stop later ones.                        *)
Tick_GoesOn ==
    \/ UNCHANGED <<flight, ticker>>
    \/ /\ ticker.awaited = Nil
       /\ flight' = flight \cup {Len(pages')} /\ ticker' = [ticker EXCEPT !.awaited = Len(pages')]

Tick ==
    \/ UNCHANGED <<flight, ticker>>
    \/ /\ ticker.awaited = Nil /\ ~ticker.off
       /\ flight' = flight \cup {Len(pages')} /\ ticker' = [ticker EXCEPT !.awaited = Len(pages')]

(* Mutant: a progress write does not look at the status of the row.        *)
WriteLands_AnyStatus(n) ==
    /\ job' = [job EXCEPT !.result = n]
    /\ flight' = flight \ {n}
    /\ ticker' = IF ticker.awaited = n THEN [ticker EXCEPT !.awaited = Nil] ELSE ticker
    /\ UNCHANGED <<pc, crawl, project, rows>>

(* The update matches a running row only.                                  *)
WriteLands(n) ==
    /\ job' = IF job.status = "running" THEN [job EXCEPT !.result = n] ELSE job
    /\ flight' = flight \ {n}
    /\ ticker' = IF ticker.awaited = n THEN [ticker EXCEPT !.awaited = Nil] ELSE ticker
    /\ UNCHANGED <<pc, crawl, project, rows>>

(* The call fails; the request is lost, or lands later after all.          *)
WriteFails ==
    /\ ticker.awaited # Nil
    /\ ticker' = [awaited |-> Nil, off |-> TRUE]
    /\ flight' \in {flight, flight \ {ticker.awaited}}
    /\ UNCHANGED <<pc, crawl, project, job, rows>>

-----------------------------------------------------------------------------
(* A throw out of the handler: the reserve is released, the job failed.    *)
Fail ==
    /\ pc' = "ended" /\ job' = [job EXCEPT !.status = "failed"]

(* resolveProjectOrigin: the project may have gone since the job was sent. *)
Resolve ==
    /\ pc = "resolve"
    /\ \/ project = "live" /\ pc' = "robots" /\ UNCHANGED job
       \/ Fail
    /\ UNCHANGED <<crawl, project, rows, flight, ticker>>

(* The origin gate and robots.txt, asked twice: refused or unreachable, it *)
(* is a crawl without pages.                                               *)
Unreachable ==
    /\ pc = "robots" /\ pc' = "settle"
    /\ AddSkips(<<Root>>)
    /\ UNCHANGED <<slots, sitemap, frontier, visited, batch, pages, bytes, final, outside>>

LoadSeeds ==
    /\ pc = "robots" /\ pc' = "loop"
    /\ slots' \in {1, MaxConcurrentFetches}
    /\ \E children \in SitemapReads : sitemap' = RoundRobin(ChildLists(children))
    /\ LET seeds == Seeds(sitemap') IN
       frontier' = [queue |-> [i \in DOMAIN seeds |-> [url |-> seeds[i], depth |-> 0]],
                    enqueued |-> ToSet(seeds), full |-> FALSE]
    /\ UNCHANGED <<visited, batch, pages, skips, bytes, final, outside>>

(* The page limit, or the time budget, at the head of the loop: the queue  *)
(* is drained into the skip list.                                          *)
Drain ==
    /\ pc = "loop" /\ frontier.queue # <<>> /\ pc' = "settle"
    /\ AddSkips(UrlsOf(frontier.queue))
    /\ frontier' = [frontier EXCEPT !.queue = <<>>]
    /\ UNCHANGED <<slots, sitemap, visited, batch, pages, bytes, final, outside>>

(* A batch that is done, or was empty, is followed by a tick.              *)
EndBatch ==
    IF batch' = <<>> THEN pc' = "loop" /\ Tick ELSE pc' = "commit" /\ UNCHANGED <<flight, ticker>>

Claim ==
    /\ pc = "loop" /\ frontier.queue # <<>> /\ Len(pages) < MaxUrls
    /\ batch' = ClaimBatch.batch /\ visited' = ClaimBatch.visited
    /\ frontier' = [frontier EXCEPT !.queue = ClaimBatch.queue]
    /\ UNCHANGED <<slots, sitemap, pages, skips, bytes, final>>
    /\ EndBatch /\ UNCHANGED <<project, job, rows>>

Exhausted ==
    /\ pc = "loop" /\ frontier.queue = <<>> /\ pc' = "settle"
    /\ UNCHANGED <<crawl, outside>>

(* The next slot of the batch is committed, in dequeue order.              *)
Slot    == Head(batch)
Leads(f) == f.url # Slot.url
Known(f) == Leads(f) /\ f.url \in visited

SlotSkipped(url) ==
    /\ AddSkips(<<url>>) /\ batch' = Tail(batch)
    /\ UNCHANGED <<slots, sitemap, frontier, pages, bytes>>

(* Blocked by robots.txt, a timeout, an error, too large, off the site.    *)
SkipSlot == SlotSkipped(Slot.url) /\ UNCHANGED <<visited, final>>

(* It redirects to a URL claimed or reached before.                        *)
SkipRedirect(f) ==
    /\ Known(f) /\ SlotSkipped(Slot.url)
    /\ final' = [final EXCEPT ![Slot.url] = f.url] /\ UNCHANGED visited

(* Mutant: the URL a redirect led to may be crawled again.                 *)
Reach_NotMarked(f) ==
    /\ ~Known(f)
    /\ final' = [final EXCEPT ![Slot.url] = f.url] /\ UNCHANGED visited

Reach(f) ==
    /\ ~Known(f)
    /\ visited' = visited \cup {f.url} /\ final' = [final EXCEPT ![Slot.url] = f.url]

(* Where it led is forbidden, or no HTML.                                  *)
Readable(f) == f.html /\ ~(Leads(f) /\ f.url \in Disallowed)

SkipFinal(f) ==
    /\ Reach(f) /\ ~Readable(f)
    /\ SlotSkipped(f.url)

(* Mutant: of the batch, only the page that did not fit is recorded.       *)
OverBudget_ForgetsBatch(f) ==
    /\ Reach(f) /\ Readable(f) /\ bytes + f.size > MaxResultBytes
    /\ AddSkips(<<f.url>> \o UrlsOf(frontier.queue))
    /\ batch' = <<>> /\ frontier' = [frontier EXCEPT !.queue = <<>>]
    /\ UNCHANGED <<slots, sitemap, pages, bytes>>

(* The page does not fit: it, the rest of the batch and the queue are      *)
(* skipped, and the crawl stops.                                           *)
OverBudget(f) ==
    /\ Reach(f) /\ Readable(f) /\ bytes + f.size > MaxResultBytes
    /\ AddSkips(<<f.url>> \o UrlsOf(Tail(batch)) \o UrlsOf(frontier.queue))
    /\ batch' = <<>> /\ frontier' = [frontier EXCEPT !.queue = <<>>]
    /\ UNCHANGED <<slots, sitemap, pages, bytes>>

(* Mutant: a redirect counts as a level of the site.                       *)
ReadPage_HopIsALevel(f) ==
    /\ Reach(f) /\ Readable(f) /\ bytes + f.size <= MaxResultBytes
    /\ pages' = Append(pages, [url |-> f.url, from |-> Slot.url, links |-> f.links,
                               depth |-> IF Leads(f) THEN Slot.depth + 1 ELSE Slot.depth])
    /\ bytes' = bytes + f.size
    /\ frontier' = EnqueueLinks(f.links, Slot.depth + 1)
    /\ batch' = Tail(batch)
    /\ UNCHANGED <<slots, sitemap, skips>>

ReadPage(f) ==
    /\ Reach(f) /\ Readable(f) /\ bytes + f.size <= MaxResultBytes
    /\ pages' = Append(pages, [url |-> f.url, from |-> Slot.url, depth |-> Slot.depth,
                               links |-> f.links])
    /\ bytes' = bytes + f.size
    /\ frontier' = EnqueueLinks(f.links, Slot.depth + 1)
    /\ batch' = Tail(batch)
    /\ UNCHANGED <<slots, sitemap, skips>>

Commit ==
    /\ pc = "commit" /\ batch # <<>>
    /\ \/ SkipSlot
       \/ /\ Slot.url \notin Disallowed
          /\ \E f \in Fetched(Slot.url) :
                SkipRedirect(f) \/ SkipFinal(f) \/ OverBudget(f) \/ ReadPage(f)
    /\ EndBatch /\ UNCHANGED <<project, job, rows>>

-----------------------------------------------------------------------------
(* The handler after the crawl: it waits for the write in flight, refuses  *)
(* an empty crawl, and writes the rows before it returns.                  *)
Settle ==
    /\ pc = "settle" /\ ticker.awaited = Nil
    /\ \/ pages # <<>> /\ pc' = "rows" /\ UNCHANGED job
       \/ pages = <<>> /\ Fail
    /\ UNCHANGED <<crawl, project, rows, flight, ticker>>

(* Mutant: a failed row write is logged, and the crawl goes on.            *)
WriteRows_Swallowed ==
    /\ pc = "rows"
    /\ rows' \in {FALSE, project # "gone"} /\ pc' = "complete"
    /\ UNCHANGED <<crawl, project, job, flight, ticker>>

(* One insert; it may fail, refuse a project that is gone, or lose its     *)
(* reply.                                                                  *)
WriteRows ==
    /\ pc = "rows"
    /\ \/ project # "gone" /\ rows' = TRUE /\ pc' = "complete" /\ UNCHANGED job
       \/ Fail /\ rows' \in {FALSE, project # "gone"}
    /\ UNCHANGED <<crawl, project, flight, ticker>>

(* The guard charges and the worker stores the result, or the job fails.   *)
Complete ==
    /\ pc = "complete"
    /\ \/ job' = [status |-> "succeeded", result |-> Delivered] /\ pc' = "ended"
       \/ Fail
    /\ UNCHANGED <<crawl, project, rows, flight, ticker>>

(* The user archives the project, or it goes with its rows.                *)
ProjectChanges ==
    /\ project' \in {"live", "archived", "gone"} \ {project} /\ project # "gone"
    /\ rows' = (rows /\ project' # "gone")
    /\ UNCHANGED <<pc, crawl, job, flight, ticker>>

Crash ==
    /\ pc \notin {"ended", "dead"} /\ pc' = "dead"
    /\ ticker' = [ticker EXCEPT !.awaited = Nil]
    /\ UNCHANGED <<crawl, project, job, rows, flight>>

(* A dead run is failed by the reaper, or by the redelivered message.      *)
Reaped ==
    /\ pc = "dead" /\ Fail
    /\ UNCHANGED <<crawl, project, rows, flight, ticker>>

Next ==
    \/ Resolve \/ Unreachable \/ LoadSeeds \/ Drain \/ Claim \/ Exhausted \/ Commit
    \/ Settle \/ WriteRows \/ Complete
    \/ (\E n \in flight : WriteLands(n)) \/ WriteFails \/ ProjectChanges \/ Crash \/ Reaped

Spec == Init /\ [][Next]_vars
=============================================================================
