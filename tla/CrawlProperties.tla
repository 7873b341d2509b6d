-------------------------- MODULE CrawlProperties --------------------------
(* What a crawl promises the customer who paid for it.                     *)
EXTENDS Crawl, FiniteSetsExt

Read    == {pages[i].url : i \in DOMAIN pages}
Skipped == ToSet(skips.listed)
Over    == pc \in {"settle", "rows", "complete", "ended"}
Ended   == Over /\ frontier.queue = <<>> /\ batch = <<>>

(* No page is stored twice, whichever slots, links and redirects lead to   *)
(* it ("no two slots can ever claim the same URL, with or without          *)
(* overlap"). Nothing vanishes either: at the end of a crawl each URL that *)
(* was ever queued was read or is listed as skipped, or led to such a URL, *)
(* or is, or led to, one of the number the skip list admits to have        *)
(* dropped; and a link of a page that was not queued was reached           *)
(* otherwise, or the report says that the queue was full. And a crawl that *)
(* succeeded, and is charged, has read something and has its rows beside   *)
(* it, as long as its project is there.                                    *)
Accounted(u) == u \in Read \cup Skipped \/ (final[u] # Nil /\ final[u] \in Read \cup Skipped)

(* Where a URL led: two that led to one place are one to account for.      *)
EndOf(u) == IF final[u] = Nil THEN u ELSE final[u]

AllAccounted ==
    /\ \A i, j \in DOMAIN pages : pages[i].url = pages[j].url => i = j
    /\ Ended => Cardinality({EndOf(u) : u \in {v \in frontier.enqueued : ~Accounted(v)}}) <= skips.dropped
    /\ \A i \in DOMAIN pages :
          frontier.full \/ ToSet(pages[i].links) \cap InScope \subseteq frontier.enqueued \cup visited
    /\ job.status = "succeeded" /\ project # "gone" => rows /\ pages # <<>>

(* A page's depth is its distance in clicks: no page that links to it is   *)
(* more than a level above it ("FIRST discovery wins the depth"), whatever *)
(* the batches and redirects, unless a full queue turned the link away.    *)
(* Only for pages within the include_paths: the crawl follows no link to   *)
(* another, and one that a redirect led to has the depth of the URL that   *)
(* was queued.                                                             *)
DepthIsShortest ==
    \A i, j \in DOMAIN pages :
        ~frontier.full /\ pages[i].url \in InScope \cap ToSet(pages[j].links) =>
            pages[i].depth <= pages[j].depth + 1

(* What a sitemap advertises is crawled or skipped, if no list was cut     *)
(* short: audit_tech reports the rest as "neither crawled nor skipped".    *)
NoFalseGap ==
    Ended /\ skips.dropped = 0 =>
        ToSet(FirstOf(sitemap, MaxUrls)) \subseteq Read \cup Skipped

-----------------------------------------------------------------------------
(* A poll never sees a job go back.  The progress of a running crawl only  *)
(* grows: writes "cannot overtake each other and land out of order", not   *)
(* even when one whose call failed arrives late.  And no progress write    *)
(* still on its way replaces the result of an ended job ("such a write     *)
(* updates ZERO rows instead").                                            *)
ResultMovesForward ==
    [][/\ job.status # "running" => UNCHANGED job
       /\ job.result # Nil /\ job'.result # Delivered => job'.result >= job.result]_vars
=============================================================================
