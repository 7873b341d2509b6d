------------------------------ MODULE MCCrawl ------------------------------
(* A site of a homepage r, pages a, b and c, a URL d forbidden to robots   *)
(* and a URL o outside the include_paths.  r may redirect onto a, a onto   *)
(* b or c, b onto d, c onto o.                                             *)
EXTENDS CrawlProperties

CONSTANTS r, a, b, c, d, o

SixUrls  == {r, a, b, c, d, o}
Scope    == {r, a, b, c, d}
Ranking  == <<o, b>>
Reads    == {<< >>, <<<<d>>>>, <<<<a, o, r>>, <<d, a>>>>}
Ends     == (r :> {r, a}) @@ (a :> {a, b, c}) @@ (b :> {b, d}) @@ (c :> {c, o}) @@ [u \in SixUrls |-> {u}]
Links    == (r :> {<<c, b>>, <<a, b, c>>}) @@ (a :> {<<c, r>>, <<>>}) @@ (b :> {<<c, d, o>>}) @@
            [u \in SixUrls |-> {<<r>>}]
=============================================================================
