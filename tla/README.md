# SeoGrep: TLA+ models and proofs

SeoGrep is a hosted SEO service. An MCP server runs metered tools for users
who pay with credits, a web application sells the credits and grants a trial,
and PostgreSQL (Supabase) holds everything they share. This directory models
the parts where a mistake costs somebody money or data: the credit ledger, the
life of a metered run, the budget for paid vendor calls, the payment webhook,
the trial claim, the crawl a customer pays for, the Search Console
link-out, and the gates in front of all of it. The models are written from the code (`src/`), down to single
SQL statements and HTTP calls, because the hazards are in what happens
between two of them.

## 1. The system

| Part | Code | State it keeps | Operations | Talks to |
|---|---|---|---|---|
| Credit ledger | `packages/db/supabase/migrations/{0002,0005,0011,0019,0033}`, `packages/db/src/ledger-repo.ts`, `packages/core/src/billing/ledger.ts` | append-only `credit_ledger`; a balance is a sum | grant, purchase, adjust, `reserve_credits`, `commit_reserve`, `release_reserve` | called by the guard, the reaper, the webhook, the trial |
| Job queue | `apps/mcp/src/queue/boss.ts` | `jobs` rows, pg-boss messages | `enqueueJob`, `markJobRunning`, `setJobReserve`, `completeJob`, `failJob` | worker, tools |
| Worker and credit guard | `apps/mcp/src/queue/worker.ts`, `credits/guard.ts` | one run in flight | claim, reserve, run the tool, commit or release, record | queue, ledger |
| Reaper | `apps/mcp/src/queue/reaper.ts`, `scripts/reconcile.mjs` | none | sweep aged running rows, aged reserves, aged queued rows | `jobs`, ledger, next to live workers |
| Vendor budget | migration 0014, `apps/mcp/src/dfs/budget.ts` and the ports in `dfs/` | `dfs_spend` rows | book an estimate, make the requests, settle | the vendor |
| Paddle webhook | `apps/web/app/api/paddle/webhook/route.ts`, `packages/db/src/paddle-repo.ts`, migrations 0003, 0007, 0013, 0018, `packages/core/src/billing/paddle-events.ts` | `paddle_events`, purchases, `subscriptions` | record, decide, grant or upsert, stamp, answer | Paddle, analytics |
| Attribution | `apps/web/lib/billing/attribution.ts` | none | token check, `decideTenant` | webhook |
| Trial and welcome | migration 0020, `apps/web/lib/billing/{trial,welcome}.ts`, `apps/web/app/auth/callback/route.ts` | `trial_claims`, `users_profile` | `claim_trial`, `ensureTrialGranted`, welcome mail | ledger, mail, analytics |
| Free-run allowance, paid-balance gate | `apps/mcp/src/credits/{free-vendor-calls,paid-balance,costs}.ts` | read from the ledger and `dfs_spend` | refuse before the reserve | guard |
| API keys, authentication, rate limits | `apps/web/app/app/connection/actions.ts`, `packages/db/src/api-keys-repo.ts`, `apps/mcp/src/{auth,server,db}.ts`, `apps/web/lib/rate-limit.ts` | `api_keys`, token buckets in memory | create, rotate and revoke a key; throttle an address, look a key up, limit a key | every request |
| Search Console link-out | `apps/web/app/api/gsc/*`, `apps/web/lib/gsc/*`, `packages/core/src/gsc/*` | `gsc_accounts`, `gsc_connections`, the flow cookie | connect, callback, refresh and mark, save, track, unmap, disconnect | Google, projects |
| Crawler | `apps/mcp/src/crawler/*`, `queue/handlers/crawl.ts` | frontier, visited set, skip list, `jobs.result`, `crawl_pages` | seed, fetch in batches within page, time, byte and queue budgets, report progress, write the rows | the web, job queue |
| Projects | `apps/web/app/app/connection/actions.ts` | `projects` | track, archive, restore | Search Console, crawler |
| Tools, audits, reports, rank tracking, dashboard | the rest of `apps/` and `packages/` | row-level tables | pure analysis, rendering, CRUD | the parts above |

What is hard in it:

* **Concurrency.** Database sessions of one user, two deliveries of one
  event, a live worker and two reapers, many operations at the end of a
  day's budget, two accounts of one mailbox, two consents of one Google
  account next to its disconnect, two key actions that count before they
  insert. Everything rests on advisory
  locks, unique keys, row locks and compare-and-set updates, each taken at
  one particular statement.
* **Lost replies.** Every database call may take effect and lose its answer.
  The guard, the worker, the webhook and the trial each decide what to
  believe then.
* **Crashes and redelivery.** pg-boss has `retryLimit 0`; Paddle repeats an
  event until a 200; a crashed run is found by age only.
* **Time.** Staleness windows, a late commit, midnight.

What makes each part correct is listed with its module in section 3. The file
`PROJECT.json` names every hazard at its line with the properties against it.

## 2. Plan

Order: the money first, and of the money the ledger that everything else
relies on; then what the customer pays for and what is stored for him.

1. `LedgerDomain`, `CreditLedger`: the ledger and its abstract specification. *Done, proved.*
2. `JobRun`: queue, guard, worker and reaper over an atomic ledger. *Done, proved (safety).*
3. `DfsBudget`: the vendor budget. *Done, proved (the safety of the cap).*
4. `PaddleWebhook`: payments. *Done, proved (safety).*
5. `TrialClaim`: the trial. *Done, proved (safety).*
6. `Crawl`: the crawl job, its budgets, its progress writes. *Done, proved (safety).*
7. `SearchConsole`: consent, credential, mappings, disconnect. *Done, proved (safety).*
8. `ApiKeys`, `Gateway`: keys, their cap, the throttles. *Done, proved.*

Next, in this order:

9. `FreeVendorSpend`: the daily allowance for un-charged vendor calls, read
    before it is spent, composed with the rows of `DfsBudget`.
10. `QueueConnection`: `getBoss`/`stopBoss`, and the duplicate-job check
    `findActiveJobForProject`, which its comment calls no lock.
11. `decideTenant` and `ledgerCommandFor` as operators checked against a table
    of their rules; rank tracking.

Worth a refinement beside `LedgerDomain`: a one-step "run" (nothing, charged
with a result, or refunded) implemented by `JobRun`.

## 3. Modules

Each component has its module, a `...Properties` module that states what it
promises, an `MC...` module with its configurations, and where something is
proved a `...Proofs` module.

### LedgerDomain, CreditLedger

`LedgerDomain` is the state machine of `core/billing/ledger.ts` for one
account: a balance and the open reserves, one action per kind of entry.

`CreditLedger` is the same ledger as PostgreSQL runs it. `txn[s]` is the
transaction of session `s`, at the statement it executes next: `Begin` (up to
the lock), `TakeLock` (`pg_advisory_xact_lock` on the user), `ReadUnderLock`
(the sum, or whether the reserve is settled), `Insert...` (the row and the
commit that frees the lock). Each statement has its own snapshot (READ
COMMITTED), so other sessions run between any two. Grants, purchases and
`override:` corrections take no lock (`Credit`, `Override`). `Rollback` stands
for errors, timeouts and lost connections. The sum of the rows is kept as
`balance`; `net` is a history variable. Idempotence by `(kind, ref)` belongs
to `PaddleWebhook`.

Properties: `Conservation` (balance = given - held), `NeverOverdrawn` (for
accounts no operator corrects by `override:`, which is allowed to go below
zero), `SettledOnce`, and `ImplementsDomain`, the refinement: account by
account each step of the concurrent ledger is one entry of the domain or
nothing.

### JobRun

Per job: the `jobs` row, where `enqueueJob` stands, whether the message was
sent. Per delivery or synchronous call: the program counter of
`executeJob`/`withCredits`. Per reaper: the lane it is in and its batch. The
ledger is atomic here, which `CreditLedger` justifies: a reserve is `none`,
`open`, `committed` or `released`.

Every call has an outcome `ok`, `lost` (took effect, reply lost) or `failed`,
and the code after it is the code's reaction. `Commit` is tried up to
`SETTLE_ATTEMPTS` times and then one read of the ledger (`Disposition`) has
the final word. `CommitLeftBehind`/`LateCommitLands` model a commit request
that outlives its caller's connection. `Crash` ends a run anywhere;
`SweepAborted` a sweep. `AgeRow` and `AgeReserve` are the passing of time: a
row or reserve gets older than its window. With `StalledRuns = FALSE` only
what no live run holds ages (the windows exceed the longest run, as
`reaper.ts:34-37` demands); with `TRUE` a live run can be reaped.

Abstractions: a tool that costs nothing runs without a reserve and is left
out; a missing row, a tenant mismatch and an unregistered handler are the
throw of `GetJob`; the gates before the reserve are a `Reserve` that opens
nothing; the CLI's `userId` scope is left out; the jobs lanes take any batch of
`Limit` aged rows (the order among jobs is abstracted), the ledger lane takes
the oldest, in order, because there the order matters.

Properties: `PaidForWork` (a charge only for work that was done, a result only
for a charge), `RunsOnce` (one start of the tool body, and an ended job stays
ended), `HonestMarks` (the stored error text tells the truth about the money), `MarksStayTrue` (what it
says of the reserve stays true: an open reserve is refunded in the end and
never charged, and a job that says there was none never gets one),
`SettlementIsFinal`, `EveryReserveSettles`, `EveryJobEnds`.

### DfsBudget

One operation books its estimate, makes the requests of its fan-out and
settles. Both transactions of migration 0014 are modelled statement by
statement with the day's lock; the day is fixed when the transaction starts.
The SQL sum over a day is the variable `total`. `Answered` counts an unpriced response at the request's
estimate, `Failed` settles the whole estimate, `RefusedWithPrice` is the port
of `llm-mentions.ts`, `Crash` leaves the row open at its estimate. `billed`
and `over` are history.

Properties: `CapHolds` (the booked total passes the cap by no
more than what was settled above the estimates), `BilledWithinCap` (the real
bill of the operations booked on a day, ports that trust a refusal's price
apart, as long as no request costs more than its estimate).

### PaddleWebhook

A delivery goes from step to step (`pc[s]`) through the route. `stored`,
`stamped`, `purchases` and `subs` are the tables, `acked` what Paddle got a
200 for. `Command` stands for `ledgerCommandFor`, `Refused` for `decideTenant`
under enforcement. `process_paddle_purchase` is modelled statement by
statement under its lock per reference; the other calls are one step each and
may lose their reply (`Reply`). `Fail` is a 500, a crash or a rollback
anywhere. `Operator` changes the price map and the enforcement flag at any
time. A "transaction" event is one with a mappable package and quantity 1;
bundles and events without a user are never credited and stay open until
Paddle gives up. Paddle's retry window of some days is not modelled:
redelivery goes on for ever in the liveness property.

Properties: `GrantedOnce`, `ClosedIsCredited`, `FunnelCountsGrants`,
`NewestWins`, `PaidIsCredited`.

### TrialClaim

An entry (sign-up callback or a later page) claims the trial for a user
through a mailbox fingerprint: `claim_trial` statement by statement, with the
wait on the unique key of `trial_claims` and on the profile row, then the
signup event and the welcome mail with its conditional update. `Addresses` says with
which mailboxes a user comes in; `Nil` is an address without a fingerprint
(the code fails open). Deleting a user (`SET NULL`) is not modelled.

Properties: `LockedIsPaid`, `OneTrialPerMailbox` (a mailbox is granted one
trial, and who is turned away was turned away by a grant), `OneSignupOneWelcome`,
`TrialArrives`.

### Crawl

The job from the worker's claim on: `Resolve` (the project, or none),
`Robots`, `ReadSitemap` and the seeds, then the loop. `ClaimBatch` takes
entries off the queue until every slot has one; `Commit` ends one outstanding
fetch of the batch at a time, in the batch's order, and does with the answer what
the code does: skip, redirect, page, links into the queue, budgets. Because
JavaScript runs the commit phase after all fetches of a batch have ended, that
is all the concurrency there is inside a crawl; between two steps lie the
progress writes (`TickerWrites`, with its snapshot on the way in `flight`,
landing or failing or landing late), the archiving or deletion of the project and
the end of the worker (`Crash`). `Settle`, `WriteRows` and `Complete` end the job.

What a site answers is chosen freely at each fetch from the constants: the end
of the redirects, the links, the size of the record. URL normalisation,
`robots.txt`, address checks and HTML are data handling and abstracted: a URL
is a model value in normal form. The seeds, the sitemap's round-robin and its
limits are operators, evaluated with the real order.

Properties: `AllAccounted` (no URL is two pages; every queued URL ends as a page
or a skip, leads to one, or is or leads to one of the number of skips that did
not fit the list; a job that succeeded has its rows), `DepthIsShortest`
(breadth-first within `include_paths`, while no budget cut the queue), `ResultMovesForward` (a delivered result is never overwritten by a
late progress write, and what a poll sees never goes back).

### SearchConsole

One user and one Google account. `flow[f]` is where consent flow `f` is
(connect, Google's page, callback, verify, find, insert or update); `cookie`
the flow whose one-time cookie the browser holds; `live` the refresh tokens
Google honours. The row of `gsc_accounts` is `account` (its id), `stored`,
`sealedTo` and `status`; `mapped` and `property` are `gsc_connections`,
`project` is `projects`. A call `c` (page view, server action, `pull_gsc_data`)
goes through `pc[c]`: read the credential, refresh, write the mark, list the
sites, open the project, write the mapping, clear it, revoke, delete. Every
step is one call to the database or to Google, may fail, and a write whose
reply is lost may have landed. A token unsealed under another id fails
(`sealedTo`).

Abstractions: the flow's `state`, nonce and PKCE checks are a cookie that is or is not
the flow's own; another Google identity would be another row; a site list
either holds the property or not.

Properties: `IdsAreFinal`, `ConnectedIsStored`, `MappingSurvives`, `StatusHeals`.

### ApiKeys, Gateway

`ApiKeys` is the user's rows of `api_keys` (`key`) and the server actions of
the connection page, each at the call it makes next (`at`): a creation counts,
then inserts; a rotation finds the old key, counts, inserts the new one,
revokes the old one and, if that fails, takes the new one back; a revocation
finds and updates. A call may fail, a write whose reply is lost has landed, a
request may die (`ActionFails`).

`Gateway` puts the request path of one MCP process next to it: `Arrive` takes
a token of the address, `Lookup` reads the row, `Limit` takes a token of the
key, `Serve` runs the tool. A bucket is `createRateLimiter`'s: a level and the
time it was taken, refilled at the next use; `Put` clears the map of addresses
when a new one finds it full. A level is counted in ticks of the clock, so that
fractions of a token occur; the clock may be set back (`SetBack`). `passed`,
`ticks`, `clears` and `late` are history.

Abstractions: the keys of one user, since every query carries his id; a key nobody was given is one
without a row; `last_used_at`, the key's format, and a restart, which forgets
the buckets, are left out. The web's `rate-limit.ts` is the same bucket.

Properties: `KeysBounded` (the cap may be passed by one key for each action under
way, and by no more however long they go on), `BurstBounded`, `RevokedIsOut`.

### How the modules fit

`JobRun` uses the ledger RPCs as atomic steps: `CreditLedger` shows that each
behaves so (`SettledOnce`, `ImplementsDomain`). `PaddleWebhook` and
`TrialClaim` write credits by unlocked inserts: `Credit` of `CreditLedger`.
`DfsBudget` is called from inside a tool body: `Work` of `JobRun`. `Crawl` is
such a body too, seen from inside: its `Complete` is `CompleteJob` of `JobRun`,
whose conditional update is what `ResultMovesForward` relies on. `Gateway` is in
front of every tool call: its `Serve` is where a run of `JobRun` starts. `SearchConsole`
and `Crawl` share `projects`, which the one archives and the other reads.

## 4. Runs

| Run | Configuration | What it shows |
|---|---|---|
| `credit_ledger` | 2 users (one correctable), 2 reserves, 2 sessions, reserves with and without a job, amounts 1 and 2, net credit within 2 | safety and the refinement |
| `job_run` | 1 job, 1 synchronous call, timer and CLI, stalled runs, late commits | what holds even when the windows are too short and commits land late |
| `job_run_live` | 1 job delivered up to twice, 2 commit attempts, 1 reaper, windows longer than runs | the body runs once, ended jobs stay ended, stored texts stay true, reserves settle and jobs end |
| `job_run_starved` | 2 calls, batch of 1 | *violation*: the ledger lane stops at settled rows |
| `dfs_budget` | a fan-out of 2 requests, 2 single operations (one on the port that trusts refusals), cap 5, 2 days | safety of the budget |
| `paddle_webhook` | 2 event ids of one payment, an update and a cancellation of one subscription, 2 deliveries at a time | safety under redelivery and reordering |
| `paddle_webhook_live` | the 2 payment events | payments are credited in the end |
| `trial_claim` | 2 users (one with any address, one with a fixed one), 2 mailboxes, 2 entries at a time | safety of the claim; the trial arrives |
| `crawl` | 6 URLs (one forbidden, one out of scope), 3 pages, 2 fetches at a time, every budget within reach | safety of a crawl and of its progress |
| `crawl_report` | the same | *violation*: a redirected sitemap URL is reported as a gap |
| `search_console` | 2 consent flows, 1 project, 2 calls at a time, one of which disconnects | safety of the link-out; a wrong mark heals |
| `gateway` | cap of 1 key, 4 keys, 2 actions at a time, 1 request, 2 addresses with room for one, 2 ticks | cap, rate and revocation |

**Why these bounds.** Every hazard here is a race of two actors over one
object, or one actor and its own lost reply: two sessions on one user, two
deliveries of one event, two reapers of one job. A second user, mailbox or
subscription event is there where objects could be confused or ordered.
Amounts 1 and 2 and a net of 2 let one reserve fit and two not. A fan-out of
two is the smallest that can fail half-way; a cap of 5 admits it or the two others, and
lets another operation in after it only when it settled below its estimate. `MaxDeliveries = 2` allows one
redelivery. `Limit` is 2 in `job_run`, which
holds every reserve there is; `job_run_live` has one reserve and a limit of 1,
`job_run_starved` two reserves and a limit of 1. In `crawl` each budget is one
below what the site asks for: 3 pages of 4 reachable, a queue of 3, a sitemap
of 3, a result of 4 with records of 1 and 3, and one skip listed, so that a
second and a third are only counted (`crawl_report` lists two, for a report that
was not cut short); the sitemap is missing, names only the forbidden URL, or is
two children that overlap; six URLs are the fewest where a redirect can lead to a page that is queued, visited, forbidden or
out of scope. Two flows are the fewest where an insert can lose its race, and
one call that disconnects next to one that asks for anything else covers each
pair of them. `MaxNet`, `LastDay`, `MaxDeliveries`, `MaxTicks`, `MaxClears` and the set `Keys`
are the only bounds on otherwise unbounded behaviour.

**Deadlock.** `JobRun`, `DfsBudget` and `Crawl` come to rest when all runs are
over, so their configurations switch the deadlock check off (of `Crawl`, TLC
finds that without `Crash` no state but an ended job is stuck); in the other models
clients may always start again and the check is on.

**Symmetry** is used in safety runs only, over interchangeable reserve ids,
sessions, delivery slots, reapers, addresses, key actions and keys (of these the
one requests carry is left out).

**Fairness.**
* `JobRun`: a run with a step left takes it or crashes (weak); time passes
  (weak); a reaper keeps sweeping (weak), and no single database call of it
  fails for ever (strong). The reaper is a timer in a process the platform
  restarts. Nothing is assumed of enqueuers, the queue's delivery or customers.
* `PaddleWebhook`: Paddle redelivers what it got no 200 for, a delivery goes
  on or fails, and no one call fails for ever. `PaidIsCredited` assumes in
  addition that the operator finally puts the price map right and leaves
  enforcement off.
* `TrialClaim`: the user keeps coming in, transactions end, no claim is
  rolled back for ever. `TrialArrives` is about users with one address.
* `SearchConsole`: calls end (weak: a step, or the death of the request); the
  user keeps opening the page, and its read, refresh and mark do not fail for
  ever (strong). Nothing is assumed of consents, Google or the other actions.

Each property of each passing run has a mutant in `PROJECT.json`, a plausible
bug of the code that violates it; the mutants stand beside the actions they
change, marked "Mutant" in the modules.

## 5. Where the code and its documentation disagree

* **The ledger lane can starve** (`job_run_starved`). `sweepOrphanReserves`
  asks for the oldest `limit` `spend_reserve` rows past the cutoff, settled or
  not, and drops the settled ones afterwards. Reserve rows are never deleted, so
  once `limit` old settled rows exist (in production: soon), each sweep reads
  the same rows, and an open reserve without a jobs row is never refunded.
  `reaper.ts:345` says "refund every open reserve older than `cutoffIso`",
  `failure-text.ts:77` "the sweep WILL find and refund it", and
  `scripts/reconciliation.md` offers its query as the same set. In
  `job_run_live` the batch is as large as the number of reserves, and the
  property holds.
* **A gap that is none** (`crawl_report`). `crawl.ts:1804` lists a redirected URL
  as skipped only if its target was crawled before; if the target becomes a page
  by this very fetch, the URL itself is neither a page nor a skip, although
  `crawl.ts:1806` says "record this URL as skipped so it is accounted for rather
  than vanishing". `audit/rules/tech.ts:160` then reports it as "NOT ACCOUNTED
  FOR by the crawl".

Observations without a run, each a trace of the models:

* A request that is refused with a price settles its operation at that price
  (`llm-mentions.ts:1162`), earlier billed requests included; `budget.ts:200-204`
  explains why a failure settles at the estimate and not at "the vendor's reported cost". The
  vendor can then bill a day past the cap, which is why `BilledWithinCap` leaves
  such operations out (`PricedRefusals`).
* When `completeJob` takes effect and only its reply is lost, the job is marked
  as one whose result did not persist although the row holds it
  (`worker.ts:202-220`).
* The vendor cap is one per booking day, so operations booked before midnight
  and billed after it come on top of the next day's (`0014:105`).
* The ledger is read once after the commit attempts failed (`guard.ts:271`). A
  commit still waiting in the database can land after that read and charge a job
  whose text says it will be refunded (`failure-text.ts:77`, "A promise we can
  keep"). `MarksStayTrue` holds where `LateCommits` is FALSE.
* A URL reached by a redirect while it is queued is a page and is later drained
  as "skipped" as well; "redirects to already-crawled URL" may name a target that
  was only forbidden or failed; a page reached by a redirect gets no in-links from
  the pages that link to the redirecting URL; a redirect may leave
  `include_paths`.
* A token verified before a disconnect revokes the whole grant is stored after
  it (by the update before the row's delete, or by an insert after it), and the
  callback answers "connected" for a credential that is already dead
  (`accounts.ts:144-151`, `callback/route.ts:192-207`). The next page view
  marks it invalid.
* Disconnect deletes the row by id after its revoke: a token a second consent
  stored in between goes with it, still honoured by Google, and the answer says
  "revoked" (`actions.ts:286`).
* The archive check of `unmapProject` is stale when its write lands: a project
  archived in between loses the property the page says it keeps
  (`actions.ts:216-224`, `246`).
* A late `invalid` mark lands over a freshly consented credential
  (`accounts.ts:331`); `StatusHeals` is why that is harmless.
* A callback that refuses, or a replayed one, clears the cookie of a newer flow,
  whose consent is then refused.
* `actions.ts:338-339` says of the mappings a disconnect leaves without account
  that "One reconnect brings them all back"; nothing relinks them, as the same
  file says at 401-407.
* If the revocation of the old key lands and only its reply is lost, a rotation
  takes the new key back as well and answers "Rotation failed; your existing key
  is unchanged" (`actions.ts:133-148`): the user, who "is never left without a
  copyable key" (`actions.ts:132`), has none.
* A rotation that dies between its insert and its revocation leaves both keys
  active, the new one known to nobody; `KeysBounded` counts it.

## 6. Proofs

The proofs hold for all values of the constants, from the named assumptions in
the modules (amounts are positive naturals, `Nil` is none of the other values,
estimates and request counts are positive, and the like).

* `CreditLedgerProofs`. The inductive invariant adds to the types that a
  session between lock and insert holds the lock of its user, that a session
  past the read saw what is still true (the balance covers the amount, or the
  reserve is open), and that the amount a settling session carries is that of
  its reserve. `NeverOverdrawn` alone is not inductive: nothing in it says that
  the balance an insert relies on is still there. Under the lock only unlocked
  writers move the balance, and for an account nobody corrects they only raise
  it. `NoOverdraft`, `SingleSettlement` and `Refinement` follow step by step.
  `MoneyConserved` is about the sums themselves: a sum over a finite set is the
  number of its unit pairs (`<<row, i>>` with `i` up to the row's amount), so a
  row more, or a balance moved, changes it by that many. That the recursive
  definition of a sum is that number is shown by giving its solution and
  comparing the two at a smallest set where they differ.
* `DfsBudgetProofs`. The lock's holder is the operation between read and write
  (`Fresh`: the total it read is the total), a reservation therefore decides on
  the truth (`DecidesOnTheTruth`), and `CapHolds` is preserved by booking; a
  settlement moves the total by no more than it adds to `over`. This covers
  vendor prices above the estimate, which the run's prices do not.
  `BillsStayWithinCap` goes on to the real bills, under two hypotheses the run
  meets too: a request costs at most the unit price (`\A p \in Prices : p <=
  Unit`), and an estimate covers the requests of its operation. Then what a day
  was billed plus what its open reservations still hold is at most what was
  booked (`Covered`), each operation stays inside its estimate
  (`InsideEstimates`), and nothing settles above one, so `over` stays 0.
* `PaddleWebhookProofs`. A delivery between `lock` and `write` holds its
  reference's lock, and what NOT EXISTS said is still true (`Holding`,
  `Fresh`); a delivery at `capture` has a grant no other funnel event used
  (`Capturing`); a delivery past the grant, and one that found its event
  stamped, has its credit (`Granted`). From there `SingleGrant`,
  `NoSilentClose`, `FunnelIsHonest` and `NeverRegresses`.
* `JobRunProofs`. No two executions of a spend are past the claim (`Alone`):
  the claim takes the row out of `queued`, and no write of anyone puts it back.
  Without `Alone` nothing a run learned would still hold when it acts. With it,
  the place of a run (`Placed`: a run at `complete` has its reserve committed, a
  run about to work has a body never started), the notes of a reaper (`Found`)
  and the row (`Recorded`: a job nobody claimed has no reserve; a refund that is
  claimed has happened) each say something of the ledger that no other step can
  undo, because a settlement is final. `Earned` carries the work a charge is
  for, commits still in flight included. From these `ChargedForWork`,
  `MarksAreHonest`, `FirstSettlementWins` and `OneRunPerSpend`, with stalled
  runs and late commits allowed. `PromisesKept` says that what a failed job was
  told of its reserve stays true, where `LateCommits` and `StalledRuns` are
  FALSE: a commit that lands after the text was written (section 5), or a run
  that outlasts the reaper's window, would belie it. Its invariant `Told` says
  of each row, run and sweep that speaks of a reserve that no execution is left
  that could settle or open it otherwise.
* `GatewayProofs`. For the rate, what a caller was let through for plus what
  the bucket would hold now is at most the room it was given plus the ticks
  (`Within`); a tick moves both sides by one, a setback lowers the left side, a
  clearing adds a bucket to the right. For the cap, the active keys and the
  inserts still to come are at most the cap and the number of actions
  (`Reckoned`); `KeysBounded` alone says nothing of the inserts under way. For
  revocation, a request that came late is never past the lookup
  (`Barred`), because no row becomes active again.

* `TrialClaimProofs`. A transaction of `claim_trial` that has written holds the
  rows it wrote, so what its statements saw is still true when it commits
  (`Guarded`), and where it stands tells what it has written (`Written`): a
  claim goes with the flip that pays for it. A commit therefore meets the
  tables its statements met, and the counts of a user move together
  (`Counted`). For the signup and the mail, one entry at a time is about to
  count (`Alone`), and it is the first (`First`). `LockedIsPaid` and
  `OneTrialPerMailbox` alone say nothing of the transactions under way.
* `SearchConsoleProofs`. The flow that minted an id of the row, or of a deleted
  row, is over (`Used`: the id cannot be inserted a second time); what a
  callback found names the row or did (`Known`); only a disconnect gets as far
  as the delete, with an id it read (`Aimed`). `OneIdPerRow` follows at once,
  `NoFalseConnection` and `PropertyKept` step by step.
* `CrawlProofs`. At most one progress write is under way, a failed one that may
  still arrive included (`InFlight`: after a failure nothing more is sent), and
  it is not behind what was stored, because the pages only grow (`Shown`);
  the handler's last step alone ends the job (`EndsOnce`). `NeverBackwards`
  follows. `Backed` follows the handler past its two checks to `PaidIsBacked`,
  the last part of `AllAccounted`.

  The rest of the invariant is about the frontier. The page limit holds because
  a batch claims no more slots than it leaves room (`Limited`): at the time of
  the claim, not of the commit. A URL that waits in the queue or the batch was
  claimed once, has no page and no end yet (`Claimed`). `NothingVanishes` needs
  to know of every URL, at every moment, not only at the end: what is neither
  read, listed nor pending is covered by the number of dropped skips (`Counted`),
  and what a page links to was queued or reached (`Linked`).
  `FirstDiscoveryWins` needs the order of the whole queue: what waits, the batch
  first, is sorted by depth and spans two levels at most, and no page is deeper
  than what waits (`Levelled`); so the first discovery of a page is the shortest
  (`Shortest`). A batch that is put back because a budget ran out, items that
  are claimed and dropped, and links that are added in the middle of a batch
  keep this order, a redirect keeps the depth of its slot.

  Batches, links, skips and seeds are built by folds over lists. A fold's
  recursive definition is shown to have a solution by writing it down, and what
  one item passes on to the next is shown to hold at the end of the list by a
  smallest counterexample; one lemma for each fold states its own step.

  The attempt to prove these found three faults of the model, which the run's
  bounds hid. `ClaimItem` had two alternatives that were open at once (a batch
  that is full and an item that was visited). `AllAccounted` counted a URL and
  the dropped URL it redirects to as two, and the code as one: it was false with
  a shorter skip list, which the run now has. `DepthIsShortest` was false of
  pages outside `include_paths` that a redirect leads to: the crawl follows no
  link to them, so their depth is that of the redirect (`crawl.ts:1864`).

Only model-checked: liveness (`EveryReserveSettles`, `EveryJobEnds`,
`PaidIsCredited`, `TrialArrives`, `StatusHeals`), which needs fairness and
ENABLED.

## 7. Not modelled

The queue connection and the duplicate-job check and the
free-run allowance (except as a refusal) are planned above. Tools, parsers, audits, reports, formatting,
dashboard and site are pure data handling or rendering without shared state,
which unit tests reach better than a model checker. Signature checks, token
cryptography and HTTP are taken as preconditions. Row-level security is a
property of PostgreSQL policies that the models take for granted.
