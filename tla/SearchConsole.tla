--------------------------- MODULE SearchConsole ---------------------------
(***************************************************************************)
(* The Search Console link-out of one user with one Google account: the    *)
(* consent flow (apps/web/app/api/gsc), the gsc_accounts row that holds    *)
(* its refresh token (lib/gsc/accounts.ts), and everything that uses the   *)
(* row: the connection page, its server actions (save, track, untrack,     *)
(* restore, unmap, disconnect) and the MCP server's pull_gsc_data.         *)
(*                                                                         *)
(* A consent flow names what it may yield: its code, its refresh token and *)
(* the uuid its callback mints for a new row.  Each step is one call to    *)
(* the database or to Google; any call may fail, and a write whose reply   *)
(* is lost may have landed.                                                *)
(***************************************************************************)
CONSTANTS
    Flows,          \* consent flows the user may start
    Projects,
    Calls, Asks,    \* calls under way at once, and what each may be asked
    Nil

Operations == {"view", "pull", "save", "track", "unmap", "disconnect"}

ASSUME SearchConsoleAssumption ==
    Nil \notin Flows \cup Projects /\ Asks \in [Calls -> SUBSET Operations]

VARIABLES
    flow,           \* where each consent flow is
    found,          \* the account id its callback has, or answered "connected" with
    cookie,         \* the flow whose one-time cookie the browser holds
    live,           \* Google: the refresh tokens it honours
    account,        \* gsc_accounts: the id of the row, or Nil
    stored,         \* its token
    sealedTo,       \* the id the token was sealed to
    status,         \* its token_status
    project,        \* projects: none, tracked or archived
    mapped,         \* gsc_connections: account_id
    property,       \* gsc_connections: is a property stored?
    pc, op,         \* of each call: its next step, and what was asked
    held, token,    \* the account id and the refresh token it works with
    target,         \* the project it is about
    dropped         \* history: the account ids deleted

consent  == <<flow, found, cookie>>
row      == <<account, stored, sealedTo, status, dropped>>
mappings == <<mapped, property>>
call     == <<pc, op, held, token, target>>
vars     == <<consent, live, row, project, mappings, call>>

Ids == Flows \cup {Nil}

(* With the foreign key: a mapping names the row, or no account.           *)
TypeOK ==
    /\ flow \in [Flows -> {"new", "consent", "denied", "code", "verify", "find", "insert",
                           "refind", "update", "connected", "refused"}]
    /\ found \in [Flows -> Ids] /\ cookie \in Ids /\ live \subseteq Flows
    /\ account \in Ids /\ stored \in Ids /\ sealedTo \in Ids
    /\ status \in {"active", "invalid"} /\ dropped \subseteq Flows
    /\ project \in [Projects -> {"none", "tracked", "archived"}]
    /\ mapped \in [Projects -> {Nil, account}] /\ property \in [Projects -> BOOLEAN]
    /\ pc \in [Calls -> {"idle", "read", "refresh", "active", "invalid", "sites", "open",
                         "write", "clear", "revoke", "delete"}]
    /\ op \in [Calls -> Operations \cup {"none"}]
    /\ held \in [Calls -> Ids] /\ token \in [Calls -> Ids]
    /\ target \in [Calls -> Projects \cup {Nil}]

Init ==
    /\ flow = [f \in Flows |-> "new"] /\ found = [f \in Flows |-> Nil] /\ cookie = Nil
    /\ live = {} /\ dropped = {}
    /\ account = Nil /\ stored = Nil /\ sealedTo = Nil /\ status = "active"
    /\ project = [p \in Projects |-> "none"]
    /\ mapped = [p \in Projects |-> Nil] /\ property = [p \in Projects |-> FALSE]
    /\ pc = [c \in Calls |-> "idle"] /\ op = [c \in Calls |-> "none"]
    /\ held = [c \in Calls |-> Nil] /\ token = [c \in Calls |-> Nil]
    /\ target = [c \in Calls |-> Nil]

-----------------------------------------------------------------------------
(* The consent flow.  Its callback ends the flow: whatever it answers      *)
(* takes the browser's cookie away, be it this flow's or a newer one's.    *)
Goto(f, step) == flow' = [flow EXCEPT ![f] = step]

Answer(f, outcome, id) ==
    Goto(f, outcome) /\ cookie' = Nil /\ found' = [found EXCEPT ![f] = id]

Connected(f, id) == Answer(f, "connected", id)
Refuse(f)        == Answer(f, "refused", Nil)

Connect(f) ==
    /\ flow[f] = "new"
    /\ Goto(f, "consent") /\ cookie' = f
    /\ UNCHANGED <<found, live, row, project, mappings, call>>

(* At Google's consent page.                                               *)
Consent(f) ==
    /\ flow[f] = "consent"
    /\ Goto(f, "code") \/ Goto(f, "denied")
    /\ UNCHANGED <<found, cookie, live, row, project, mappings, call>>

(* Past state, session and cookie the code is exchanged.  A state may have *)
(* expired; an answer of Google without identity or token is refused.      *)
Callback(f) ==
    /\ \/ /\ flow[f] = "code" /\ cookie = f
          /\ live' = live \cup {f}
          /\ (Goto(f, "verify") /\ UNCHANGED <<found, cookie>>) \/ Refuse(f)
       \/ flow[f] \in {"code", "denied"} /\ Refuse(f) /\ UNCHANGED live
    /\ UNCHANGED <<row, project, mappings, call>>

(* The same URL again: no cookie, or a code that Google does not redeem.   *)
Replay(f) ==
    /\ flow[f] \notin {"new", "consent", "code", "denied"}
    /\ cookie' = Nil
    /\ UNCHANGED <<flow, found, live, row, project, mappings, call>>

(* No usable listing, no stored token.                                     *)
Verify(f) ==
    /\ flow[f] = "verify"
    /\ \/ f \in live /\ Goto(f, "find") /\ UNCHANGED <<found, cookie>>
       \/ Refuse(f)
    /\ UNCHANGED <<live, row, project, mappings, call>>

(* The user's row of this Google account, looked up before the insert and  *)
(* after one that lost its race.                                           *)
FindAccountId(f) ==
    /\ flow[f] \in {"find", "refind"}
    /\ \/ /\ account # Nil
          /\ found' = [found EXCEPT ![f] = account] /\ Goto(f, "update") /\ UNCHANGED cookie
       \/ /\ account = Nil /\ flow[f] = "find"
          /\ Goto(f, "insert") /\ UNCHANGED <<found, cookie>>
       \/ Refuse(f)
    /\ UNCHANGED <<live, row, project, mappings, call>>

SealedCredential(f, id) == stored' = f /\ sealedTo' = id /\ status' = "active"

(* Mutant: one upsert, whose conflict rewrites the row's primary key.      *)
Insert_Upsert(f) ==
    /\ flow[f] = "insert"
    /\ \/ /\ account' = f /\ SealedCredential(f, f)
          /\ mapped' = [p \in Projects |-> IF mapped[p] = Nil THEN Nil ELSE f]
          /\ Connected(f, f) /\ UNCHANGED dropped
       \/ Refuse(f) /\ UNCHANGED <<row, mapped>>
    /\ UNCHANGED <<live, project, property, call>>

(* The id is minted here, for the seal.  (user_id, sub) is unique.         *)
Insert(f) ==
    /\ flow[f] = "insert"
    /\ \/ /\ account = Nil /\ account' = f /\ SealedCredential(f, f) /\ UNCHANGED dropped
          /\ Connected(f, f) \/ Refuse(f)
       \/ account # Nil /\ Goto(f, "refind") /\ UNCHANGED <<found, cookie, row>>
       \/ Refuse(f) /\ UNCHANGED row
    /\ UNCHANGED <<live, project, mappings, call>>

(* Mutant: an update that matched no row is taken for one that did.        *)
UpdateCredential_ZeroRows(f) ==
    /\ flow[f] = "update"
    /\ \/ /\ account = found[f] /\ SealedCredential(f, found[f]) /\ UNCHANGED <<account, dropped>>
          /\ Connected(f, found[f]) \/ Refuse(f)
       \/ account # found[f] /\ Connected(f, found[f]) /\ UNCHANGED row
       \/ Refuse(f) /\ UNCHANGED row
    /\ UNCHANGED <<live, project, mappings, call>>

(* Mutant: an update that matched no row inserts the row again.            *)
UpdateCredential_Reinsert(f) ==
    /\ flow[f] = "update"
    /\ \/ /\ account \in {found[f], Nil} /\ account' = found[f]
          /\ SealedCredential(f, found[f]) /\ UNCHANGED dropped
          /\ Connected(f, found[f]) \/ Refuse(f)
       \/ Refuse(f) /\ UNCHANGED row
    /\ UNCHANGED <<live, project, mappings, call>>

(* Sealed again in place; no row, or an error, is a refusal.               *)
UpdateCredential(f) ==
    /\ flow[f] = "update"
    /\ \/ /\ account = found[f] /\ SealedCredential(f, found[f]) /\ UNCHANGED <<account, dropped>>
          /\ Connected(f, found[f]) \/ Refuse(f)
       \/ Refuse(f) /\ UNCHANGED row
    /\ UNCHANGED <<live, project, mappings, call>>

(* The process dies under a callback: no answer, and the cookie stays.     *)
CallbackDies(f) ==
    /\ flow[f] \in {"verify", "find", "insert", "refind", "update"}
    /\ Goto(f, "refused") /\ found' = [found EXCEPT ![f] = Nil]
    /\ UNCHANGED <<cookie, live, row, project, mappings, call>>

(* The user, or Google, withdraws the grant.                               *)
GrantDies ==
    /\ live # {} /\ live' = {}
    /\ UNCHANGED <<consent, row, project, mappings, call>>

-----------------------------------------------------------------------------
(* Calls: page views, server actions, tool runs.                           *)
Step(c, next) == pc' = [pc EXCEPT ![c] = next] /\ UNCHANGED <<op, held, token, target>>

End(c) ==
    /\ pc' = [pc EXCEPT ![c] = "idle"] /\ op' = [op EXCEPT ![c] = "none"]
    /\ held' = [held EXCEPT ![c] = Nil] /\ token' = [token EXCEPT ![c] = Nil]
    /\ target' = [target EXCEPT ![c] = Nil]

(* A throw: disconnect goes on without a token, any other call is over.    *)
Fail(c) ==
    \/ /\ op[c] = "disconnect"
       /\ pc' = [pc EXCEPT ![c] = "delete"] /\ token' = [token EXCEPT ![c] = Nil]
       /\ UNCHANGED <<op, held, target>>
    \/ op[c] # "disconnect" /\ End(c)

Begin(c, what, id, p, next) ==
    /\ pc[c] = "idle" /\ what \in Asks[c]
    /\ pc' = [pc EXCEPT ![c] = next] /\ op' = [op EXCEPT ![c] = what]
    /\ held' = [held EXCEPT ![c] = id] /\ target' = [target EXCEPT ![c] = p]
    /\ UNCHANGED <<token, consent, live, row, project, mappings>>

View(c)           == account # Nil /\ Begin(c, "view", account, Nil, "read")
Disconnect(c)     == account # Nil /\ Begin(c, "disconnect", account, Nil, "read")
TrackProperty(c, p) == account # Nil /\ Begin(c, "track", account, p, "read")

(* An archived project is refused by these three.                          *)
SaveProperty(c, p) ==
    account # Nil /\ project[p] = "tracked" /\ Begin(c, "save", account, p, "read")

UnmapProject(c, p) == project[p] = "tracked" /\ Begin(c, "unmap", Nil, p, "clear")

PullGscData(c, p) ==
    /\ project[p] # "archived" /\ mapped[p] # Nil /\ property[p]
    /\ Begin(c, "pull", mapped[p], p, "read")

(* accessTokenFor, and the same read and refresh in the MCP server.        *)
ReadCredential(c) ==
    /\ pc[c] = "read"
    /\ \/ /\ account = held[c] /\ sealedTo = held[c]
          /\ token' = [token EXCEPT ![c] = stored]
          /\ pc' = [pc EXCEPT ![c] = "refresh"] /\ UNCHANGED <<op, held, target>>
       \/ Fail(c)
    /\ UNCHANGED <<consent, live, row, project, mappings>>

(* Only invalid_grant condemns the credential.  A pull never acquits it.   *)
Refresh(c) ==
    /\ pc[c] = "refresh"
    /\ \/ token[c] \in live /\ op[c] # "pull" /\ Step(c, "active")
       \/ token[c] \notin live /\ Step(c, "invalid")
       \/ Fail(c)
    /\ UNCHANGED <<consent, live, row, project, mappings>>

Stamp(c) == status' = IF account = held[c] THEN pc[c] ELSE status

(* Mutant: a token that works again is not recorded.                       *)
MarkTokenStatus_OnlyInvalid(c) ==
    /\ pc[c] \in {"active", "invalid"}
    /\ \/ /\ pc[c] = "active" /\ UNCHANGED status
          /\ Step(c, IF op[c] = "disconnect" THEN "revoke" ELSE "sites")
       \/ ((pc[c] = "invalid" /\ Stamp(c)) \/ UNCHANGED status) /\ Fail(c)
    /\ UNCHANGED <<consent, live, account, stored, sealedTo, dropped, project, mappings>>

(* The mark is written; then invalid_grant, or a failed write, throws.     *)
MarkTokenStatus(c) ==
    /\ pc[c] \in {"active", "invalid"}
    /\ \/ /\ pc[c] = "active" /\ Stamp(c)
          /\ Step(c, IF op[c] = "disconnect" THEN "revoke" ELSE "sites")
       \/ (Stamp(c) \/ UNCHANGED status) /\ Fail(c)
    /\ UNCHANGED <<consent, live, account, stored, sealedTo, dropped, project, mappings>>

(* sites.list: the page shows it; the property asked for has to be in it.  *)
ListSites(c) ==
    /\ pc[c] = "sites"
    /\ \/ token[c] \in live /\ op[c] = "save" /\ Step(c, "write")
       \/ token[c] \in live /\ op[c] = "track" /\ Step(c, "open")
       \/ End(c)
    /\ UNCHANGED <<consent, live, row, project, mappings>>

(* The domain's project: as it is, restored, or inserted.                  *)
OpenProject(c) ==
    /\ pc[c] = "open"
    /\ \/ project' = [project EXCEPT ![target[c]] = "tracked"] /\ (Step(c, "write") \/ End(c))
       \/ UNCHANGED project /\ End(c)
    /\ UNCHANGED <<consent, live, row, mappings>>

(* Mutant: the database takes an account id that names no row.             *)
SaveMapping_NoForeignKey(c) ==
    /\ pc[c] = "write" /\ End(c)
    /\ \/ /\ mapped' = [mapped EXCEPT ![target[c]] = held[c]]
          /\ property' = [property EXCEPT ![target[c]] = TRUE]
       \/ UNCHANGED mappings
    /\ UNCHANGED <<consent, live, row, project>>

(* One upsert; the foreign key refuses an account that is gone.            *)
SaveMapping(c) ==
    /\ pc[c] = "write" /\ End(c)
    /\ \/ /\ account = held[c]
          /\ mapped' = [mapped EXCEPT ![target[c]] = held[c]]
          /\ property' = [property EXCEPT ![target[c]] = TRUE]
       \/ UNCHANGED mappings
    /\ UNCHANGED <<consent, live, row, project>>

ClearMapping(c) ==
    /\ pc[c] = "clear" /\ End(c)
    /\ \/ /\ mapped' = [mapped EXCEPT ![target[c]] = Nil]
          /\ property' = [property EXCEPT ![target[c]] = FALSE]
       \/ UNCHANGED mappings
    /\ UNCHANGED <<consent, live, row, project>>

(* A revoke takes the whole grant: every token of it.  Acknowledged or not *)
(* the row goes next.                                                      *)
Revoke(c) ==
    /\ pc[c] = "revoke" /\ Step(c, "delete")
    /\ \/ token[c] \in live /\ live' = {}
       \/ UNCHANGED live
    /\ UNCHANGED <<consent, row, project, mappings>>

(* Mutant: the account's mappings are deleted with it.                     *)
DeleteAccount_Cascade(c) ==
    /\ pc[c] = "delete" /\ End(c)
    /\ \/ /\ account = held[c] /\ account' = Nil
          /\ stored' = Nil /\ sealedTo' = Nil /\ status' = "active"
          /\ dropped' = dropped \cup {held[c]}
          /\ property' = [p \in Projects |-> property[p] /\ mapped[p] # held[c]]
          /\ mapped' = [p \in Projects |-> Nil]
       \/ UNCHANGED <<row, mappings>>
    /\ UNCHANGED <<consent, live, project>>

(* On delete set null: a mapping loses its account, not its property.      *)
DeleteAccount(c) ==
    /\ pc[c] = "delete" /\ End(c)
    /\ \/ /\ account = held[c] /\ account' = Nil
          /\ stored' = Nil /\ sealedTo' = Nil /\ status' = "active"
          /\ dropped' = dropped \cup {held[c]}
          /\ mapped' = [p \in Projects |-> Nil]
       \/ UNCHANGED <<row, mapped>>
    /\ UNCHANGED <<consent, live, project, property>>

CallDies(c) ==
    /\ pc[c] # "idle" /\ End(c)
    /\ UNCHANGED <<consent, live, row, project, mappings>>

(* One update of archived_at each; the mapping is left alone.              *)
Untrack(p) ==
    /\ project[p] = "tracked" /\ project' = [project EXCEPT ![p] = "archived"]
    /\ UNCHANGED <<consent, live, row, mappings, call>>

Restore(p) ==
    /\ project[p] = "archived" /\ project' = [project EXCEPT ![p] = "tracked"]
    /\ UNCHANGED <<consent, live, row, mappings, call>>

-----------------------------------------------------------------------------
FlowStep(f) ==
    \/ Connect(f) \/ Consent(f) \/ Callback(f) \/ Replay(f) \/ Verify(f) \/ FindAccountId(f)
    \/ Insert(f) \/ UpdateCredential(f) \/ CallbackDies(f)

Asked(c) ==
    \/ View(c) \/ Disconnect(c)
    \/ \E p \in Projects :
          TrackProperty(c, p) \/ SaveProperty(c, p) \/ UnmapProject(c, p) \/ PullGscData(c, p)

CallStep(c) ==
    \/ ReadCredential(c) \/ Refresh(c) \/ MarkTokenStatus(c) \/ ListSites(c)
    \/ OpenProject(c) \/ SaveMapping(c) \/ ClearMapping(c) \/ Revoke(c) \/ DeleteAccount(c)
    \/ CallDies(c)

Next ==
    \/ \E f \in Flows : FlowStep(f)
    \/ \E c \in Calls : Asked(c) \/ CallStep(c)
    \/ \E p \in Projects : Untrack(p) \/ Restore(p)
    \/ GrantDies

(* Every call ends; the user keeps opening the page, and the steps of a    *)
(* view do not fail for ever.                                              *)
Fairness ==
    /\ \A c \in Calls : WF_vars(CallStep(c))
    /\ SF_vars(\E c \in Calls : View(c))
    /\ SF_vars(\E c \in Calls : ReadCredential(c) /\ op[c] = "view" /\ pc'[c] = "refresh")
    /\ SF_vars(\E c \in Calls : Refresh(c) /\ op[c] = "view" /\ pc'[c] = "active")
    /\ SF_vars(\E c \in Calls : MarkTokenStatus(c) /\ op[c] = "view" /\ pc'[c] = "sites")

Spec == Init /\ [][Next]_vars /\ Fairness
=============================================================================
