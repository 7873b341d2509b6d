-------------------------- MODULE SearchConsoleProofs --------------------------
(***************************************************************************)
(* The account ids of the link-out, for any consent flows, projects and    *)
(* calls under way.                                                        *)
(*                                                                         *)
(* A uuid is minted once, so the flow of an id that has named the row is   *)
(* over (Used); a callback about to update, and one that has answered,     *)
(* knows an id that names the row or did (Known); only a disconnect gets   *)
(* as far as the delete (Aimed).                                           *)
(***************************************************************************)
EXTENDS SearchConsoleProperties, TLAPS

(* The flow that minted an id of the row, or of a deleted one, is over.    *)
Used == \A f \in Flows : f \in {account} \cup dropped => flow[f] \in {"connected", "refused"}

(* What a callback found is the row's id, or was until a disconnect.       *)
Known ==
    \A f \in Flows :
        flow[f] \in {"update", "connected"} => found[f] # Nil /\ found[f] \in {account} \cup dropped

(* Where a call stands tells what it was asked.                            *)
Aimed ==
    \A c \in Calls :
        /\ op[c] = "disconnect" => held[c] # Nil
        /\ pc[c] \in {"revoke", "delete"} => op[c] = "disconnect"
        /\ pc[c] = "clear" => op[c] = "unmap"

(* The inductive invariant.                                                *)
IInv == TypeOK /\ account \notin dropped /\ Used /\ Known /\ Aimed

(* Nothing is connected, asked or deleted yet.                             *)
LEMMA InitIInv == Init => IInv
  BY SearchConsoleAssumption, SMT DEF Init, IInv, TypeOK, Used, Known, Aimed, Ids

-----------------------------------------------------------------------------
(* A step of the consent flow keeps the invariant: it touches no call, and *)
(* only Insert names the row.                                              *)
LEMMA FlowStepKeeps ==
  ASSUME IInv, NEW f \in Flows, FlowStep(f) PROVE IInv'
  <1> USE SearchConsoleAssumption DEF IInv, TypeOK, Used, Known, Aimed, Ids, Goto, Answer, call, row, mappings, consent
  <1>1. CASE Connect(f)
    BY <1>1, SMTT(30) DEF Connect
  <1>2. CASE Consent(f)
    BY <1>2, SMTT(30) DEF Consent
  <1>3. CASE Callback(f)
    BY <1>3, SMTT(30) DEF Callback, Refuse
  <1>4. CASE Replay(f)
    BY <1>4, SMTT(30) DEF Replay
  <1>5. CASE Verify(f)
    BY <1>5, SMTT(30) DEF Verify, Refuse
  <1>6. CASE FindAccountId(f)
    BY <1>6, SMTT(30) DEF FindAccountId, Refuse
  <1>7. CASE Insert(f)
    BY <1>7, SMTT(30) DEF Insert, Refuse, Connected, SealedCredential
  <1>8. CASE UpdateCredential(f)
    BY <1>8, SMTT(30) DEF UpdateCredential, Refuse, Connected, SealedCredential
  <1>9. CASE CallbackDies(f)
    BY <1>9, SMTT(30) DEF CallbackDies
  <1> QED
    BY <1>1, <1>2, <1>3, <1>4, <1>5, <1>6, <1>7, <1>8, <1>9 DEF FlowStep

-----------------------------------------------------------------------------
(* A call that is begun keeps the invariant: a disconnect begins with the  *)
(* id of the row it read.                                                  *)
LEMMA AskedKeeps ==
  ASSUME IInv, NEW c \in Calls, Asked(c) PROVE IInv'
  <1> USE SearchConsoleAssumption DEF IInv, TypeOK, Used, Known, Aimed, Ids, Operations, Begin, row, mappings, consent
  <1>1. CASE View(c)
    BY <1>1, SMTT(30) DEF View
  <1>2. CASE Disconnect(c)
    BY <1>2, SMTT(30) DEF Disconnect
  <1>3. ASSUME NEW p \in Projects, TrackProperty(c, p) PROVE IInv'
    BY <1>3, SMTT(30) DEF TrackProperty
  <1>4. ASSUME NEW p \in Projects, SaveProperty(c, p) PROVE IInv'
    BY <1>4, SMTT(30) DEF SaveProperty
  <1>5. ASSUME NEW p \in Projects, UnmapProject(c, p) PROVE IInv'
    BY <1>5, SMTT(30) DEF UnmapProject
  <1>6. ASSUME NEW p \in Projects, PullGscData(c, p) PROVE IInv'
    BY <1>6, SMTT(30) DEF PullGscData
  <1> QED
    BY <1>1, <1>2, <1>3, <1>4, <1>5, <1>6 DEF Asked

(* A step of a call keeps it: the delete takes the id out of the row for   *)
(* good, and a mapping is written against the row that is there.           *)
LEMMA CallStepKeeps ==
  ASSUME IInv, NEW c \in Calls, CallStep(c) PROVE IInv'
  <1> USE SearchConsoleAssumption DEF IInv, TypeOK, Used, Known, Aimed, Ids, Operations, Step, End, row, mappings, consent
  <1>1. CASE ReadCredential(c)
    BY <1>1, SMTT(30) DEF ReadCredential, Fail
  <1>2. CASE Refresh(c)
    BY <1>2, SMTT(30) DEF Refresh, Fail
  <1>3. CASE MarkTokenStatus(c)
    BY <1>3, SMTT(30) DEF MarkTokenStatus, Fail, Stamp
  <1>4. CASE ListSites(c)
    BY <1>4, SMTT(30) DEF ListSites
  <1>5. CASE OpenProject(c)
    BY <1>5, SMTT(30) DEF OpenProject
  <1>6. CASE SaveMapping(c)
    <2>1. mapped' \in [Projects -> {Nil, account}]
      BY <1>6, SMT DEF SaveMapping
    <2>2. property' \in [Projects -> BOOLEAN]
      BY <1>6, Zenon DEF SaveMapping
    <2> QED
      BY <1>6, <2>1, <2>2, SMTT(30) DEF SaveMapping
  <1>7. CASE ClearMapping(c)
    <2>1. mapped' \in [Projects -> {Nil, account}]
      BY <1>7, SMT DEF ClearMapping
    <2>2. property' \in [Projects -> BOOLEAN]
      BY <1>7, Zenon DEF ClearMapping
    <2> QED
      BY <1>7, <2>1, <2>2, SMTT(30) DEF ClearMapping
  <1>8. CASE Revoke(c)
    BY <1>8, SMTT(30) DEF Revoke
  <1>9. CASE DeleteAccount(c)
    BY <1>9, SMTT(30) DEF DeleteAccount
  <1>10. CASE CallDies(c)
    BY <1>10, SMTT(30) DEF CallDies
  <1> QED
    BY <1>1, <1>2, <1>3, <1>4, <1>5, <1>6, <1>7, <1>8, <1>9, <1>10 DEF CallStep

-----------------------------------------------------------------------------
(* Every behaviour satisfies the invariant.                                *)
LEMMA Invariance == Spec => []IInv
  <1>1. ASSUME IInv, [Next]_vars PROVE IInv'
    <2> USE <1>1
    <2>1. CASE \E f \in Flows : FlowStep(f)
      BY <2>1, FlowStepKeeps
    <2>2. CASE \E c \in Calls : Asked(c) \/ CallStep(c)
      BY <2>2, AskedKeeps, CallStepKeeps
    <2>3. CASE \E p \in Projects : Untrack(p) \/ Restore(p)
      BY <2>3, SMT DEF Untrack, Restore, IInv, TypeOK, Used, Known, Aimed, Ids, Operations, consent, row, mappings, call
    <2>4. CASE GrantDies
      BY <2>4, SMT DEF GrantDies, IInv, TypeOK, Used, Known, Aimed, Ids, Operations, consent, row, mappings, call
    <2>5. CASE UNCHANGED vars
      BY <2>5, SMT DEF vars, IInv, TypeOK, Used, Known, Aimed, Ids, Operations, consent, row, mappings, call
    <2> QED
      BY <2>1, <2>2, <2>3, <2>4, <2>5 DEF Next
  <1> QED
    BY InitIInv, <1>1, PTL DEF Spec

(* The row, the flows, the calls and the mappings keep their types: a      *)
(* mapping names the row or no account.                                    *)
THEOREM TypeCorrect == Spec => []TypeOK
  <1>1. IInv => TypeOK
    BY DEF IInv
  <1> QED
    BY Invariance, <1>1, PTL

(* An account id, once answered, names the row until a disconnect and      *)
(* never again, however first consents, reconnects and disconnects race.   *)
THEOREM OneIdPerRow == Spec => []IdsAreFinal
  <1>1. IInv => IdsAreFinal
    BY DEF IInv, Known, IdsAreFinal
  <1> QED
    BY Invariance, <1>1, PTL

(* "connected" is answered for the row that holds this consent's token     *)
(* alone: no write that matched no row passes for one that did.            *)
THEOREM NoFalseConnection == Spec => ConnectedIsStored
  <1> DEFINE Step1 ==
        \A f \in Flows :
          flow[f] # "connected" /\ flow'[f] = "connected"
          => account' = found'[f] /\ stored' = f /\ sealedTo' = account' /\ status' = "active"
  <1>1. ASSUME IInv, [Next]_vars PROVE [Step1]_vars
    <2> USE <1>1 DEF IInv, TypeOK, Goto, Answer, Connected, Refuse, SealedCredential
    <2>1. ASSUME NEW f \in Flows, FlowStep(f) PROVE Step1
      <3> USE <2>1
      <3>1. CASE Connect(f) \/ Consent(f) \/ Callback(f) \/ Replay(f) \/ Verify(f)
        BY <3>1, SMT DEF Connect, Consent, Callback, Replay, Verify
      <3>2. CASE FindAccountId(f) \/ CallbackDies(f)
        BY <3>2, SMT DEF FindAccountId, CallbackDies
      <3>3. CASE Insert(f)
        BY <3>3, SMT DEF Insert
      <3>4. CASE UpdateCredential(f)
        BY <3>4, SMT DEF UpdateCredential
      <3> QED
        BY <3>1, <3>2, <3>3, <3>4 DEF FlowStep
    <2>2. ASSUME NEW c \in Calls, Asked(c) PROVE UNCHANGED flow
      BY <2>2 DEF Asked, View, Disconnect, TrackProperty, SaveProperty, UnmapProject, PullGscData, Begin, consent
    <2>3. ASSUME NEW c \in Calls, CallStep(c) PROVE UNCHANGED flow
      BY <2>3 DEF CallStep, ReadCredential, Refresh, MarkTokenStatus, ListSites, OpenProject,
                  SaveMapping, ClearMapping, Revoke, DeleteAccount, CallDies, consent
    <2>4. ASSUME (\E p \in Projects : Untrack(p) \/ Restore(p)) \/ GrantDies PROVE UNCHANGED flow
      BY <2>4 DEF Untrack, Restore, GrantDies, consent
    <2>5. ASSUME UNCHANGED flow PROVE Step1
      BY <2>5
    <2> QED
      BY <2>1, <2>2, <2>3, <2>4, <2>5 DEF Next
  <1> QED
    BY Invariance, <1>1, PTL DEF Spec, ConnectedIsStored

(* Only the user's own unmap takes a project's property away: no           *)
(* disconnect, untrack or restore does, and no race of them.               *)
THEOREM PropertyKept == Spec => MappingSurvives
  <1> DEFINE Kept ==
        \A p \in Projects :
          property[p] /\ ~property'[p] => \E c \in Calls : op[c] = "unmap" /\ target[c] = p
  <1>1. ASSUME IInv, [Next]_vars PROVE [Kept]_vars
    <2> USE <1>1
    <2>1. ASSUME UNCHANGED property PROVE Kept
      BY <2>1
    <2>2. ASSUME NEW c \in Calls, SaveMapping(c) PROVE Kept
      BY <2>2, SMT DEF IInv, TypeOK, SaveMapping, mappings
    <2>3. ASSUME NEW c \in Calls, ClearMapping(c) PROVE Kept
      BY <2>3, SMT DEF IInv, TypeOK, Aimed, ClearMapping, mappings
    <2>4. ASSUME NEW f \in Flows, FlowStep(f) PROVE UNCHANGED property
      BY <2>4 DEF FlowStep, Connect, Consent, Callback, Replay, Verify, FindAccountId, Insert,
                  UpdateCredential, CallbackDies, mappings
    <2>5. ASSUME NEW c \in Calls, Asked(c) PROVE UNCHANGED property
      BY <2>5 DEF Asked, View, Disconnect, TrackProperty, SaveProperty, UnmapProject, PullGscData, Begin, mappings
    <2>6. ASSUME NEW c \in Calls, CallStep(c), ~SaveMapping(c), ~ClearMapping(c) PROVE UNCHANGED property
      BY <2>6 DEF CallStep, ReadCredential, Refresh, MarkTokenStatus, ListSites, OpenProject,
                  Revoke, DeleteAccount, CallDies, mappings
    <2>7. ASSUME (\E p \in Projects : Untrack(p) \/ Restore(p)) \/ GrantDies PROVE UNCHANGED property
      BY <2>7 DEF Untrack, Restore, GrantDies, mappings
    <2> QED
      BY <2>1, <2>2, <2>3, <2>4, <2>5, <2>6, <2>7 DEF Next
  <1> QED
    BY Invariance, <1>1, PTL DEF Spec, MappingSurvives
=============================================================================
