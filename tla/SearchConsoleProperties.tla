----------------------- MODULE SearchConsoleProperties -----------------------
(* What the Search Console link-out promises.                              *)
EXTENDS SearchConsole

(* A callback answers "connected" with the id of the row that holds the    *)
(* very token it was given, sealed to that row: a write that matched no    *)
(* row, or another's, is never reported as a connection                    *)
(* (accounts.ts:134-151, callback/route.ts:214-221).                       *)
ConnectedIsStored ==
    [][\A f \in Flows :
         flow[f] # "connected" /\ flow'[f] = "connected"
         => account' = found'[f] /\ stored' = f /\ sealedTo' = account' /\ status' = "active"]_vars

(* An account id, once answered, names the row until the user disconnects  *)
(* the account, and never again: two first consents at once leave one id,  *)
(* and no consent in flight brings a deleted row back                      *)
(* (accounts.ts:186-200, 144-150).                                         *)
IdsAreFinal ==
    /\ account \notin dropped
    /\ \A f \in Flows : flow[f] = "connected" => found[f] \in {account} \cup dropped

(* Only unmapProject takes a project's property away.  Disconnecting the   *)
(* account, untracking and restoring keep it (actions.ts:336-339,          *)
(* migration 0021).                                                        *)
MappingSurvives ==
    [][\A p \in Projects :
         property[p] /\ ~property'[p] => \E c \in Calls : op[c] = "unmap" /\ target[c] = p]_vars

(* A mark "invalid" on a credential that works does not last: pull_gsc_data *)
(* never clears it, a late mark may land over a fresh consent, and the     *)
(* page's own refresh is what corrects it (accounts.ts:283-287).           *)
StatusHeals ==
    \A f \in Flows :
        stored = f /\ status = "invalid" /\ f \in live
        ~> stored # f \/ f \notin live \/ status = "active"
=============================================================================
