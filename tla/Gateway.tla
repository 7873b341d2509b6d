------------------------------ MODULE Gateway ------------------------------
(***************************************************************************)
(* The MCP gateway of one process: the gates a request passes before a     *)
(* tool runs (server.ts, auth.ts), next to the actions of ApiKeys in the   *)
(* web process.  First the throttle of the client's address, whose map of  *)
(* buckets is cleared when it is full; then the lookup of the key; then    *)
(* the limiter of the key.                                                 *)
(*                                                                         *)
(* A bucket is filled by time, so its level is kept in ticks of the clock: *)
(* a request costs Cost ticks' worth of refill and a full bucket holds     *)
(* Capacity ticks' worth.  The clock is the wall clock of the machine: it  *)
(* may be set back.                                                        *)
(***************************************************************************)
EXTENDS ApiKeys, Integers

CONSTANTS
    Requests, Carried,  \* requests under way at once, and the keys they carry
    Addresses,
    Capacity, Cost,   \* of the bucket of an address or of a key
    MaxEntries,       \* buckets of addresses in memory
    MaxTicks,         \* bound: ticks of the clock
    MaxClears         \* bound: clearings of the map

Callers == Addresses \cup Keys

ASSUME GatewayAssumption ==
    /\ Addresses \cap Keys = {} /\ Carried \subseteq Keys /\ Nil \notin Callers \cup [level : Nat, at : Int]
    /\ Capacity \in [Callers -> Nat] /\ Cost \in [Callers -> Nat \ {0}]
    /\ \A id \in Callers : Cost[id] <= Capacity[id]
    /\ MaxEntries \in Nat \ {0} /\ MaxTicks \in Nat /\ MaxClears \in Nat

VARIABLES
    now,      \* Date.now()
    bucket,   \* in memory, or Nil: its level, and when that was taken
    gate,     \* where each request is
    carries,  \* its key
    late,     \* history: the requests whose key was revoked when they came
    ticks,    \* history: ticks of the clock, those after a setback included
    clears,   \* history: clearings of the map
    passed    \* history: what each caller was let through for, in ticks

request == <<gate, carries, late>>
clock   == <<now, ticks>>
gateway == <<clock, bucket, request, clears, passed>>
vars    == <<key, actions, gateway>>

TypeOK ==
    /\ KeysTypeOK
    /\ now \in Int /\ ticks \in Nat /\ clears \in Nat
    /\ bucket \in [Callers -> [level : Nat, at : Int] \cup {Nil}]
    /\ gate \in [Requests -> {"idle", "lookup", "limit", "serve"}]
    /\ carries \in [Requests -> Keys \cup {Nil}] /\ late \subseteq Requests
    /\ passed \in [Callers -> Nat]

Init ==
    /\ KeysInit /\ now = 0 /\ ticks = 0 /\ clears = 0
    /\ bucket = [id \in Callers |-> Nil]
    /\ gate = [q \in Requests |-> "idle"] /\ carries = [q \in Requests |-> Nil]
    /\ late = {} /\ passed = [id \in Callers |-> 0]

-----------------------------------------------------------------------------
(* createRateLimiter.                                                      *)
Refilled(id) ==
    IF bucket[id] = Nil THEN Capacity[id]
    ELSE LET waited == IF now > bucket[id].at THEN now - bucket[id].at ELSE 0
             sum    == bucket[id].level + waited
         IN  IF sum < Capacity[id] THEN sum ELSE Capacity[id]

(* Only the map of addresses is bounded.  A new address that finds it full *)
(* empties it.                                                             *)
Held     == {ip \in Addresses : bucket[ip] # Nil}
Full(id) == id \in Addresses \ Held /\ Cardinality(Held) >= MaxEntries

Put(id, entry) ==
    IF Full(id)
    THEN /\ bucket' = [i \in Callers |->
                          IF i = id THEN entry ELSE IF i \in Addresses THEN Nil ELSE bucket[i]]
         /\ clears < MaxClears /\ clears' = clears + 1
    ELSE bucket' = [bucket EXCEPT ![id] = entry] /\ UNCHANGED clears

(* Mutant: a fraction of a token is enough.                                *)
Consume_Fraction(id) ==
    /\ Refilled(id) > 0
    /\ Put(id, [level |-> Refilled(id) - Cost[id], at |-> now])
    /\ passed' = [passed EXCEPT ![id] = @ + Cost[id]]

(* Mutant: the level is refilled, the time it was refilled at is not kept. *)
Consume_KeepsTime(id) ==
    /\ Refilled(id) >= Cost[id]
    /\ Put(id, [level |-> Refilled(id) - Cost[id],
                at |-> IF bucket[id] = Nil THEN now ELSE bucket[id].at])
    /\ passed' = [passed EXCEPT ![id] = @ + Cost[id]]

Consume(id) ==
    /\ Refilled(id) >= Cost[id]
    /\ Put(id, [level |-> Refilled(id) - Cost[id], at |-> now])
    /\ passed' = [passed EXCEPT ![id] = @ + Cost[id]]

Deny(id) ==
    /\ Refilled(id) < Cost[id]
    /\ Put(id, [level |-> Refilled(id), at |-> now]) /\ UNCHANGED passed

-----------------------------------------------------------------------------
(* handleMcpPost.                                                          *)
Goto(q, place) == gate' = [gate EXCEPT ![q] = place]

Leave(q) ==
    /\ Goto(q, "idle") /\ carries' = [carries EXCEPT ![q] = Nil] /\ late' = late \ {q}

(* A key nobody was given is one without a row.  Past the throttle of its  *)
(* address, or 429.                                                        *)
Arrive(q, k, ip) ==
    /\ gate[q] = "idle"
    /\ \/ /\ Consume(ip) /\ Goto(q, "lookup") /\ carries' = [carries EXCEPT ![q] = k]
          /\ late' = IF key[k] = "revoked" THEN late \cup {q} ELSE late
       \/ Deny(ip) /\ UNCHANGED request
    /\ UNCHANGED <<key, actions, clock>>

(* Mutant: the lookup does not ask for revoked_at.                         *)
Lookup_AnyRow(q) ==
    /\ gate[q] = "lookup"
    /\ (key[carries[q]] # "none" /\ Goto(q, "limit") /\ UNCHANGED <<carries, late>>) \/ Leave(q)
    /\ UNCHANGED <<key, actions, clock, bucket, clears, passed>>

(* An active row; else 401, or 500.                                        *)
Lookup(q) ==
    /\ gate[q] = "lookup"
    /\ (key[carries[q]] = "active" /\ Goto(q, "limit") /\ UNCHANGED <<carries, late>>) \/ Leave(q)
    /\ UNCHANGED <<key, actions, clock, bucket, clears, passed>>

Limit(q) ==
    /\ gate[q] = "limit"
    /\ \/ Consume(carries[q]) /\ Goto(q, "serve") /\ UNCHANGED <<carries, late>>
       \/ Deny(carries[q]) /\ Leave(q)
    /\ UNCHANGED <<key, actions, clock>>

Serve(q) ==
    /\ gate[q] = "serve" /\ Leave(q)
    /\ UNCHANGED <<key, actions, clock, bucket, clears, passed>>

Tick ==
    /\ ticks < MaxTicks /\ now' = now + 1 /\ ticks' = ticks + 1
    /\ UNCHANGED <<key, actions, bucket, request, clears, passed>>

SetBack ==
    /\ now > 0 /\ now' = now - 1
    /\ UNCHANGED <<key, actions, ticks, bucket, request, clears, passed>>

-----------------------------------------------------------------------------
RequestStep(q) ==
    \/ \E k \in Carried, ip \in Addresses : Arrive(q, k, ip)
    \/ Lookup(q) \/ Limit(q) \/ Serve(q)

Next ==
    \/ \E a \in Actions : ActionStep(a) /\ UNCHANGED gateway
    \/ \E q \in Requests : RequestStep(q)
    \/ Tick \/ SetBack

Spec == Init /\ [][Next]_vars
=============================================================================
