----------------------------- MODULE EndpointCache -----------------------------
(***************************************************************************)
(* API endpoints (database/endpoints.py, routes/management/endpoints.py)   *)
(* and the cache in Redis through which every replica finds the endpoint   *)
(* that an API key stands for (auth.py).                                   *)
(***************************************************************************)
EXTENDS Integers, FiniteSets

CONSTANTS
  Keys,       \* API keys
  Endpoints,  \* identifiers of endpoints, never used again
  Clients,    \* who send requests, one at a time
  Admins,     \* edits of the table, one each (a bound)
  Faults,     \* what may go wrong, see Spend
  MaxFaults   \* how many of them happen (a bound)

ASSUME EndpointAssumption == MaxFaults \in Nat

VARIABLES
  rows,   \* rows[e]: the key of endpoint e, or that it is unborn or deleted
  entry,  \* entry[k]: what Redis has for the key
  look,   \* look[c]: the lookup of c's key
  edit,   \* edit[a]: where the edit stands, and the keys its scan found
  budget, \* faults that may still happen
  late    \* the keys whose entry was stored after its row was edited (history)

endpointVars == <<rows, entry, look, edit, budget, late>>

NoEndpoint == "none"
NoEntry == [id |-> NoEndpoint, ttl |-> FALSE]
NoLook == [at |-> "idle", key |-> "none", found |-> NoEndpoint]
NoEdit == [at |-> "idle", seen |-> {}]

EndpointTypeOK ==
  /\ rows \in [Endpoints -> Keys \union {"unborn", "deleted"}]
  /\ entry \in [Keys -> [id: Endpoints, ttl: BOOLEAN] \union {NoEntry}]
  /\ look \in [Clients -> [at: {"idle", "select", "store", "served"},
                           key: Keys \union {"none"}, found: Endpoints \union {NoEndpoint}]]
  /\ edit \in [Admins -> [at: {"idle", "scan", "drop", "done"}, seen: SUBSET Keys]]
  /\ budget \in 0..MaxFaults
  /\ late \subseteq Keys

EndpointInit ==
  /\ \E f \in [Endpoints -> Keys \union {"unborn"}] :
       /\ \A e, d \in Endpoints : e # d => f[e] # f[d] \/ f[e] = "unborn"
       /\ rows = f
  /\ entry = [k \in Keys |-> NoEntry]
  /\ look = [c \in Clients |-> NoLook]
  /\ edit = [a \in Admins |-> NoEdit]
  /\ budget = MaxFaults
  /\ late = {}

(* "redis_error": a round trip to Redis fails; "crash": a replica dies. *)
Spend(kind) == kind \in Faults /\ budget > 0 /\ budget' = budget - 1

Taken(k) == \E e \in Endpoints : rows[e] = k
Owner(k) == IF Taken(k) THEN CHOOSE e \in Endpoints : rows[e] = k ELSE NoEndpoint

--------------------------------------------------------------------------------
(* _resolve_endpoint *)

(* A hit is the answer; what Redis does not tell is asked of the database.  *)
GetEntry(c) ==
  /\ look[c].at = "idle"
  /\ \E k \in Keys :
       \/ /\ entry[k] # NoEntry
          /\ look' = [look EXCEPT ![c] = [at |-> "served", key |-> k, found |-> entry[k].id]]
          /\ UNCHANGED budget
       \/ /\ look' = [look EXCEPT ![c] = [NoLook EXCEPT !.at = "select", !.key = k]]
          /\ IF entry[k] = NoEntry THEN UNCHANGED budget ELSE Spend("redis_error")
  /\ UNCHANGED <<rows, entry, edit, late>>

SelectEndpoint(c) ==
  LET e == Owner(look[c].key) IN
  /\ look[c].at = "select"
  /\ look' = [look EXCEPT ![c].found = e,
                          ![c].at = IF e = NoEndpoint THEN "served" ELSE "store"]
  /\ UNCHANGED <<rows, entry, edit, budget, late>>

Stores(k, value) ==
  /\ entry' = [entry EXCEPT ![k] = value]
  /\ late' = IF Owner(k) = value.id THEN late \ {k} ELSE late \union {k}

(* Slip: no ex argument. *)
StoreForever(c) ==
  /\ look[c].at = "store"
  /\ look' = [look EXCEPT ![c].at = "served"]
  /\ Stores(look[c].key, [id |-> look[c].found, ttl |-> FALSE])
  /\ UNCHANGED <<rows, edit, budget>>

StoreEntry(c) ==
  /\ look[c].at = "store"
  /\ look' = [look EXCEPT ![c].at = "served"]
  /\ \/ Stores(look[c].key, [id |-> look[c].found, ttl |-> TRUE]) /\ UNCHANGED budget
     \/ Spend("redis_error") /\ UNCHANGED <<entry, late>>
  /\ UNCHANGED <<rows, edit>>

(* The next request of the client. *)
Again(c) ==
  /\ look[c].at = "served"
  /\ look' = [look EXCEPT ![c] = NoLook]
  /\ UNCHANGED <<rows, entry, edit, budget, late>>

Expire(k) ==
  /\ entry[k].ttl
  /\ entry' = [entry EXCEPT ![k] = NoEntry]
  /\ UNCHANGED <<rows, look, edit, budget, late>>

--------------------------------------------------------------------------------
(* The management routes: commit, then empty the cache. *)

Edit(a, e, value) ==
  /\ edit[a].at = "idle"
  /\ rows' = [rows EXCEPT ![e] = value]
  /\ edit' = [edit EXCEPT ![a].at = "scan"]
  /\ UNCHANGED <<entry, look, budget, late>>

(* Keys are unique. *)
CreateEndpoint(a) ==
  \E e \in Endpoints, k \in Keys : rows[e] = "unborn" /\ ~Taken(k) /\ Edit(a, e, k)

(* Slip: the cache is not emptied. *)
RekeyOnly(a) ==
  \E e \in Endpoints, k \in Keys :
    /\ edit[a].at = "idle" /\ rows[e] \in Keys /\ ~Taken(k)
    /\ rows' = [rows EXCEPT ![e] = k]
    /\ edit' = [edit EXCEPT ![a].at = "done"]
    /\ UNCHANGED <<entry, look, budget, late>>

UpdateEndpoint(a) ==
  \E e \in Endpoints, k \in Keys : rows[e] \in Keys /\ ~Taken(k) /\ Edit(a, e, k)

DeleteEndpoint(a) ==
  \E e \in Endpoints : rows[e] \in Keys /\ Edit(a, e, "deleted")

(* invalidate_endpoint_cache: an error is swallowed. *)
ScanKeys(a) ==
  /\ edit[a].at = "scan"
  /\ \/ /\ edit' = [edit EXCEPT ![a] =
               [at |-> "drop", seen |-> {k \in Keys : entry[k] # NoEntry}]]
        /\ UNCHANGED budget
     \/ /\ edit' = [edit EXCEPT ![a].at = "done"]
        /\ Spend("redis_error") \/ Spend("crash")
  /\ UNCHANGED <<rows, entry, look, late>>

DropKeys(a) ==
  /\ edit[a].at = "drop"
  /\ edit' = [edit EXCEPT ![a] = [at |-> "done", seen |-> {}]]
  /\ \/ /\ entry' = [k \in Keys |-> IF k \in edit[a].seen THEN NoEntry ELSE entry[k]]
        /\ UNCHANGED budget
     \/ UNCHANGED entry /\ (Spend("redis_error") \/ Spend("crash"))
  /\ UNCHANGED <<rows, look, late>>

--------------------------------------------------------------------------------

LookUp(c) == GetEntry(c) \/ SelectEndpoint(c) \/ StoreEntry(c)

Administer(a) == CreateEndpoint(a) \/ UpdateEndpoint(a) \/ DeleteEndpoint(a)

Invalidate(a) == ScanKeys(a) \/ DropKeys(a)

EndpointNext ==
  \/ \E c \in Clients : LookUp(c) \/ Again(c)
  \/ \E a \in Admins : Administer(a) \/ Invalidate(a)
  \/ \E k \in Keys : Expire(k)

EndpointSpec == EndpointInit /\ [][EndpointNext]_endpointVars

(* Handlers go on, and Redis expires what has a TTL. *)
FairEndpointSpec ==
  /\ EndpointSpec
  /\ \A c \in Clients : WF_endpointVars(LookUp(c))
  /\ \A a \in Admins : WF_endpointVars(Invalidate(a))
  /\ \A k \in Keys : WF_endpointVars(Expire(k))

--------------------------------------------------------------------------------
(* Properties. *)

Current(k) == entry[k] = NoEntry \/ entry[k].id = Owner(k)

(* Undisturbed, an entry says what the table says, unless its lookup was    *)
(* overtaken by an edit, or an edit has still to empty the cache: the       *)
(* invalidation follows the commit and misses no key.                       *)
Fresh ==
  budget = MaxFaults =>
    \/ \A k \in Keys : Current(k) \/ k \in late
    \/ \E a \in Admins : edit[a].at \in {"scan", "drop"}

(* Whatever failed or came late, the cache ends up saying what the table    *)
(* says, although clients go on asking: every entry has a TTL that a hit    *)
(* does not prolong.                                                        *)
StaleEnds == <>[](\A k \in Keys : Current(k))
================================================================================
