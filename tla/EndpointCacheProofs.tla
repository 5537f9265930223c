-------------------------- MODULE EndpointCacheProofs --------------------------
(***************************************************************************)
(* The cache of API endpoints, for any number of keys, endpoints, clients  *)
(* and administrators: as long as Redis answers and no replica dies, what  *)
(* it says of a key is what the table says, or the invalidation that       *)
(* removes it is still on its way (Explained), or a lookup came late.      *)
(***************************************************************************)
EXTENDS EndpointCache, TLAPS

(* A lookup that goes on has a key, and one that stores found an endpoint. *)
Lookup(l) ==
  /\ l \in [at: {"idle", "select", "store", "served"},
            key: Keys \union {"none"}, found: Endpoints \union {NoEndpoint}]
  /\ l.at \in {"select", "store"} => l.key \in Keys
  /\ l.at = "store" => l.found \in Endpoints

TypeInv == EndpointTypeOK /\ \A c \in Clients : Lookup(look[c])

(* An invalidation that will still remove the entry of k: one that has not  *)
(* listed the keys yet, or found k among them.                              *)
Awaiting(k) ==
  \E a \in Admins : edit[a].at = "scan" \/ (edit[a].at = "drop" /\ k \in edit[a].seen)

Explained == \A k \in Keys : Current(k) \/ k \in late \/ Awaiting(k)

Inv == TypeInv /\ (budget = MaxFaults => Explained)

--------------------------------------------------------------------------------
(* Types. *)

Values == [id: Endpoints, ttl: BOOLEAN] \union {NoEntry}
Edits == [at: {"idle", "scan", "drop", "done"}, seen: SUBSET Keys]

LEMMA OwnerType == \A k : Owner(k) \in Endpoints \union {NoEndpoint}
BY DEF Owner, Taken

LEMMA SpendType ==
  ASSUME budget \in 0..MaxFaults, UNCHANGED budget \/ \E kind : Spend(kind)
  PROVE  budget' \in 0..MaxFaults /\ (budget' = MaxFaults => UNCHANGED budget)
BY EndpointAssumption DEF Spend

LEMMA InitType == EndpointInit => TypeInv
<1> SUFFICES ASSUME EndpointInit PROVE TypeInv
  OBVIOUS
<1>1. EndpointTypeOK
  BY EndpointAssumption DEF EndpointInit, EndpointTypeOK, NoLook, NoEdit
<1>2. \A c \in Clients : Lookup(look[c])
  BY DEF EndpointInit, Lookup, NoLook
<1> QED BY <1>1, <1>2 DEF TypeInv

(* A step of the lookup of one client. *)
LEMMA LookType ==
  ASSUME TypeInv, NEW c \in Clients, NEW l, Lookup(l), look' = [look EXCEPT ![c] = l],
         UNCHANGED <<rows, edit>>, entry' \in [Keys -> Values], late' \subseteq Keys,
         UNCHANGED budget \/ \E kind : Spend(kind)
  PROVE  TypeInv'
<1>1. EndpointTypeOK'
  BY SpendType DEF TypeInv, EndpointTypeOK, Lookup, Values
<1>2. \A d \in Clients : Lookup(look'[d])
  BY DEF TypeInv, EndpointTypeOK
<1> QED BY <1>1, <1>2 DEF TypeInv, Lookup

LEMMA GetEntryType == ASSUME TypeInv, NEW c \in Clients, GetEntry(c) PROVE TypeInv'
<1>0. UNCHANGED <<rows, edit, entry, late>> /\ entry' \in [Keys -> Values] /\ late' \subseteq Keys
  BY DEF GetEntry, TypeInv, EndpointTypeOK, Values
<1>1. PICK k \in Keys :
       \/ /\ entry[k] # NoEntry
          /\ look' = [look EXCEPT ![c] = [at |-> "served", key |-> k, found |-> entry[k].id]]
          /\ UNCHANGED budget
       \/ /\ look' = [look EXCEPT ![c] = [at |-> "select", key |-> k, found |-> NoEndpoint]]
          /\ UNCHANGED budget \/ Spend("redis_error")
  BY DEF GetEntry, NoLook
<1>2. Lookup([at |-> "select", key |-> k, found |-> NoEndpoint])
  BY DEF Lookup
<1>3. entry[k] # NoEntry => Lookup([at |-> "served", key |-> k, found |-> entry[k].id])
  BY DEF Lookup, TypeInv, EndpointTypeOK
<1>4. PICK l : Lookup(l) /\ look' = [look EXCEPT ![c] = l]
  BY <1>1, <1>2, <1>3
<1> QED BY <1>0, <1>1, <1>4, LookType

LEMMA SelectEndpointType == ASSUME TypeInv, NEW c \in Clients, SelectEndpoint(c) PROVE TypeInv'
<1> DEFINE e == Owner(look[c].key)
           l == [at |-> IF e = NoEndpoint THEN "served" ELSE "store",
                 key |-> look[c].key, found |-> e]
<1>1. Lookup(l)
  BY OwnerType DEF Lookup, SelectEndpoint, TypeInv
<1>2. look' = [look EXCEPT ![c] = l]
  BY DEF SelectEndpoint, TypeInv, Lookup, EndpointTypeOK
<1>3. /\ UNCHANGED <<rows, entry, edit, budget, late>>
      /\ entry' \in [Keys -> Values] /\ late' \subseteq Keys
  BY DEF SelectEndpoint, TypeInv, EndpointTypeOK, Values
<1> HIDE DEF l
<1> QED BY <1>1, <1>2, <1>3, LookType

LEMMA StoreEntryType == ASSUME TypeInv, NEW c \in Clients, StoreEntry(c) PROVE TypeInv'
<1> DEFINE l == [at |-> "served", key |-> look[c].key, found |-> look[c].found]
<1>1. Lookup(l) /\ look[c].key \in Keys /\ look[c].found \in Endpoints
  BY DEF Lookup, StoreEntry, TypeInv
<1>2. look' = [look EXCEPT ![c] = l]
  <2>1. PICK r : r = look[c]
    OBVIOUS
  <2>2. r = [at |-> r.at, key |-> r.key, found |-> r.found]
    BY <2>1 DEF TypeInv, Lookup
  <2>3. [r EXCEPT !.at = "served"] = l
    BY <2>1, <2>2
  <2> HIDE DEF l
  <2> QED BY <2>1, <2>3 DEF StoreEntry
<1>3. entry' \in [Keys -> Values] /\ late' \subseteq Keys
  <2>0. entry \in [Keys -> Values] /\ late \subseteq Keys
    BY DEF TypeInv, EndpointTypeOK, Values
  <2>1. CASE UNCHANGED <<entry, late>>
    BY <2>0, <2>1
  <2>2. CASE Stores(look[c].key, [id |-> look[c].found, ttl |-> TRUE])
    <3>1. [id |-> look[c].found, ttl |-> TRUE] \in Values
      BY <1>1 DEF Values
    <3>2. entry' \in [Keys -> Values]
      BY <1>1, <2>0, <2>2, <3>1 DEF Stores
    <3>3. late' \subseteq Keys
      BY <1>1, <2>0, <2>2 DEF Stores
    <3> QED BY <3>2, <3>3
  <2> QED BY <2>1, <2>2 DEF StoreEntry
<1>4. UNCHANGED <<rows, edit>> /\ (UNCHANGED budget \/ \E kind : Spend(kind))
  BY DEF StoreEntry
<1> HIDE DEF l
<1> QED BY <1>1, <1>2, <1>3, <1>4, LookType

LEMMA AgainType == ASSUME TypeInv, NEW c \in Clients, Again(c) PROVE TypeInv'
<1>1. Lookup(NoLook)
  BY DEF Lookup, NoLook
<1>2. /\ UNCHANGED <<rows, entry, edit, budget, late>>
      /\ entry' \in [Keys -> Values] /\ late' \subseteq Keys
      /\ look' = [look EXCEPT ![c] = NoLook]
  BY DEF Again, TypeInv, EndpointTypeOK, Values
<1> QED BY <1>1, <1>2, LookType

LEMMA OthersType ==
  ASSUME TypeInv,
         \/ \E a \in Admins : Administer(a) \/ Invalidate(a)
         \/ \E k \in Keys : Expire(k)
         \/ UNCHANGED endpointVars
  PROVE  TypeInv'
<1>1. UNCHANGED look /\ (UNCHANGED budget \/ \E kind : Spend(kind))
  BY DEF Administer, Invalidate, CreateEndpoint, UpdateEndpoint, DeleteEndpoint, Edit, ScanKeys,
     DropKeys, Expire, endpointVars
<1>2. /\ rows' \in [Endpoints -> Keys \union {"unborn", "deleted"}]
      /\ entry' \in [Keys -> Values]
      /\ edit' \in [Admins -> Edits]
      /\ late' \subseteq Keys
  <2>0. /\ rows \in [Endpoints -> Keys \union {"unborn", "deleted"}]
        /\ entry \in [Keys -> Values] /\ edit \in [Admins -> Edits] /\ late \subseteq Keys
    BY DEF TypeInv, EndpointTypeOK, Values, Edits
  <2>1. CASE \E a \in Admins : Administer(a)
    <3>1. PICK a \in Admins, e \in Endpoints : \E v \in Keys \union {"deleted"} : Edit(a, e, v)
      BY <2>1 DEF Administer, CreateEndpoint, UpdateEndpoint, DeleteEndpoint
    <3>2. edit' \in [Admins -> Edits]
      BY <2>0, <3>1 DEF Edit, Edits
    <3>3. rows' \in [Endpoints -> Keys \union {"unborn", "deleted"}]
      BY <2>0, <3>1 DEF Edit
    <3> QED BY <2>0, <3>1, <3>2, <3>3 DEF Edit
  <2>2. CASE \E a \in Admins : ScanKeys(a)
    <3>1. PICK a \in Admins : ScanKeys(a)
      BY <2>2
    <3>2. edit' \in [Admins -> Edits]
      BY <2>0, <3>1 DEF ScanKeys, Edits
    <3> QED BY <2>0, <3>1, <3>2 DEF ScanKeys
  <2>3. CASE \E a \in Admins : DropKeys(a)
    <3>1. PICK a \in Admins : DropKeys(a)
      BY <2>3
    <3>2. edit' \in [Admins -> Edits]
      BY <2>0, <3>1 DEF DropKeys, Edits
    <3>3. entry' \in [Keys -> Values]
      BY <2>0, <3>1 DEF DropKeys, Values
    <3> QED BY <2>0, <3>1, <3>2, <3>3 DEF DropKeys
  <2>4. CASE (\E k \in Keys : Expire(k)) \/ UNCHANGED endpointVars
    BY <2>0, <2>4 DEF Expire, endpointVars, Values
  <2> QED BY <2>1, <2>2, <2>3, <2>4 DEF Invalidate
<1>3. budget' \in 0..MaxFaults
  BY <1>1, SpendType DEF TypeInv, EndpointTypeOK
<1>4. EndpointTypeOK'
  BY <1>1, <1>2, <1>3 DEF TypeInv, EndpointTypeOK, Values, Edits
<1>5. \A c \in Clients : Lookup(look[c])'
  BY <1>1 DEF TypeInv, Lookup
<1> QED BY <1>4, <1>5 DEF TypeInv

LEMMA NextType == ASSUME TypeInv, [EndpointNext]_endpointVars PROVE TypeInv'
<1>1. CASE \E c \in Clients : LookUp(c) \/ Again(c)
  BY <1>1, GetEntryType, SelectEndpointType, StoreEntryType, AgainType DEF LookUp
<1> QED BY <1>1, OthersType DEF EndpointNext

--------------------------------------------------------------------------------
(* Undisturbed, every entry is explained. *)

LEMMA AwaitingKept == ASSUME UNCHANGED edit PROVE \A k : Awaiting(k) => Awaiting(k)'
BY DEF Awaiting

(* Nothing is stored, but entries may go. *)
LEMMA EntriesGo ==
  ASSUME Explained, UNCHANGED <<rows, edit, late>>,
         \A k \in Keys : entry'[k] = entry[k] \/ entry'[k] = NoEntry
  PROVE  Explained'
<1>1. \A k \in Keys : Current(k) => Current(k)'
  BY DEF Current, Owner, Taken
<1> QED BY <1>1 DEF Explained, Awaiting

LEMMA StoreEntryExplained ==
  ASSUME TypeInv, Explained, NEW c \in Clients, StoreEntry(c), UNCHANGED budget
  PROVE  Explained'
<1> DEFINE k == look[c].key
           value == [id |-> look[c].found, ttl |-> TRUE]
<1>1. k \in Keys /\ UNCHANGED <<rows, edit>> /\ entry \in [Keys -> Values]
  BY DEF StoreEntry, TypeInv, Lookup, EndpointTypeOK, Values
<1>2. Stores(k, value)
  <2>1. ~Spend("redis_error")
    BY EndpointAssumption DEF Spend, TypeInv, EndpointTypeOK
  <2> QED BY <2>1 DEF StoreEntry
<1>3. \A j : Owner(j)' = Owner(j)
  BY <1>1 DEF Owner, Taken
<1>4. ASSUME NEW j \in Keys
      PROVE  Current(j)' \/ j \in late' \/ Awaiting(j)'
  <2>1. CASE j = k
    <3>1. entry'[j] = value /\ value.id = look[c].found
      BY <1>1, <1>2, <2>1 DEF Stores
    <3>2. Owner(j) = value.id \/ j \in late'
      BY <1>2, <2>1 DEF Stores
    <3> QED BY <1>3, <3>1, <3>2 DEF Current
  <2>2. CASE j # k
    <3>1. entry'[j] = entry[j] /\ (j \in late => j \in late')
      BY <1>1, <1>2, <2>2 DEF Stores
    <3>2. Current(j) => Current(j)'
      BY <1>3, <3>1 DEF Current
    <3>3. Awaiting(j) => Awaiting(j)'
      BY <1>1, AwaitingKept
    <3> QED BY <3>1, <3>2, <3>3 DEF Explained
  <2> QED BY <2>1, <2>2
<1> QED BY <1>4 DEF Explained

LEMMA EditExplained ==
  ASSUME TypeInv, NEW a \in Admins, Administer(a)
  PROVE  Explained'
<1>1. edit' = [edit EXCEPT ![a].at = "scan"]
  BY DEF Administer, CreateEndpoint, UpdateEndpoint, DeleteEndpoint, Edit
<1>2. edit'[a].at = "scan"
  BY <1>1 DEF TypeInv, EndpointTypeOK
<1> QED BY <1>2 DEF Explained, Awaiting

LEMMA ScanKeysExplained ==
  ASSUME TypeInv, Explained, NEW a \in Admins, ScanKeys(a), UNCHANGED budget
  PROVE  Explained'
<1>0. ~Spend("redis_error") /\ ~Spend("crash")
  BY EndpointAssumption DEF Spend, TypeInv, EndpointTypeOK
<1>1. /\ edit' = [edit EXCEPT ![a] = [at |-> "drop", seen |-> {k \in Keys : entry[k] # NoEntry}]]
      /\ UNCHANGED <<rows, entry, late>>
  BY <1>0 DEF ScanKeys
<1>2. edit'[a].at = "drop" /\ edit'[a].seen = {k \in Keys : entry[k] # NoEntry}
  BY <1>1 DEF TypeInv, EndpointTypeOK
<1>3. ASSUME NEW k \in Keys
      PROVE  Current(k)' \/ Awaiting(k)'
  <2>1. CASE entry[k] = NoEntry
    BY <1>1, <2>1 DEF Current
  <2>2. CASE entry[k] # NoEntry
    BY <1>2, <2>2 DEF Awaiting
  <2> QED BY <2>1, <2>2
<1> QED BY <1>3 DEF Explained

LEMMA DropKeysExplained ==
  ASSUME TypeInv, Explained, NEW a \in Admins, DropKeys(a), UNCHANGED budget
  PROVE  Explained'
<1>0. ~Spend("redis_error") /\ ~Spend("crash")
  BY EndpointAssumption DEF Spend, TypeInv, EndpointTypeOK
<1>1. /\ entry' = [k \in Keys |-> IF k \in edit[a].seen THEN NoEntry ELSE entry[k]]
      /\ edit' = [edit EXCEPT ![a] = [at |-> "done", seen |-> {}]]
      /\ UNCHANGED <<rows, late>>
      /\ edit[a].at = "drop"
  BY <1>0 DEF DropKeys
<1>2. \A b \in Admins \ {a} : edit'[b] = edit[b]
  BY <1>1 DEF TypeInv, EndpointTypeOK
<1>3. ASSUME NEW k \in Keys
      PROVE  Current(k)' \/ k \in late' \/ Awaiting(k)'
  <2>1. CASE k \in edit[a].seen
    BY <1>1, <2>1 DEF Current
  <2>2. CASE k \notin edit[a].seen
    <3>1. Current(k) => Current(k)'
      BY <1>1, <2>2 DEF Current, Owner, Taken
    <3>2. Awaiting(k) => Awaiting(k)'
      BY <1>1, <1>2, <2>2 DEF Awaiting
    <3> QED BY <1>1, <3>1, <3>2 DEF Explained
  <2> QED BY <2>1, <2>2
<1> QED BY <1>3 DEF Explained

LEMMA NextExplained ==
  ASSUME TypeInv, Explained, [EndpointNext]_endpointVars, UNCHANGED budget
  PROVE  Explained'
<1>1. CASE \E c \in Clients : StoreEntry(c)
  BY <1>1, StoreEntryExplained
<1>2. CASE \E a \in Admins : Administer(a) \/ Invalidate(a)
  BY <1>2, EditExplained, ScanKeysExplained, DropKeysExplained DEF Invalidate
<1>3. CASE \/ \E c \in Clients : GetEntry(c) \/ SelectEndpoint(c) \/ Again(c)
           \/ UNCHANGED endpointVars
  BY <1>3, EntriesGo DEF GetEntry, SelectEndpoint, Again, endpointVars
<1>4. CASE \E k \in Keys : Expire(k)
  BY <1>4, EntriesGo DEF Expire, TypeInv, EndpointTypeOK
<1> QED BY <1>1, <1>2, <1>3, <1>4 DEF EndpointNext, LookUp

(* Fresh: without a failure an entry that differs from the table was stored *)
(* by a lookup that an edit overtook, or an edit has still to empty the     *)
(* cache.  Which key the edit concerns does not matter: between its commit  *)
(* and its scan it answers for all of them, after its scan for those that   *)
(* had an entry; what is stored after the scan is late.                     *)
THEOREM EntriesFresh == EndpointSpec => []Fresh
<1>1. EndpointInit => Inv
  <2>1. EndpointInit => Explained
    BY DEF EndpointInit, Explained, Current
  <2> QED BY <2>1, InitType DEF Inv
<1>2. Inv /\ [EndpointNext]_endpointVars => Inv'
  <2> SUFFICES ASSUME Inv, [EndpointNext]_endpointVars
               PROVE  Inv'
    OBVIOUS
  <2>1. TypeInv'
    BY NextType DEF Inv
  <2>2. UNCHANGED budget \/ \E kind : Spend(kind)
    BY DEF EndpointNext, LookUp, Again, GetEntry, SelectEndpoint, StoreEntry, Administer,
       Invalidate, CreateEndpoint, UpdateEndpoint, DeleteEndpoint, Edit, ScanKeys, DropKeys,
       Expire, endpointVars
  <2>3. budget' = MaxFaults => UNCHANGED budget
    BY <2>2, SpendType DEF Inv, TypeInv, EndpointTypeOK
  <2> QED BY <2>1, <2>3, NextExplained DEF Inv
<1>3. Inv => Fresh
  BY DEF Inv, Explained, Awaiting, Fresh
<1> QED BY <1>1, <1>2, <1>3, PTL DEF EndpointSpec

(* EndpointTypeOK: the types of the table, the cache and the lookups. *)
THEOREM TypeCorrect == EndpointSpec => []EndpointTypeOK
<1>1. TypeInv => EndpointTypeOK
  BY DEF TypeInv
<1>2. TypeInv /\ [EndpointNext]_endpointVars => TypeInv'
  BY NextType
<1> QED BY <1>1, <1>2, InitType, PTL DEF EndpointSpec
================================================================================
