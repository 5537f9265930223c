-------------------------- MODULE RequestRoutingProofs --------------------------
(***************************************************************************)
(* What holds of the gateway's counters for any number of requests,        *)
(* instances and hosts.  The inductive invariant says, besides the types,  *)
(* which counters a request can still hold at each place (Holds): only so  *)
(* does an addition always find its counter not yet held, and the end of a *)
(* request none left to take back.                                         *)
(***************************************************************************)
EXTENDS RequestRouting, FiniteSetTheorems, TLAPS

(* The positions, among an instance's counters, that a request may hold. *)
Due(place, n) ==
  {m \in 1..3 :
     \/ place = "enter" /\ m < n
     \/ place \in {"send", "stream"}
     \/ place = "leave" /\ n <= m
     \/ place = "clear" /\ n < m}

Holds(r) == \A k \in held[r] : \E m \in Due(pc[r], stage[r]) : k = Key(at[r], m)

Users(k) == {r \in Requests : k \in held[r]}

CountersBounded == \A k \in Keys : count[k] <= Cardinality(Users(k)) + ghosts[k]

(* A counter below zero has its DELETE coming. *)
Residue ==
  budget = MaxFaults =>
    \A k \in Keys :
      /\ ghosts[k] = 0
      /\ count[k] < 0 => \E r \in Requests : pc[r] = "clear" /\ Here(r) = k

Types ==
  /\ count \in [Keys -> Int]
  /\ ttl \subseteq Keys
  /\ pc \in [Requests -> Places]
  /\ at \in [Requests -> Instances \union {"none"}]
  /\ \A r \in Requests : pc[r] \notin {"idle", "find", "done"} => at[r] \in Instances
  /\ stage \in [Requests -> 1..3]
  /\ held \in [Requests -> SUBSET Keys]
  /\ ghosts \in [Keys -> Nat]
  /\ budget \in 0..MaxFaults

Inv == Types /\ (\A r \in Requests : Holds(r)) /\ CountersBounded /\ Residue

--------------------------------------------------------------------------------
(* The three counters of an instance. *)
LEMMA KeyInKeys == ASSUME NEW x \in Instances, NEW n \in 1..3 PROVE Key(x, n) \in Keys
BY RoutingAssumption DEF Key, Keys

(* They are three different ones. *)
LEMMA KeysDiffer ==
  ASSUME NEW x \in Instances, NEW m \in 1..3, NEW n \in 1..3, Key(x, m) = Key(x, n)
  PROVE  m = n
BY DEF Key

(* A request that changes what it holds changes each counter's users by at  *)
(* most itself.                                                             *)
LEMMA UsersChange ==
  ASSUME Types, NEW r \in Requests, NEW new \in SUBSET Keys,
         held' = [held EXCEPT ![r] = new], NEW k \in Keys
  PROVE  /\ Cardinality(Users(k)) \in Nat /\ Cardinality(Users(k)') \in Nat
         /\ (k \in new <=> k \in held[r]) => Users(k)' = Users(k)
         /\ k \in new /\ k \notin held[r] => Cardinality(Users(k)') = Cardinality(Users(k)) + 1
         /\ k \notin new /\ k \in held[r] => Cardinality(Users(k)') = Cardinality(Users(k)) - 1
<1>1. IsFiniteSet(Requests)
  BY RoutingAssumption
<1>2. IsFiniteSet(Users(k)) /\ IsFiniteSet(Users(k)')
  BY <1>1, FS_Subset DEF Users
<1>3. ASSUME k \in new <=> k \in held[r]
      PROVE  Users(k)' = Users(k)
  BY <1>3 DEF Users, Types
<1>4. ASSUME k \in new, k \notin held[r]
      PROVE  Cardinality(Users(k)') = Cardinality(Users(k)) + 1
  <2>1. Users(k)' = Users(k) \union {r} /\ r \notin Users(k)
    BY <1>4 DEF Users, Types
  <2> QED BY <1>2, <2>1, FS_AddElement
<1>5. ASSUME k \notin new, k \in held[r]
      PROVE  Cardinality(Users(k)') = Cardinality(Users(k)) - 1
  <2>1. Users(k)' = Users(k) \ {r} /\ r \in Users(k)
    BY <1>5 DEF Users, Types
  <2> QED BY <1>2, <2>1, FS_RemoveElement
<1> QED BY <1>2, <1>3, <1>4, <1>5, FS_CardinalityType

(* The number of users of a counter is a number. *)
LEMMA UsersFinite == ASSUME NEW k PROVE Cardinality(Users(k)) \in Nat
<1>1. IsFiniteSet(Users(k))
  BY RoutingAssumption, FS_Subset DEF Users
<1> QED BY <1>1, FS_CardinalityType

(* The instance that is picked is one of those offered. *)
LEMMA BestOffered == ASSUME NEW S, NEW x \in Best(S) PROVE x \in S
BY DEF Best, Least

LEMMA InitInv == Init => Inv
<1> SUFFICES ASSUME Init PROVE Inv
  OBVIOUS
<1>1. Types
  BY RoutingAssumption DEF Init, Types, Places
<1>2. \A r \in Requests : Holds(r)
  BY DEF Init, Holds
<1>3. CountersBounded
  BY UsersFinite DEF Init, CountersBounded
<1>4. Residue
  BY DEF Init, Residue
<1> QED BY <1>1, <1>2, <1>3, <1>4 DEF Inv

--------------------------------------------------------------------------------
(* Steps that touch no counter and leave no place where counters are held.  *)
LEMMA QuietStep ==
  ASSUME Inv, NEW r \in Requests, NEW place \in Places, Goto(r, place),
         UNCHANGED <<count, ttl, ghosts, held, budget>>,
         at' \in [Requests -> Instances \union {"none"}],
         stage' \in [Requests -> 1..3],
         \A q \in Requests \ {r} : at'[q] = at[q] /\ stage'[q] = stage[q],
         place \notin {"idle", "find", "done"} => at'[r] \in Instances,
         pc[r] # "clear",
         Holds(r)'
  PROVE  Inv'
<1>1. Types'
  BY DEF Inv, Types, Goto
<1>2. \A q \in Requests : Holds(q)'
  BY DEF Inv, Types, Holds, Goto
<1>3. CountersBounded'
  BY DEF Inv, CountersBounded, Users
<1>4. Residue'
  <2> SUFFICES ASSUME budget' = MaxFaults, NEW k \in Keys
               PROVE  /\ ghosts'[k] = 0
                      /\ count'[k] < 0 => \E q \in Requests : pc'[q] = "clear" /\ Here(q)' = k
    BY DEF Residue
  <2>1. \A q \in Requests : pc[q] = "clear" => pc'[q] = "clear" /\ Here(q)' = Here(q)
    BY DEF Inv, Types, Goto, Here
  <2> QED BY <2>1 DEF Inv, Residue
<1> QED BY <1>1, <1>2, <1>3, <1>4 DEF Inv

LEMMA HereInKeys ==
  ASSUME Inv, NEW r \in Requests, pc[r] \in {"enter", "send", "stream", "leave", "clear"}
  PROVE  Here(r) \in Keys /\ at[r] \in Instances /\ stage[r] \in 1..3
<1>1. at[r] \in Instances /\ stage[r] \in 1..3
  BY DEF Inv, Types
<1> QED BY <1>1, KeyInKeys DEF Here

(* The request that moves keeps to Holds, and so do the others. *)
LEMMA OthersHold ==
  ASSUME Inv, NEW r \in Requests, Holds(r)',
         \A q \in Requests \ {r} :
           pc'[q] = pc[q] /\ at'[q] = at[q] /\ stage'[q] = stage[q] /\ held'[q] = held[q]
  PROVE  \A q \in Requests : Holds(q)'
BY DEF Inv, Holds

LEMMA EnterInv == ASSUME Inv, NEW r \in Requests, Enter(r) PROVE Inv'
<1> DEFINE k0 == Here(r)
           new == held[r] \union {k0}
<1>1. pc[r] = "enter" /\ k0 \in Keys /\ at[r] \in Instances /\ stage[r] \in 1..3
  BY HereInKeys DEF Enter
<1>2. /\ held' = [held EXCEPT ![r] = new] /\ new \in SUBSET Keys
      /\ count' = [count EXCEPT ![k0] = @ + 1] /\ ttl' = ttl \union {k0}
      /\ UNCHANGED <<at, ghosts, budget>>
  BY <1>1 DEF Enter, Increment, Inv, Types
<1>3. k0 \notin held[r]
  <2> SUFFICES ASSUME k0 \in held[r] PROVE FALSE
    OBVIOUS
  <2>1. PICK m \in Due("enter", stage[r]) : k0 = Key(at[r], m)
    BY <1>1 DEF Inv, Holds
  <2>2. m \in 1..3 /\ m < stage[r]
    BY <2>1 DEF Due
  <2> QED BY <1>1, <2>1, <2>2, KeysDiffer DEF Here
<1>4. \/ stage[r] = 3 /\ pc' = [pc EXCEPT ![r] = "send"] /\ stage' = stage
      \/ stage[r] < 3 /\ stage' = [stage EXCEPT ![r] = @ + 1] /\ pc' = pc
  BY <1>1 DEF Enter, Goto
<1>5. Types'
  BY <1>1, <1>2, <1>4 DEF Inv, Types, Places
<1>6. Holds(r)'
  <2> SUFFICES ASSUME NEW k \in new
               PROVE  \E m \in Due(pc'[r], stage'[r]) : k = Key(at[r], m)
    BY <1>2 DEF Holds, Inv, Types
  <2>1. PICK m \in 1..3 : k = Key(at[r], m) /\ m <= stage[r]
    BY <1>1 DEF Inv, Holds, Due, Here
  <2>2. m \in Due(pc'[r], stage'[r])
    BY <1>1, <1>4, <2>1 DEF Due, Inv, Types
  <2> QED BY <2>1, <2>2
<1>7. \A q \in Requests : Holds(q)'
  BY <1>2, <1>4, <1>6, OthersHold DEF Inv, Types
<1>8. CountersBounded'
  <2> SUFFICES ASSUME NEW k \in Keys
               PROVE  count'[k] <= Cardinality(Users(k)') + ghosts[k]
    BY <1>2 DEF CountersBounded
  <2>1. /\ count[k] \in Int /\ ghosts[k] \in Nat /\ Cardinality(Users(k)) \in Nat
        /\ count[k] <= Cardinality(Users(k)) + ghosts[k]
    BY UsersFinite DEF Inv, Types, CountersBounded
  <2>2. CASE k = k0
    <3>1. Cardinality(Users(k)') = Cardinality(Users(k)) + 1
      BY <1>2, <1>3, <2>2, UsersChange DEF Inv
    <3>2. count'[k] = count[k] + 1
      BY <1>2, <2>2 DEF Inv, Types
    <3> QED BY <2>1, <3>1, <3>2
  <2>3. CASE k # k0
    <3>1. Users(k)' = Users(k)
      BY <1>2, <2>3, UsersChange DEF Inv
    <3>2. count'[k] = count[k]
      BY <1>2, <2>3 DEF Inv, Types
    <3> QED BY <2>1, <3>1, <3>2
  <2> QED BY <2>2, <2>3
<1>9. Residue'
  <2> SUFFICES ASSUME budget' = MaxFaults, NEW k \in Keys
               PROVE  /\ ghosts'[k] = 0
                      /\ count'[k] < 0 => \E q \in Requests : pc'[q] = "clear" /\ Here(q)' = k
    BY DEF Residue
  <2>1. \A q \in Requests : pc[q] = "clear" => pc'[q] = "clear" /\ Here(q)' = Here(q)
    BY <1>1, <1>2, <1>4 DEF Inv, Types, Here
  <2>2. count'[k] < 0 => count[k] < 0
    BY <1>1, <1>2 DEF Inv, Types
  <2> QED BY <1>2, <2>1, <2>2 DEF Inv, Residue
<1> QED BY <1>5, <1>7, <1>8, <1>9 DEF Inv

(* Taking a counter back, whichever way it went. *)
LEMMA NextCounterInv ==
  ASSUME Inv, NEW r \in Requests, pc[r] \in {"leave", "clear"},
         held' = [held EXCEPT ![r] = @ \ {Here(r)}], NextCounter(r)
  PROVE  /\ pc' \in [Requests -> Places] /\ at' \in [Requests -> Instances \union {"none"}]
         /\ stage' \in [Requests -> 1..3] /\ held' \in [Requests -> SUBSET Keys]
         /\ \A q \in Requests : pc'[q] \notin {"idle", "find", "done"} => at'[q] \in Instances
         /\ \A q \in Requests : Holds(q)'
         /\ \A q \in Requests \ {r} : pc'[q] = pc[q] /\ at'[q] = at[q] /\ stage'[q] = stage[q]
<1>1. Here(r) \in Keys /\ at[r] \in Instances /\ stage[r] \in 1..3
  BY HereInKeys
<1>2. \A k \in held'[r] : \E m \in 1..3 : stage[r] < m /\ k = Key(at[r], m)
  <2> SUFFICES ASSUME NEW k \in held[r], k # Here(r)
               PROVE  \E m \in 1..3 : stage[r] < m /\ k = Key(at[r], m)
    BY DEF Inv, Types
  <2>1. PICK m \in Due(pc[r], stage[r]) : k = Key(at[r], m)
    BY DEF Inv, Holds
  <2>2. m \in 1..3 /\ stage[r] <= m /\ m # stage[r]
    BY <1>1, <2>1 DEF Due, Here
  <2> QED BY <1>1, <2>1, <2>2
<1>3. held' \in [Requests -> SUBSET Keys] /\ \A q \in Requests \ {r} : held'[q] = held[q]
  BY DEF Inv, Types
<1>4. CASE /\ stage[r] < 3 /\ stage' = [stage EXCEPT ![r] = @ + 1]
           /\ Goto(r, "leave") /\ UNCHANGED at
  <2>1. Holds(r)'
    <3>1. \A m \in 1..3 : stage[r] < m => m \in Due(pc'[r], stage'[r])
      BY <1>1, <1>4 DEF Due, Goto, Inv, Types
    <3> QED BY <1>2, <1>4, <3>1 DEF Holds
  <2>2. \A q \in Requests \ {r} : pc'[q] = pc[q] /\ at'[q] = at[q] /\ stage'[q] = stage[q]
    BY <1>4 DEF Goto, Inv, Types
  <2>3. \A q \in Requests : Holds(q)'
    BY <1>3, <2>1, <2>2, OthersHold
  <2> QED BY <1>1, <1>3, <1>4, <2>2, <2>3 DEF Goto, Inv, Types, Places
<1>5. CASE stage[r] = 3 /\ AfterAttempt(r)
  <2>1. held'[r] = {}
    BY <1>2, <1>3, <1>5
  <2>2. Holds(r)'
    BY <2>1 DEF Holds
  <2>3. \A q \in Requests \ {r} : pc'[q] = pc[q] /\ at'[q] = at[q] /\ stage'[q] = stage[q]
    BY <1>5 DEF AfterAttempt, Goto, Inv, Types
  <2>4. \A q \in Requests : Holds(q)'
    BY <1>3, <2>2, <2>3, OthersHold
  <2> QED BY <1>1, <1>3, <1>5, <2>3, <2>4 DEF AfterAttempt, Goto, Inv, Types, Places
<1> QED BY <1>4, <1>5 DEF NextCounter

(* Who no longer holds a counter, no longer counts. *)
LEMMA Dropped ==
  ASSUME Inv, NEW r \in Requests, NEW keys \in SUBSET Keys,
         held' = [held EXCEPT ![r] = @ \ keys], NEW k \in Keys
  PROVE  /\ count[k] \in Int /\ ghosts[k] \in Nat
         /\ Cardinality(Users(k)) \in Nat /\ Cardinality(Users(k)') \in Nat
         /\ count[k] <= Cardinality(Users(k)) + ghosts[k]
         /\ k \in held[r] \intersect keys => Cardinality(Users(k)') = Cardinality(Users(k)) - 1
         /\ k \notin held[r] \intersect keys => Cardinality(Users(k)') = Cardinality(Users(k))
<1> DEFINE new == held[r] \ keys
<1>1. new \in SUBSET Keys /\ held' = [held EXCEPT ![r] = new] /\ Types
  BY DEF Inv, Types
<1>2. /\ Cardinality(Users(k)) \in Nat /\ Cardinality(Users(k)') \in Nat
      /\ (k \in new <=> k \in held[r]) => Users(k)' = Users(k)
      /\ k \notin new /\ k \in held[r] => Cardinality(Users(k)') = Cardinality(Users(k)) - 1
  BY <1>1, UsersChange
<1>3. count[k] \in Int /\ ghosts[k] \in Nat /\ count[k] <= Cardinality(Users(k)) + ghosts[k]
  BY DEF Inv, Types, CountersBounded
<1> QED BY <1>2, <1>3

LEMMA LeaveInv == ASSUME Inv, NEW r \in Requests, Leave(r) PROVE Inv'
<1> DEFINE k0 == Here(r)
<1>1. pc[r] = "leave" /\ k0 \in Keys /\ at[r] \in Instances /\ stage[r] \in 1..3
  BY HereInKeys DEF Leave
<1>2. /\ held' = [held EXCEPT ![r] = @ \ {k0}] /\ count' = [count EXCEPT ![k0] = @ - 1]
      /\ UNCHANGED <<ttl, ghosts, budget>>
  BY DEF Leave, TakenBack
<1>3. k0 \in held[r] \/ k0 \notin held[r]
  OBVIOUS
<1>4. CountersBounded'
  <2> SUFFICES ASSUME NEW k \in Keys
               PROVE  count'[k] <= Cardinality(Users(k)') + ghosts[k]
    BY <1>2 DEF CountersBounded
  <2>1. /\ count[k] \in Int /\ ghosts[k] \in Nat
        /\ Cardinality(Users(k)) \in Nat /\ Cardinality(Users(k)') \in Nat
        /\ count[k] <= Cardinality(Users(k)) + ghosts[k]
        /\ k \in held[r] \intersect {k0} => Cardinality(Users(k)') = Cardinality(Users(k)) - 1
        /\ k \notin held[r] \intersect {k0} => Cardinality(Users(k)') = Cardinality(Users(k))
    <3>1. {k0} \in SUBSET Keys
      BY <1>1
    <3> QED BY <1>2, <3>1, Dropped
  <2>2. count'[k] = IF k = k0 THEN count[k] - 1 ELSE count[k]
    BY <1>2 DEF Inv, Types
  <2> QED BY <2>1, <2>2
<1>5. CASE count[k0] <= 1 /\ Goto(r, "clear") /\ UNCHANGED <<at, stage, tries>>
  <2>1. Types'
    BY <1>1, <1>2, <1>5 DEF Inv, Types, Goto, Places
  <2>2. Holds(r)'
    <3> SUFFICES ASSUME NEW k \in held[r], k # k0
                 PROVE  \E m \in Due("clear", stage[r]) : k = Key(at[r], m)
      BY <1>1, <1>2, <1>5 DEF Holds, Goto, Inv, Types
    <3>1. PICK m \in Due("leave", stage[r]) : k = Key(at[r], m)
      BY <1>1 DEF Inv, Holds
    <3>2. m \in Due("clear", stage[r])
      BY <1>1, <3>1 DEF Due, Here
    <3> QED BY <3>1, <3>2
  <2>3. \A q \in Requests : Holds(q)'
    BY <1>2, <1>5, <2>2, OthersHold DEF Goto, Inv, Types
  <2>4. Residue'
    <3> SUFFICES ASSUME budget' = MaxFaults, NEW k \in Keys
                 PROVE  /\ ghosts'[k] = 0
                        /\ count'[k] < 0 => \E q \in Requests : pc'[q] = "clear" /\ Here(q)' = k
      BY DEF Residue
    <3>1. \A q \in Requests : pc[q] = "clear" => pc'[q] = "clear" /\ Here(q)' = Here(q)
      BY <1>1, <1>5 DEF Inv, Types, Here, Goto
    <3>2. pc'[r] = "clear" /\ Here(r)' = k0
      BY <1>1, <1>5 DEF Inv, Types, Here, Goto
    <3>3. k # k0 => count'[k] = count[k]
      BY <1>2 DEF Inv, Types
    <3> QED BY <1>2, <3>1, <3>2, <3>3 DEF Inv, Residue
  <2> QED BY <1>4, <2>1, <2>3, <2>4 DEF Inv
<1>6. CASE count[k0] > 1 /\ NextCounter(r)
  <2>1. /\ pc' \in [Requests -> Places] /\ at' \in [Requests -> Instances \union {"none"}]
        /\ stage' \in [Requests -> 1..3] /\ held' \in [Requests -> SUBSET Keys]
        /\ \A q \in Requests : pc'[q] \notin {"idle", "find", "done"} => at'[q] \in Instances
        /\ \A q \in Requests : Holds(q)'
        /\ \A q \in Requests \ {r} : pc'[q] = pc[q] /\ at'[q] = at[q] /\ stage'[q] = stage[q]
    BY <1>1, <1>2, <1>6, NextCounterInv
  <2>2. Types'
    BY <1>1, <1>2, <2>1 DEF Inv, Types
  <2>3. Residue'
    <3> SUFFICES ASSUME budget' = MaxFaults, NEW k \in Keys
                 PROVE  /\ ghosts'[k] = 0
                        /\ count'[k] < 0 => \E q \in Requests : pc'[q] = "clear" /\ Here(q)' = k
      BY DEF Residue
    <3>1. \A q \in Requests : pc[q] = "clear" => pc'[q] = "clear" /\ Here(q)' = Here(q)
      BY <1>1, <2>1 DEF Here
    <3>2. count'[k] < 0 => count[k] < 0
      BY <1>1, <1>2, <1>6 DEF Inv, Types
    <3> QED BY <1>2, <3>1, <3>2 DEF Inv, Residue
  <2> QED BY <1>4, <2>1, <2>2, <2>3 DEF Inv
<1>7. count[k0] \in Int
  BY <1>1 DEF Inv, Types
<1> QED BY <1>5, <1>6, <1>7 DEF Leave

LEMMA ClearInv == ASSUME Inv, NEW r \in Requests, Clear(r) PROVE Inv'
<1> DEFINE k0 == Here(r)
<1>1. pc[r] = "clear" /\ k0 \in Keys /\ at[r] \in Instances /\ stage[r] \in 1..3
  BY HereInKeys DEF Clear
<1>2. /\ count' = [count EXCEPT ![k0] = 0] /\ ttl' = ttl \ {k0}
      /\ ghosts' = [ghosts EXCEPT ![k0] = 0] /\ UNCHANGED <<held, budget>>
  BY DEF Clear, Delete
<1>3. k0 \notin held[r]
  <2> SUFFICES ASSUME k0 \in held[r] PROVE FALSE
    OBVIOUS
  <2>1. PICK m \in Due("clear", stage[r]) : k0 = Key(at[r], m)
    BY <1>1 DEF Inv, Holds
  <2>2. m \in 1..3 /\ stage[r] < m
    BY <2>1 DEF Due
  <2> QED BY <1>1, <2>1, <2>2, KeysDiffer DEF Here
<1>4. held' = [held EXCEPT ![r] = @ \ {k0}]
  BY <1>2, <1>3 DEF Inv, Types
<1>5. /\ pc' \in [Requests -> Places] /\ at' \in [Requests -> Instances \union {"none"}]
      /\ stage' \in [Requests -> 1..3] /\ held' \in [Requests -> SUBSET Keys]
      /\ \A q \in Requests : pc'[q] \notin {"idle", "find", "done"} => at'[q] \in Instances
      /\ \A q \in Requests : Holds(q)'
      /\ \A q \in Requests \ {r} : pc'[q] = pc[q] /\ at'[q] = at[q] /\ stage'[q] = stage[q]
  BY <1>1, <1>4, NextCounterInv DEF Clear
<1>6. Types'
  BY <1>1, <1>2, <1>5 DEF Inv, Types
<1>7. CountersBounded'
  <2> SUFFICES ASSUME NEW k \in Keys
               PROVE  count'[k] <= Cardinality(Users(k)') + ghosts'[k]
    BY DEF CountersBounded
  <2>1. Users(k)' = Users(k) /\ Cardinality(Users(k)) \in Nat
    BY <1>2, UsersFinite DEF Users
  <2> QED BY <1>1, <1>2, <2>1 DEF Inv, Types, CountersBounded
<1>8. Residue'
  <2> SUFFICES ASSUME budget' = MaxFaults, NEW k \in Keys
               PROVE  /\ ghosts'[k] = 0
                      /\ count'[k] < 0 => \E q \in Requests : pc'[q] = "clear" /\ Here(q)' = k
    BY DEF Residue
  <2>1. \A q \in Requests \ {r} : pc[q] = "clear" => pc'[q] = "clear" /\ Here(q)' = Here(q)
    BY <1>5 DEF Here
  <2>2. CASE k = k0
    BY <1>1, <1>2, <2>2 DEF Inv, Types
  <2>3. CASE k # k0
    BY <1>1, <1>2, <2>1, <2>3 DEF Inv, Types, Residue
  <2> QED BY <2>2, <2>3
<1> QED BY <1>5, <1>6, <1>7, <1>8 DEF Inv

(* A fault is paid for, so that Residue asks nothing any more. *)
LEMMA Spent == ASSUME Inv, NEW kind, Spend(kind) PROVE budget' \in 0..MaxFaults /\ Residue'
BY RoutingAssumption DEF Inv, Types, Spend, Residue

LEMMA LeaveFailsInv == ASSUME Inv, NEW r \in Requests, LeaveFails(r) PROVE Inv'
<1> DEFINE k0 == Here(r)
<1>1. pc[r] \in {"leave", "clear"} /\ k0 \in Keys /\ {k0} \in SUBSET Keys
  BY HereInKeys DEF LeaveFails
<1>2. /\ held' = [held EXCEPT ![r] = @ \ {k0}] /\ UNCHANGED ttl
      /\ NextCounter(r) /\ Spend("redis_error")
  BY DEF LeaveFails, TakenBack
<1>3. /\ pc' \in [Requests -> Places] /\ at' \in [Requests -> Instances \union {"none"}]
      /\ stage' \in [Requests -> 1..3] /\ held' \in [Requests -> SUBSET Keys]
      /\ \A q \in Requests : pc'[q] \notin {"idle", "find", "done"} => at'[q] \in Instances
      /\ \A q \in Requests : Holds(q)'
  BY <1>1, <1>2, NextCounterInv
<1>4. CASE Abandon(held[r] \intersect {k0}) /\ UNCHANGED count
  <2>1. Types'
    BY <1>2, <1>3, <1>4, Spent DEF Inv, Types, Abandon
  <2>2. ASSUME NEW k \in Keys
        PROVE  count'[k] <= Cardinality(Users(k)') + ghosts'[k]
    <3>1. /\ count[k] \in Int /\ ghosts[k] \in Nat
          /\ Cardinality(Users(k)) \in Nat /\ Cardinality(Users(k)') \in Nat
          /\ count[k] <= Cardinality(Users(k)) + ghosts[k]
          /\ k \in held[r] \intersect {k0} => Cardinality(Users(k)') = Cardinality(Users(k)) - 1
          /\ k \notin held[r] \intersect {k0} => Cardinality(Users(k)') = Cardinality(Users(k))
      BY <1>1, <1>2, Dropped
    <3>2. ghosts'[k] = ghosts[k] + IF k \in held[r] \intersect {k0} THEN 1 ELSE 0
      BY <1>4 DEF Abandon
    <3>3. CASE k \in held[r] \intersect {k0}
      BY <1>4, <3>1, <3>2, <3>3
    <3>4. CASE k \notin held[r] \intersect {k0}
      BY <1>4, <3>1, <3>2, <3>4
    <3> QED BY <3>3, <3>4
  <2> QED BY <1>2, <1>3, <2>1, <2>2, Spent DEF Inv, CountersBounded
<1>5. CASE count' = [count EXCEPT ![k0] = @ - 1] /\ UNCHANGED ghosts
  <2>1. Types'
    BY <1>1, <1>2, <1>3, <1>5, Spent DEF Inv, Types
  <2>2. ASSUME NEW k \in Keys
        PROVE  count'[k] <= Cardinality(Users(k)') + ghosts'[k]
    <3>1. /\ count[k] \in Int /\ ghosts[k] \in Nat
          /\ Cardinality(Users(k)) \in Nat /\ Cardinality(Users(k)') \in Nat
          /\ count[k] <= Cardinality(Users(k)) + ghosts[k]
          /\ k \in held[r] \intersect {k0} => Cardinality(Users(k)') = Cardinality(Users(k)) - 1
          /\ k \notin held[r] \intersect {k0} => Cardinality(Users(k)') = Cardinality(Users(k))
      BY <1>1, <1>2, Dropped
    <3>2. count'[k] = IF k = k0 THEN count[k] - 1 ELSE count[k]
      BY <1>5 DEF Inv, Types
    <3> QED BY <1>5, <3>1, <3>2
  <2> QED BY <1>2, <1>3, <2>1, <2>2, Spent DEF Inv, CountersBounded
<1> QED BY <1>4, <1>5 DEF LeaveFails

(* A request that ends on the spot leaves what it holds behind. *)
LEMMA EndsTypes ==
  ASSUME Inv, NEW r \in Requests, NEW how, Ends(r, how)
  PROVE  /\ pc' \in [Requests -> Places] /\ at' \in [Requests -> Instances \union {"none"}]
         /\ stage' \in [Requests -> 1..3] /\ held' \in [Requests -> SUBSET Keys]
         /\ held' = [held EXCEPT ![r] = @ \ held[r]] /\ held[r] \in SUBSET Keys
         /\ \A q \in Requests : pc'[q] \notin {"idle", "find", "done"} => at'[q] \in Instances
         /\ \A q \in Requests \ {r} : pc'[q] = pc[q] /\ at'[q] = at[q] /\ stage'[q] = stage[q]
         /\ pc'[r] = "done"
         /\ \A q \in Requests : Holds(q)'
<1>1. /\ pc' = [pc EXCEPT ![r] = "done"] /\ at' = [at EXCEPT ![r] = "none"]
      /\ stage' = [stage EXCEPT ![r] = 1] /\ held' = [held EXCEPT ![r] = {}]
  BY DEF Ends, Goto
<1>2. Holds(r)'
  BY <1>1 DEF Holds, Inv, Types
<1>3. \A q \in Requests : Holds(q)'
  BY <1>1, <1>2, OthersHold DEF Inv, Types
<1>4. held[r] \ held[r] = {} /\ held[r] \in SUBSET Keys
  BY DEF Inv, Types
<1>5. held' = [held EXCEPT ![r] = @ \ held[r]]
  BY <1>1, <1>4
<1>6. /\ pc' \in [Requests -> Places] /\ at' \in [Requests -> Instances \union {"none"}]
      /\ stage' \in [Requests -> 1..3] /\ held' \in [Requests -> SUBSET Keys]
  BY <1>1 DEF Inv, Types, Places
<1>7. \A q \in Requests \ {r} : pc'[q] = pc[q] /\ at'[q] = at[q] /\ stage'[q] = stage[q]
  BY <1>1 DEF Inv, Types
<1>8. pc'[r] = "done"
  BY <1>1 DEF Inv, Types
<1>9. \A q \in Requests : pc'[q] \notin {"idle", "find", "done"} => at'[q] \in Instances
  BY <1>7, <1>8 DEF Inv, Types
<1> QED BY <1>3, <1>4, <1>5, <1>6, <1>7, <1>8, <1>9

LEMMA EnterFailsInv == ASSUME Inv, NEW r \in Requests, EnterFails(r) PROVE Inv'
<1> DEFINE k0 == Here(r)
<1>1. k0 \in Keys
  BY HereInKeys DEF EnterFails
<1>2. Ends(r, "over") /\ Spend("redis_error")
  BY DEF EnterFails
<1>3. /\ count' \in [Keys -> Int] /\ ttl' \subseteq Keys /\ ghosts' \in [Keys -> Nat]
      /\ \A k \in Keys : count'[k] - ghosts'[k] <= count[k] - ghosts[k] - IF k \in held[r] THEN 1 ELSE 0
  <2>1. CASE Increment(r) /\ Abandon(held[r] \union {k0})
    <3>1. /\ count' = [count EXCEPT ![k0] = @ + 1] /\ ttl' = ttl \union {k0}
          /\ ghosts' = [k \in Keys |-> ghosts[k] + IF k \in held[r] \union {k0} THEN 1 ELSE 0]
      BY <2>1 DEF Increment, Abandon
    <3>2. k0 \notin held[r]
      <4> SUFFICES ASSUME k0 \in held[r] PROVE FALSE
        OBVIOUS
      <4>1. pc[r] = "enter" /\ at[r] \in Instances /\ stage[r] \in 1..3
        BY HereInKeys DEF EnterFails
      <4>2. PICK m \in Due("enter", stage[r]) : k0 = Key(at[r], m)
        BY <4>1 DEF Inv, Holds
      <4>3. m \in 1..3 /\ m < stage[r]
        BY <4>2 DEF Due
      <4> QED BY <4>1, <4>2, <4>3, KeysDiffer DEF Here
    <3>3. count' \in [Keys -> Int] /\ ttl' \subseteq Keys /\ ghosts' \in [Keys -> Nat]
      BY <1>1, <3>1 DEF Inv, Types
    <3>4. ASSUME NEW k \in Keys
          PROVE  count'[k] - ghosts'[k] <= count[k] - ghosts[k] - IF k \in held[r] THEN 1 ELSE 0
      <4>1. count[k] \in Int /\ ghosts[k] \in Nat
        BY DEF Inv, Types
      <4>2. CASE k = k0
        <5>1. count'[k] = count[k] + 1 /\ ghosts'[k] = ghosts[k] + 1
          BY <3>1, <4>2 DEF Inv, Types
        <5> QED BY <3>2, <4>1, <4>2, <5>1
      <4>3. CASE k # k0
        <5>1. count'[k] = count[k] /\ ghosts'[k] = ghosts[k] + IF k \in held[r] THEN 1 ELSE 0
          BY <3>1, <4>3 DEF Inv, Types
        <5> QED BY <4>1, <5>1
      <4> QED BY <4>2, <4>3
    <3> QED BY <3>3, <3>4
  <2>2. CASE Abandon(held[r]) /\ UNCHANGED <<count, ttl>>
    BY <2>2 DEF Abandon, Inv, Types
  <2> QED BY <2>1, <2>2 DEF EnterFails
<1>4. Types'
  BY <1>2, <1>3, EndsTypes, Spent DEF Inv, Types
<1>5. ASSUME NEW k \in Keys
      PROVE  count'[k] <= Cardinality(Users(k)') + ghosts'[k]
  <2>1. /\ count[k] \in Int /\ ghosts[k] \in Nat
        /\ Cardinality(Users(k)) \in Nat /\ Cardinality(Users(k)') \in Nat
        /\ count[k] <= Cardinality(Users(k)) + ghosts[k]
        /\ k \in held[r] => Cardinality(Users(k)') = Cardinality(Users(k)) - 1
        /\ k \notin held[r] => Cardinality(Users(k)') = Cardinality(Users(k))
    BY <1>2, EndsTypes, Dropped
  <2>2. count'[k] \in Int /\ ghosts'[k] \in Nat
    BY <1>3
  <2> QED BY <1>3, <2>1, <2>2
<1> QED BY <1>2, <1>4, <1>5, EndsTypes, Spent DEF Inv, CountersBounded

LEMMA CrashInv == ASSUME Inv, NEW r \in Requests, Crash(r) PROVE Inv'
<1>1. /\ Ends(r, "over") /\ Spend("crash") /\ UNCHANGED <<count, ttl>>
      /\ ghosts' = [k \in Keys |-> ghosts[k] + IF k \in held[r] THEN 1 ELSE 0]
  BY DEF Crash, Abandon
<1>2. Types'
  BY <1>1, EndsTypes, Spent DEF Inv, Types
<1>3. ASSUME NEW k \in Keys
      PROVE  count'[k] <= Cardinality(Users(k)') + ghosts'[k]
  <2>1. /\ count[k] \in Int /\ ghosts[k] \in Nat
        /\ Cardinality(Users(k)) \in Nat /\ Cardinality(Users(k)') \in Nat
        /\ count[k] <= Cardinality(Users(k)) + ghosts[k]
        /\ k \in held[r] => Cardinality(Users(k)') = Cardinality(Users(k)) - 1
        /\ k \notin held[r] => Cardinality(Users(k)') = Cardinality(Users(k))
    BY <1>1, EndsTypes, Dropped
  <2> QED BY <1>1, <2>1
<1> QED BY <1>1, <1>2, <1>3, EndsTypes, Spent DEF Inv, CountersBounded

LEMMA GiveUpInv == ASSUME Inv, NEW r \in Requests, GiveUp(r) PROVE Inv'
<1>1. pc[r] = "find" /\ Ends(r, "unavailable") /\ UNCHANGED <<count, ttl, ghosts, budget>>
  BY DEF GiveUp, redis
<1>2. held[r] = {}
  BY <1>1 DEF Inv, Holds, Due
<1>3. held' = held
  BY <1>1, <1>2 DEF Ends, Inv, Types
<1>4. Types'
  BY <1>1, EndsTypes DEF Inv, Types
<1>5. CountersBounded'
  BY <1>1, <1>3 DEF Inv, CountersBounded, Users
<1>6. Residue'
  <2>1. \A q \in Requests : pc[q] = "clear" => pc'[q] = "clear" /\ Here(q)' = Here(q)
    BY <1>1, EndsTypes DEF Here
  <2> QED BY <1>1, <2>1 DEF Inv, Residue
<1> QED BY <1>1, <1>4, <1>5, <1>6, EndsTypes DEF Inv

(* Picking, forwarding and coming back touch no counter. *)
LEMMA RoutesInv ==
  ASSUME Inv, registered \subseteq Instances, NEW r \in Requests,
         Arrive(r) \/ Route(r) \/ RetryOnce(r) \/ Answer(r) \/ Reject(r) \/ Reroute(r) \/ StreamEnds(r)
  PROVE  Inv'
<1>1. CASE Arrive(r)
  <2>1. pc[r] = "idle" /\ Goto(r, "find") /\ UNCHANGED <<at, stage, held, count, ttl, ghosts, budget>>
    BY <1>1 DEF Arrive, redis
  <2>2. Holds(r)'
    BY <2>1 DEF Inv, Holds, Due
  <2> QED BY <2>1, <2>2, QuietStep DEF Inv, Types, Places
<1>2. CASE Route(r)
  <2>1. PICK x \in Best(registered \ tries[r].attempted) : at' = [at EXCEPT ![r] = x]
    BY <1>2 DEF Route
  <2>2. /\ pc[r] = "find" /\ Goto(r, "enter") /\ stage' = [stage EXCEPT ![r] = 1]
        /\ UNCHANGED <<held, count, ttl, ghosts, budget>>
    BY <1>2 DEF Route, redis
  <2>3. x \in Instances
    BY BestOffered
  <2>4. Holds(r)'
    BY <2>2 DEF Inv, Holds, Due
  <2> QED BY <2>1, <2>2, <2>3, <2>4, QuietStep DEF Inv, Types, Places
<1>3. CASE RetryOnce(r)
  <2>1. UNCHANGED <<pc, at, stage, held, count, ttl, ghosts, budget>>
    BY <1>3 DEF RetryOnce, redis
  <2> QED BY <2>1 DEF Inv, Types, Holds, CountersBounded, Users, Residue, Here
<1>4. CASE Answer(r) \/ Reject(r) \/ Reroute(r) \/ StreamEnds(r)
  <2>1. /\ pc[r] \in {"send", "stream"} /\ stage' = [stage EXCEPT ![r] = 1]
        /\ UNCHANGED <<at, held, count, ttl, ghosts, budget>>
    BY <1>4 DEF Answer, Reject, Reroute, StreamEnds, Attempt, redis
  <2>2. PICK place \in {"leave", "stream"} : Goto(r, place)
    BY <1>4 DEF Answer, Reject, Reroute, StreamEnds, Returns
  <2>3. pc'[r] = place /\ at[r] \in Instances /\ stage'[r] = 1 /\ at' = at /\ held' = held
    BY <2>1, <2>2 DEF Goto, Inv, Types
  <2>4. \A m \in 1..3 : m \in Due(place, 1)
    BY DEF Due
  <2>5. \A k \in held[r] : \E m \in 1..3 : k = Key(at[r], m)
    BY DEF Inv, Holds, Due
  <2>6. Holds(r)'
    BY <2>3, <2>4, <2>5 DEF Holds
  <2> QED BY <2>1, <2>2, <2>3, <2>6, QuietStep DEF Inv, Types, Places
<1> QED BY <1>1, <1>2, <1>3, <1>4

(* Redis drops a counter, and with it what it still counted. *)
LEMMA ExpireInv == ASSUME Inv, NEW k0 \in Keys, Expire(k0) PROVE Inv'
<1>1. /\ count' = [count EXCEPT ![k0] = 0] /\ ttl' = ttl \ {k0}
      /\ ghosts' = [ghosts EXCEPT ![k0] = 0]
      /\ UNCHANGED <<pc, at, stage, held, budget>>
  BY DEF Expire, Delete
<1>2. Types'
  BY <1>1 DEF Inv, Types
<1>3. \A r \in Requests : Holds(r)'
  BY <1>1 DEF Inv, Holds
<1>4. CountersBounded'
  <2> SUFFICES ASSUME NEW k \in Keys
               PROVE  count'[k] <= Cardinality(Users(k)') + ghosts'[k]
    BY DEF CountersBounded
  <2>1. Users(k)' = Users(k) /\ Cardinality(Users(k)) \in Nat
    BY <1>1, UsersFinite DEF Users
  <2> QED BY <1>1, <2>1 DEF Inv, Types, CountersBounded
<1>5. Residue'
  <2> SUFFICES ASSUME budget' = MaxFaults, NEW k \in Keys
               PROVE  /\ ghosts'[k] = 0
                      /\ count'[k] < 0 => \E q \in Requests : pc'[q] = "clear" /\ Here(q)' = k
    BY DEF Residue
  <2>1. \A q \in Requests : pc[q] = "clear" => pc'[q] = "clear" /\ Here(q)' = Here(q)
    BY <1>1 DEF Here
  <2>2. count'[k] < 0 => count[k] < 0
    BY <1>1 DEF Inv, Types
  <2> QED BY <1>1, <2>1, <2>2 DEF Inv, Types, Residue
<1> QED BY <1>2, <1>3, <1>4, <1>5 DEF Inv

--------------------------------------------------------------------------------
(* The registry lists instances, and every counter is within its bound. *)
Registry == registered \subseteq Instances

LEMMA RegistryStep == ASSUME Registry, Next PROVE Registry'
<1>1. registered' = registered \/ registered' = Cached
  BY DEF Next, Step, Done, vars, world, Attempt, Arrive, Route, RetryOnce, GiveUp, Enter, Leave,
         Clear, Answer, Reject, Reroute, StreamEnds, EnterFails, LeaveFails, Crash, Expire,
         Probe, Stale, Move, Refresh
<1> QED BY <1>1 DEF Registry, Cached

LEMMA Calm == ASSUME Inv, UNCHANGED <<count, ttl, ghosts, pc, at, stage, held, budget>> PROVE Inv'
BY DEF Inv, Types, Holds, CountersBounded, Users, Residue, Here

LEMMA NextInv == ASSUME Inv, Registry, Next PROVE Inv'
<1>1. ASSUME NEW r \in Requests, Step(r)
      PROVE  Inv'
  BY <1>1, RoutesInv, GiveUpInv, EnterInv, LeaveInv, ClearInv DEF Step, Registry
<1>2. ASSUME NEW r \in Requests, EnterFails(r) \/ LeaveFails(r) \/ Crash(r)
      PROVE  Inv'
  BY <1>2, EnterFailsInv, LeaveFailsInv, CrashInv
<1>3. ASSUME NEW k \in Keys, Expire(k)
      PROVE  Inv'
  BY <1>3, ExpireInv
<1>4. ASSUME NEW x \in Instances, Probe(x) \/ Stale(x) \/ \E new \in Statuses : Move(x, new)
      PROVE  Inv'
  BY <1>4, Calm DEF Probe, Stale, Move, redis
<1>5. CASE Refresh \/ Done
  BY <1>5, Calm DEF Refresh, Done, redis, vars
<1> QED BY <1>1, <1>2, <1>3, <1>4, <1>5 DEF Next

(* The counters' inductive invariant holds in every reachable state. *)
THEOREM Counted == Spec => [](Inv /\ Registry)
<1>1. Init => Inv /\ Registry
  BY InitInv DEF Init, Registry
<1>2. Inv /\ Registry /\ [Next]_vars => Inv' /\ Registry'
  <2>1. ASSUME Inv, Registry, UNCHANGED vars
        PROVE  Inv' /\ Registry'
    BY <2>1, Calm DEF vars, Registry
  <2> QED BY <2>1, NextInv, RegistryStep
<1> QED BY <1>1, <1>2, PTL DEF Spec

(* A counter's users are at work: who has finished an attempt holds nothing. *)
LEMMA UsersWork == ASSUME Inv, NEW k PROVE Users(k) = Holders(k)
<1>1. \A r \in Requests : k \in held[r] => Working(r)
  BY DEF Inv, Types, Holds, Due, Working, Places
<1> QED BY <1>1 DEF Users, Holders

(* No Redis counter ever shows more than the requests at work that added to *)
(* it and the additions that crashes and Redis errors left behind: each way *)
(* out of an attempt (_routing_context's finally clause) takes back just    *)
(* what the attempt added, whichever replicas interleave.                   *)
THEOREM CountsSafe == Spec => []NeverOvercounts
<1>1. Inv => NeverOvercounts
  BY UsersWork DEF Inv, CountersBounded, NeverOvercounts
<1> QED BY <1>1, Counted, PTL

(* Until the first crash or Redis error, a counter that no request uses and *)
(* nobody is about to delete reads zero: decrement_active's separate DELETE *)
(* and expiries under a request leave neither more nor less behind.         *)
THEOREM DrainsSafe == Spec => []DrainedIsZero
<1>1. Inv => DrainedIsZero
  <2> SUFFICES ASSUME Inv, budget = MaxFaults, NEW k \in Keys, Quiet(k)
               PROVE  count[k] = 0
    BY DEF DrainedIsZero
  <2>1. Users(k) = {}
    BY UsersWork DEF Quiet
  <2>2. count[k] \in Int /\ count[k] <= Cardinality({}) + 0 /\ ~(count[k] < 0)
    BY <2>1 DEF Inv, Types, CountersBounded, Residue, Quiet
  <2> QED BY <2>2, FS_EmptySet
<1> QED BY <1>1, Counted, PTL

--------------------------------------------------------------------------------
(* The types of what the counters do not depend on. *)

Surroundings ==
  /\ status \in [Instances -> Statuses]
  /\ moves \in 0..MaxMoves
  /\ registered \subseteq Instances
  /\ healthy \subseteq Instances
  /\ tries \in [Requests -> Tries]
  /\ reply \in [Requests -> Replies]
  /\ steady \in [Requests -> SUBSET Instances]

LEMMA InitSurroundings == Init => Surroundings
BY RoutingAssumption DEF Init, Surroundings, Statuses, Tries, NoTries, Replies

LEMMA OutcomeTypes ==
  ASSUME Surroundings, NEW r \in Requests, NEW how \in Replies, Ends(r, how)
  PROVE  tries' \in [Requests -> Tries] /\ reply' \in [Requests -> Replies]
<1>1. NoTries \in Tries
  BY RoutingAssumption DEF NoTries, Tries
<1> QED BY <1>1 DEF Surroundings, Ends

LEMMA SeesTypes ==
  ASSUME Surroundings, NEW registry, NEW new, Sees(registry, new)
  PROVE  /\ steady' \in [Requests -> SUBSET Instances]
         /\ \A r \in Requests : steady'[r] = steady[r] \intersect Up(registry, new)
<1>1. \A r \in Requests : steady[r] \intersect Up(registry, new) \in SUBSET Instances
  BY DEF Surroundings
<1> QED BY <1>1 DEF Sees

(* The loop of route_request and stream_request. *)
LEMMA LoopTypes ==
  ASSUME Surroundings, NEW r \in Requests,
         Arrive(r) \/ Route(r) \/ RetryOnce(r) \/ GiveUp(r)
  PROVE  Surroundings'
<1>0. tries[r] \in Tries
  BY DEF Surroundings
<1>1. CASE Arrive(r)
  BY <1>1 DEF Arrive, Surroundings, Up, world
<1>2. CASE Route(r)
  <2>1. PICK x \in Best(registered \ tries[r].attempted) :
          tries' = [tries EXCEPT ![r].attempt = @ + 1, ![r].attempted = @ \union {x}]
    BY <1>2 DEF Route
  <2>2. x \in Instances
    BY <2>1, BestOffered DEF Surroundings
  <2>3. [tries[r] EXCEPT !.attempt = @ + 1, !.attempted = @ \union {x}] \in Tries
    <3>1. tries[r].attempt + 1 \in 0..MaxAttempts
      BY <1>0, <1>2, RoutingAssumption DEF Route, Tries
    <3>2. tries[r].attempted \union {x} \in SUBSET Instances
      BY <1>0, <2>2 DEF Tries
    <3> QED BY <1>0, <3>1, <3>2 DEF Tries
  <2>4. tries' = [tries EXCEPT ![r] =
                    [tries[r] EXCEPT !.attempt = @ + 1, !.attempted = @ \union {x}]]
    BY <1>0, <2>1 DEF Surroundings, Tries
  <2> QED BY <1>2, <2>3, <2>4 DEF Route, Surroundings, world
<1>3. CASE RetryOnce(r)
  <2>1. [tries[r] EXCEPT !.attempted = {}, !.retried = TRUE] \in Tries
    BY <1>0 DEF Tries
  <2>2. tries' = [tries EXCEPT ![r] = [tries[r] EXCEPT !.attempted = {}, !.retried = TRUE]]
    BY <1>0, <1>3 DEF RetryOnce, Surroundings, Tries
  <2>3. registered' \subseteq Instances /\ steady' \in [Requests -> SUBSET Instances]
    BY <1>3, SeesTypes DEF RetryOnce, Surroundings, Cached
  <2> QED BY <1>3, <2>1, <2>2, <2>3 DEF RetryOnce, Surroundings
<1>4. CASE GiveUp(r)
  <2>1. Ends(r, "unavailable") /\ "unavailable" \in Replies
    BY <1>4 DEF GiveUp, Replies
  <2>2. tries' \in [Requests -> Tries] /\ reply' \in [Requests -> Replies]
    BY <2>1, OutcomeTypes
  <2> QED BY <1>4, <2>2 DEF GiveUp, Surroundings, world
<1> QED BY <1>1, <1>2, <1>3, <1>4

(* After an attempt, the loop goes on with what it has tried, or is over. *)
LEMMA NextCounterTypes ==
  ASSUME Surroundings, NEW r \in Requests, NextCounter(r)
  PROVE  tries' \in [Requests -> Tries]
<1>1. NoTries \in Tries
  BY RoutingAssumption DEF NoTries, Tries
<1> QED BY <1>1 DEF Surroundings, NextCounter, AfterAttempt

LEMMA SurroundingsStep ==
  ASSUME Inv, Surroundings, [Next]_vars
  PROVE  Surroundings'
<1>1. ASSUME NEW r \in Requests, Enter(r) \/ Leave(r) \/ Clear(r) \/ LeaveFails(r)
      PROVE  Surroundings'
  BY <1>1, NextCounterTypes DEF Enter, Leave, Clear, LeaveFails, Surroundings, world
<1>2. ASSUME NEW r \in Requests, Answer(r) \/ Reject(r) \/ Reroute(r) \/ StreamEnds(r)
      PROVE  Surroundings'
  <2>1. at[r] \in Instances
    BY <1>2 DEF Answer, Reject, Reroute, StreamEnds, Inv, Types
  <2> QED BY <1>2, <2>1 DEF Answer, Reject, Reroute, StreamEnds, Returns, Attempt, world,
                            Surroundings, Replies
<1>3. ASSUME NEW r \in Requests, EnterFails(r) \/ Crash(r)
      PROVE  Surroundings'
  <2>1. Ends(r, "over") /\ "over" \in Replies
    BY <1>3 DEF EnterFails, Crash, Replies
  <2>2. tries' \in [Requests -> Tries] /\ reply' \in [Requests -> Replies]
    BY <2>1, OutcomeTypes
  <2> QED BY <1>3, <2>2 DEF EnterFails, Crash, Surroundings, world
<1>4. ASSUME NEW x \in Instances, NEW new \in Statuses, Move(x, new)
      PROVE  Surroundings'
  BY <1>4, SeesTypes, RoutingAssumption DEF Move, Surroundings
<1>5. CASE Refresh
  BY <1>5, SeesTypes DEF Refresh, Surroundings, Cached
<1>6. ASSUME NEW x \in Instances, Probe(x) \/ Stale(x)
      PROVE  Surroundings'
  BY <1>6 DEF Probe, Stale, Surroundings, world
<1>7. ASSUME NEW k \in Keys, Expire(k)
      PROVE  Surroundings'
  BY <1>7 DEF Expire, Surroundings, world
<1>8. CASE UNCHANGED vars
  BY <1>8 DEF vars, Surroundings
<1> QED BY <1>1, <1>2, <1>3, <1>4, <1>5, <1>6, <1>7, <1>8, LoopTypes DEF Next, Step, Done

THEOREM Typed == Spec => [](Inv /\ Registry /\ Surroundings)
<1>1. Inv /\ Registry /\ Surroundings /\ [Next]_vars => Surroundings'
  BY SurroundingsStep
<1> QED BY <1>1, InitSurroundings, Counted, PTL DEF Spec

(* The counters stay integers, the loop's attempt never exceeds            *)
(* MaxAttempts, and a request past _get_next_instance always has the        *)
(* instance it was routed to, whatever fails under it.                      *)
THEOREM TypeCorrect == Spec => []TypeOK
<1>1. Inv /\ Surroundings => TypeOK
  BY DEF Inv, Types, Surroundings, TypeOK
<1> QED BY <1>1, Typed, PTL

--------------------------------------------------------------------------------
(* Nobody is refused without need: what the loop has tried, it tried        *)
(* because it failed, and what failed is not steady any more.               *)

(* A request to which some instance was available all the time has not had  *)
(* to start over, has counted an attempt for each instance it tried, and    *)
(* has come back without an answer only from instances that are not steady. *)
Searching(r) ==
  /\ ~tries[r].retried
  /\ tries[r].attempt = Cardinality(tries[r].attempted)
  /\ \A x \in tries[r].attempted \intersect steady[r] : Working(r) /\ x = at[r]
  /\ pc[r] \in {"leave", "clear"} /\ reply[r] = "retry" => at[r] \notin steady[r]

Tracked(r) ==
  /\ steady[r] \subseteq Up(registered, status)
  /\ pc[r] = "idle" => tries[r] = NoTries
  /\ reply[r] = "unavailable" => pc[r] = "done" /\ steady[r] = {}
  /\ pc[r] \notin {"idle", "done"} /\ steady[r] # {} => Searching(r)

AllTracked == \A r \in Requests : Tracked(r)

LEMMA InitTracked == Init => AllTracked
BY DEF Init, AllTracked, Tracked

(* A change of the registry or of a status takes away from what is steady. *)
LEMMA WorldTracked ==
  ASSUME AllTracked, Surroundings, NEW registry, NEW new, Sees(registry, new),
         registered' = registry, status' = new,
         UNCHANGED <<pc, at, tries, reply>>
  PROVE  AllTracked'
<1> SUFFICES ASSUME NEW r \in Requests PROVE Tracked(r)'
  BY DEF AllTracked
<1>1. steady'[r] \subseteq steady[r] /\ steady'[r] \subseteq Up(registered', status')
  BY SeesTypes
<1>2. Up(registered, status)' = Up(registered', status')
  BY DEF Up
<1>3. Tracked(r)
  BY DEF AllTracked
<1>4. Searching(r) => Searching(r)'
  BY <1>1 DEF Searching, Working
<1> QED BY <1>1, <1>2, <1>3, <1>4 DEF Tracked

(* A step of one request. *)
LEMMA RequestTracked ==
  ASSUME AllTracked, Surroundings, NEW r \in Requests,
         UNCHANGED <<status, registered>>,
         \A q \in Requests \ {r} : /\ pc'[q] = pc[q] /\ at'[q] = at[q]
                                   /\ tries'[q] = tries[q] /\ reply'[q] = reply[q]
                                   /\ steady'[q] = steady[q],
         Tracked(r)'
  PROVE  AllTracked'
<1> SUFFICES ASSUME NEW q \in Requests \ {r} PROVE Tracked(q)'
  BY DEF AllTracked
<1>1. Tracked(q)
  BY DEF AllTracked
<1>2. Searching(q) => Searching(q)'
  BY DEF Searching, Working
<1> QED BY <1>1, <1>2 DEF Tracked, Up

(* What is left of a request after its task: the reply. *)
LEMMA EndsTracked ==
  ASSUME Inv, AllTracked, Surroundings, NEW r \in Requests, NEW how \in Replies, Ends(r, how),
         how = "unavailable" => steady[r] = {}, UNCHANGED <<status, registered, steady>>
  PROVE  AllTracked'
<1>1. Tracked(r)
  BY DEF AllTracked
<1>2. pc'[r] = "done" /\ reply'[r] = how
  BY DEF Ends, Goto, Inv, Types, Surroundings
<1>3. Tracked(r)'
  BY <1>1, <1>2 DEF Tracked, Up
<1> QED BY <1>3, RequestTracked DEF Ends, Goto, Inv, Types, Surroundings

LEMMA ArriveTracked ==
  ASSUME Inv, AllTracked, Surroundings, NEW r \in Requests, Arrive(r)
  PROVE  AllTracked'
<1>1. Tracked(r) /\ tries[r] = NoTries /\ reply[r] # "unavailable"
  BY DEF AllTracked, Arrive, Tracked
<1>2. /\ pc'[r] = "find" /\ tries'[r] = NoTries /\ reply'[r] = reply[r]
      /\ steady'[r] = Up(registered, status) /\ UNCHANGED <<registered, status>>
  BY <1>1 DEF Arrive, Goto, Inv, Types, Surroundings, world
<1>3. Searching(r)'
  BY <1>2, FS_EmptySet DEF Searching, NoTries
<1>4. Tracked(r)'
  BY <1>1, <1>2, <1>3 DEF Tracked, Up
<1> QED BY <1>2, <1>4, RequestTracked DEF Arrive, Goto, Inv, Types, Surroundings

LEMMA RouteTracked ==
  ASSUME Inv, AllTracked, Surroundings, NEW r \in Requests, Route(r)
  PROVE  AllTracked'
<1> DEFINE t == tries[r]
<1>1. PICK x \in Best(registered \ t.attempted) :
        /\ at' = [at EXCEPT ![r] = x]
        /\ tries' = [tries EXCEPT ![r].attempt = @ + 1, ![r].attempted = @ \union {x}]
  BY DEF Route
<1>2. x \in Instances /\ x \notin t.attempted
  BY <1>1, BestOffered DEF Surroundings
<1>3. t \in Tries
  BY DEF Surroundings
<1>4. /\ tries'[r].attempt = t.attempt + 1
      /\ tries'[r].attempted = t.attempted \union {x}
      /\ tries'[r].retried = t.retried
      /\ \A q \in Requests \ {r} : tries'[q] = tries[q]
  BY <1>1, <1>3 DEF Surroundings, Tries
<1>5. at'[r] = x /\ pc'[r] = "enter" /\ steady' = steady /\ reply' = reply
      /\ UNCHANGED <<registered, status>>
  BY <1>1, <1>2 DEF Route, Goto, Inv, Types, world
<1>6. Tracked(r)
  BY DEF AllTracked
<1>7. Cardinality(t.attempted \union {x}) = Cardinality(t.attempted) + 1
  <2>1. IsFiniteSet(t.attempted)
    BY <1>3, RoutingAssumption, FS_Subset DEF Tries
  <2> QED BY <1>2, <2>1, FS_AddElement
<1>8. steady[r] # {} => Searching(r)'
  <2> SUFFICES ASSUME steady[r] # {} PROVE Searching(r)'
    OBVIOUS
  <2>1. Searching(r)
    BY <1>6 DEF Tracked, Route
  <2>2. t.attempted \intersect steady[r] = {}
    BY <2>1 DEF Searching, Working, Route
  <2> QED BY <1>4, <1>5, <1>7, <2>1, <2>2 DEF Searching, Working
<1>9. Tracked(r)'
  BY <1>5, <1>6, <1>8 DEF Tracked, Up, Route
<1> QED BY <1>1, <1>4, <1>5, <1>9, RequestTracked DEF Route, Goto, Inv, Types

(* To whom everything registered has failed, no instance is steady. *)
LEMMA NothingSteady ==
  ASSUME AllTracked, NEW r \in Requests, pc[r] = "find", registered \subseteq tries[r].attempted
  PROVE  steady[r] = {}
<1>1. Tracked(r)
  BY DEF AllTracked
<1>2. steady[r] \subseteq tries[r].attempted
  BY <1>1 DEF Tracked, Up
<1> QED BY <1>1, <1>2 DEF Tracked, Searching, Working

LEMMA RetryOnceTracked ==
  ASSUME Inv, AllTracked, Surroundings, NEW r \in Requests, RetryOnce(r)
  PROVE  AllTracked'
<1>1. steady[r] = {}
  BY NothingSteady DEF RetryOnce
<1>2. \A q \in Requests : steady'[q] \subseteq steady[q] /\ steady'[q] \subseteq Up(registered', status)
  BY SeesTypes DEF RetryOnce
<1>3. UNCHANGED <<status, pc, at, reply>> /\ \A q \in Requests \ {r} : tries'[q] = tries[q]
  BY DEF RetryOnce, Surroundings
<1> SUFFICES ASSUME NEW q \in Requests PROVE Tracked(q)'
  BY DEF AllTracked
<1>4. Tracked(q)
  BY DEF AllTracked
<1>5. CASE q = r
  BY <1>1, <1>2, <1>3, <1>4, <1>5 DEF Tracked, Up, RetryOnce
<1>6. CASE q # r
  <2>1. Searching(q) => Searching(q)'
    BY <1>2, <1>3, <1>6 DEF Searching, Working
  <2> QED BY <1>2, <1>3, <1>4, <1>6, <2>1 DEF Tracked, Up
<1> QED BY <1>5, <1>6

(* The end of the loop: with an attempt for each instance, all were tried. *)
LEMMA GiveUpTracked ==
  ASSUME Inv, AllTracked, Surroundings, NEW r \in Requests, GiveUp(r),
         Cardinality(Instances) <= MaxAttempts
  PROVE  AllTracked'
<1> DEFINE t == tries[r]
<1>1. Tracked(r) /\ t \in Tries /\ pc[r] = "find"
  BY DEF AllTracked, Surroundings, GiveUp
<1>2. ASSUME t.attempt = MaxAttempts
      PROVE  steady[r] = {}
  <2> SUFFICES ASSUME steady[r] # {} PROVE FALSE
    OBVIOUS
  <2>1. Searching(r)
    BY <1>1 DEF Tracked
  <2>2. t.attempted \in SUBSET Instances /\ Cardinality(t.attempted) = MaxAttempts
    BY <1>1, <1>2, <2>1 DEF Searching, Tries
  <2>3. Cardinality(Instances) = Cardinality(t.attempted)
    BY <2>2, RoutingAssumption, FS_Subset, FS_CardinalityType
  <2>4. t.attempted = Instances
    BY <2>2, <2>3, RoutingAssumption, FS_Subset
  <2>5. steady[r] \subseteq Instances
    BY DEF Surroundings
  <2> QED BY <1>1, <2>1, <2>4, <2>5 DEF Searching, Working
<1>3. steady[r] = {}
  BY <1>2, NothingSteady DEF GiveUp
<1>4. Ends(r, "unavailable") /\ "unavailable" \in Replies
  BY DEF GiveUp, Replies
<1> QED BY <1>3, <1>4, EndsTracked DEF GiveUp, world

(* Within an attempt, the request has its instance, and does not end. *)
LEMMA AttemptTracked ==
  ASSUME Inv, AllTracked, Surroundings, NEW r \in Requests, Working(r),
         NEW place \in {"enter", "send", "stream", "leave", "clear"}, Goto(r, place),
         UNCHANGED <<status, registered, at, tries, steady>>,
         \A q \in Requests \ {r} : reply'[q] = reply[q],
         reply'[r] # "unavailable",
         place \in {"leave", "clear"} /\ reply'[r] = "retry" => at[r] \notin steady[r]
  PROVE  AllTracked'
<1>1. Tracked(r)
  BY DEF AllTracked
<1>2. pc'[r] = place /\ \A q \in Requests \ {r} : pc'[q] = pc[q]
  BY DEF Goto, Inv, Types
<1>3. Searching(r) => Searching(r)'
  BY <1>2 DEF Searching, Working
<1>4. Tracked(r)'
  BY <1>1, <1>2, <1>3 DEF Tracked, Working, Up
<1> QED BY <1>2, <1>4, RequestTracked

LEMMA ForwardTracked ==
  ASSUME Inv, AllTracked, Surroundings, NEW r \in Requests,
         Enter(r) \/ Answer(r) \/ Reject(r) \/ Reroute(r) \/ StreamEnds(r)
  PROVE  AllTracked'
<1>1. Tracked(r) /\ Working(r) /\ reply[r] # "unavailable"
  BY DEF AllTracked, Tracked, Working, Enter, Answer, Reject, Reroute, StreamEnds
<1>2. CASE Enter(r)
  <2>1. Goto(r, "send") \/ Goto(r, "enter")
    BY <1>2 DEF Enter, Goto, Inv, Types
  <2> QED BY <1>1, <1>2, <2>1, AttemptTracked DEF Enter, world
<1>3. ASSUME NEW how \in {"over", "retry"}, Returns(r, how),
             UNCHANGED <<status, registered, at, tries, steady>>,
             how = "retry" => at[r] \notin steady[r]
      PROVE  AllTracked'
  BY <1>1, <1>3, AttemptTracked DEF Returns, Surroundings
<1>4. CASE Reroute(r)
  <2>1. at[r] \notin steady[r]
    BY <1>1, <1>4 DEF Reroute, Tracked, Up
  <2> QED BY <1>3, <1>4, <2>1 DEF Reroute, Attempt, world
<1>5. CASE Answer(r)
  <2>1. CASE Goto(r, "stream") /\ UNCHANGED reply
    BY <1>1, <1>5, <2>1, AttemptTracked DEF Answer, Attempt, world
  <2> QED BY <1>3, <1>5, <2>1 DEF Answer, Attempt, world
<1>6. CASE Reject(r) \/ StreamEnds(r)
  BY <1>3, <1>6 DEF Reject, StreamEnds, Attempt, world
<1> QED BY <1>2, <1>4, <1>5, <1>6

LEMMA NextCounterTracked ==
  ASSUME Inv, AllTracked, Surroundings, NEW r \in Requests, pc[r] \in {"leave", "clear"},
         NextCounter(r), UNCHANGED <<status, registered, reply, steady>>
  PROVE  AllTracked'
<1>1. Tracked(r) /\ Working(r) /\ reply[r] # "unavailable"
  BY DEF AllTracked, Tracked, Working
<1>2. steady[r] # {} /\ reply[r] = "retry" => at[r] \notin steady[r]
  BY <1>1 DEF Tracked, Searching
<1>3. CASE Goto(r, "leave") /\ UNCHANGED <<at, tries>>
  BY <1>1, <1>2, <1>3, AttemptTracked
<1>4. CASE AfterAttempt(r)
  <2>1. /\ \A q \in Requests \ {r} : pc'[q] = pc[q] /\ at'[q] = at[q] /\ tries'[q] = tries[q]
        /\ pc'[r] = IF reply[r] = "retry" THEN "find" ELSE "done"
        /\ reply[r] = "retry" => tries' = tries
    BY <1>4 DEF AfterAttempt, Goto, Inv, Types, Surroundings
  <2>2. ASSUME reply[r] = "retry", steady[r] # {}
        PROVE  Searching(r)'
    BY <1>1, <1>2, <2>1, <2>2 DEF Tracked, Searching, Working
  <2>3. Tracked(r)'
    BY <1>1, <2>1, <2>2 DEF Tracked, Up
  <2> QED BY <2>1, <2>3, RequestTracked
<1> QED BY <1>3, <1>4 DEF NextCounter

LEMMA LeaveTracked ==
  ASSUME Inv, AllTracked, Surroundings, NEW r \in Requests,
         Leave(r) \/ Clear(r) \/ LeaveFails(r)
  PROVE  AllTracked'
<1>1. Tracked(r) /\ Working(r) /\ reply[r] # "unavailable"
  BY DEF AllTracked, Tracked, Working, Leave, Clear, LeaveFails
<1>2. steady[r] # {} /\ reply[r] = "retry" => at[r] \notin steady[r]
  BY <1>1 DEF Tracked, Searching, Leave, Clear, LeaveFails
<1>3. CASE Leave(r) /\ Goto(r, "clear") /\ UNCHANGED <<at, tries>>
  BY <1>1, <1>2, <1>3, AttemptTracked DEF Leave, world
<1>4. CASE NextCounter(r)
  BY <1>4, NextCounterTracked DEF Leave, Clear, LeaveFails, world
<1> QED BY <1>3, <1>4 DEF Leave, Clear, LeaveFails

LEMMA TrackedStep ==
  ASSUME Inv, Surroundings, AllTracked, [Next]_vars, Cardinality(Instances) <= MaxAttempts
  PROVE  AllTracked'
<1>1. ASSUME NEW r \in Requests, Step(r)
      PROVE  AllTracked'
  BY <1>1, ArriveTracked, RouteTracked, RetryOnceTracked, GiveUpTracked, ForwardTracked,
     LeaveTracked DEF Step
<1>2. ASSUME NEW r \in Requests, EnterFails(r) \/ Crash(r)
      PROVE  AllTracked'
  <2>1. Ends(r, "over") /\ "over" \in Replies
    BY <1>2 DEF EnterFails, Crash, Replies
  <2> QED BY <1>2, <2>1, EndsTracked DEF EnterFails, Crash, world
<1>3. ASSUME NEW x \in Instances, NEW new \in Statuses, Move(x, new)
      PROVE  AllTracked'
  BY <1>3, WorldTracked DEF Move
<1>4. CASE Refresh
  BY <1>4, WorldTracked DEF Refresh
<1>5. ASSUME UNCHANGED <<status, registered, pc, at, tries, reply, steady>>
      PROVE  AllTracked'
  BY <1>5 DEF AllTracked, Tracked, Searching, Working, Up
<1>6. ASSUME NEW x \in Instances, Probe(x) \/ Stale(x)
      PROVE  AllTracked'
  BY <1>5, <1>6 DEF Probe, Stale, world
<1>7. ASSUME NEW k \in Keys, Expire(k)
      PROVE  AllTracked'
  BY <1>5, <1>7 DEF Expire, world
<1>8. CASE UNCHANGED vars
  BY <1>5, <1>8 DEF vars
<1> QED BY <1>1, <1>2, <1>3, <1>4, <1>6, <1>7, <1>8, LeaveTracked DEF Next, Done

(* Given an attempt for each instance, route_request and stream_request end *)
(* in "no instance available" only if no instance was up and registered all *)
(* the time since the request arrived, however instances come and go, the   *)
(* registry lags behind and other requests are routed meanwhile.            *)
THEOREM RefusedForReason == Spec => []NoSpuriousFailure
<1>1. CASE Cardinality(Instances) <= MaxAttempts
  <2>1. Inv /\ Surroundings /\ AllTracked /\ [Next]_vars => AllTracked'
    BY <1>1, TrackedStep
  <2>2. AllTracked => NoSpuriousFailure
    BY DEF AllTracked, Tracked, NoSpuriousFailure
  <2> QED BY <2>1, <2>2, InitTracked, Typed, PTL DEF Spec
<1>2. CASE ~(Cardinality(Instances) <= MaxAttempts)
  <2>1. NoSpuriousFailure
    BY <1>2 DEF NoSpuriousFailure
  <2> QED BY <2>1, PTL
<1> QED BY <1>1, <1>2
================================================================================
