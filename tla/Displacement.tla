------------------------------ MODULE Displacement ------------------------------
(***************************************************************************)
(* Workloads give way to more important ones: a reservation                *)
(* (app/services/reservation.py), an intent without room (MIGRATE in       *)
(* app/services/reconciliation.py) or an operator has an instance moved    *)
(* (app/services/migration.py), while the reconciler of the displaced      *)
(* workload, whose lock a migration does not take, goes on with its        *)
(* passes.  Each workload is an intent that asks for one replica.          *)
(***************************************************************************)
EXTENDS Integers, FiniteSets, SequencesExt

CONSTANTS
  Hosts,      \* solar-hosts, numbered in the order the database lists them
  Slots,      \* instance identifiers (a bound), numbered
  Loads,      \* the workloads that may be moved
  Priority,   \* Priority[w]: a workload's priority
  Room,       \* Room[h]: how many units fit on a host; an instance takes one
  Movers,     \* the reservations, displacing passes and operator's requests
  Kind,       \* Kind[m]: which of them m is
  Claim,      \* Claim[m]: the priority it moves others with
  Need,       \* Need[m]: the units it needs on one host
  Together,   \* the sets of movers that may start in one behaviour (a bound)
  Faults,     \* what may go wrong, see FaultKinds
  MaxFaults   \* how many of them happen (a bound)

(* "host_error": a request to a host fails, with or without its effect;     *)
(* "redis_error": a write to Redis fails; "timeout": wait_for cancels a     *)
(* displacement; "crash": the process dies, and every request with it.      *)
FaultKinds == {"host_error", "redis_error", "timeout", "crash"}

Rank == [ephemeral |-> 0, staging |-> 1, production |-> 2]

ASSUME DisplacementAssumption ==
  /\ Hosts \subseteq Nat \ {0} /\ IsFiniteSet(Hosts)
  /\ Slots \subseteq Nat \ {0} /\ IsFiniteSet(Slots)
  /\ IsFiniteSet(Loads)
  /\ Priority \in [Loads -> DOMAIN Rank]
  /\ Room \in [Hosts -> Nat]
  /\ Kind \in [Movers -> {"reservation", "displacement", "operator"}]
  /\ Claim \in [Movers -> DOMAIN Rank]
  /\ Need \in [Movers -> Nat]
  /\ Together \subseteq SUBSET Movers
  /\ Faults \subseteq FaultKinds
  /\ MaxFaults \in Nat

VARIABLES
  inst,     \* inst[k]: the instance k on its host
  cache,    \* cache[h]: the instances of h as Redis has them
  plan,     \* plan[w]: the action the pass over w is about to take
  rest,     \* the workloads that the passes leave alone (in memory)
  pc,       \* pc[m]: where the mover stands
  move,     \* move[m]: its local variables
  lease,    \* lease[m]: the host that holds its reservation, or 0
  tracked,  \* tracked[m]: the host that Redis has for its reservation, or 0
  budget    \* faults that may still happen

owner == <<plan, rest>>
leases == <<lease, tracked>>
vars == <<inst, cache, plan, rest, pc, move, lease, tracked, budget>>

NoLoad == "none"
Inst == [host: Hosts, load: Loads, owned: BOOLEAN, state: {"stopped", "running"}]
NoInst == [state |-> "absent"]

Entry == [slot: Slots, load: Loads, owned: BOOLEAN, state: {"stopped", "running"}]

Act == [type: {"none", "stop", "create", "recreate"},
        slot: Slots \union {0}, host: Hosts \union {0}]
NoAct == [type |-> "none", slot |-> 0, host |-> 0]

(* slot .. owned: the migration under way, with what it captured; at, todo, *)
(* one, to: where the loops of the reservation stand, over the hosts, over  *)
(* the instances displaceable there and, for one, over the other hosts.     *)
Move == [slot: Slots \union {0}, source: Hosts \union {0}, target: Hosts \union {0},
         load: Loads \union {NoLoad}, owned: BOOLEAN,
         at: Hosts \union {0}, todo: SUBSET Entry,
         one: Slots \union {0}, to: Hosts \union {0}]
NoMove == [slot |-> 0, source |-> 0, target |-> 0, load |-> NoLoad, owned |-> FALSE,
           at |-> 0, todo |-> {}, one |-> 0, to |-> 0]

Migrating == {"survey", "stop", "disown", "forget", "create"}

TypeOK ==
  /\ inst \in [Slots -> Inst \union {NoInst}]
  /\ cache \in [Hosts -> SUBSET Entry]
  /\ plan \in [Loads -> Act]
  /\ rest \subseteq Loads
  /\ pc \in [Movers -> Migrating \union
               {"idle", "scan", "reserve", "store", "held", "free", "drop", "evict", "done"}]
  /\ move \in [Movers -> Move]
  /\ lease \in [Movers -> Hosts \union {0}]
  /\ tracked \in [Movers -> Hosts \union {0}]
  /\ budget \in 0..MaxFaults

On(h) == {k \in Slots : inst[k] # NoInst /\ inst[k].host = h}

Listed(k) == [slot |-> k, load |-> inst[k].load, owned |-> inst[k].owned,
              state |-> inst[k].state]
Actual(h) == {Listed(k) : k \in On(h)}

Held(h) == {m \in Movers : lease[m] = h}
Free(h) ==
  Room[h] - Cardinality({k \in On(h) : inst[k].state = "running"})
          - MapThenSumSet(LAMBDA m : Need[m], Held(h))

(* Every workload has its replica, on a host with room for it, and earlier  *)
(* migrations may have left disowned copies.                                *)
Init ==
  /\ \E f \in [Loads -> Hosts], left \in [Loads -> SUBSET Hosts] :
       LET replicas == {<<w, f[w], TRUE>> : w \in Loads}
           copies == UNION {{<<w, h, FALSE>> : h \in left[w]} : w \in Loads}
           name == SetToSeq(replicas) \o SetToSeq(copies) IN
       /\ \A w \in Loads : f[w] \notin left[w]
       /\ \A h \in Hosts : Cardinality({w \in Loads : f[w] = h}) <= Room[h]
       /\ inst = [k \in Slots |-> IF k \in DOMAIN name
            THEN [load |-> name[k][1], host |-> name[k][2], owned |-> name[k][3],
                  state |-> IF name[k][3] THEN "running" ELSE "stopped"]
            ELSE NoInst]
       /\ inst \in [Slots -> Inst \union {NoInst}]
  /\ lease = [m \in Movers |-> 0]
  /\ cache = [h \in Hosts |-> Actual(h)]
  /\ plan = [w \in Loads |-> NoAct]
  /\ rest = {}
  /\ pc = [m \in Movers |-> "idle"]
  /\ move = [m \in Movers |-> NoMove]
  /\ tracked = [m \in Movers |-> 0]
  /\ budget = MaxFaults

--------------------------------------------------------------------------------
(* What a host does, and what control knows of it. *)

Spend(kind) == kind \in Faults /\ budget > 0 /\ budget' = budget - 1

HostSets(k, value) == inst' = [inst EXCEPT ![k] = value]

(* Identifiers are never used again: one that somebody remembers is not free. *)
Remembered ==
  {e.slot : e \in UNION {cache[h] : h \in Hosts}} \union {plan[w].slot : w \in Loads}
    \union {move[m].slot : m \in Movers}
    \union {move[m].one : m \in Movers}
    \union {e.slot : e \in UNION {move[m].todo : m \in Movers}}
Fresh(k) ==
  LET free == {j \in Slots : inst[j] = NoInst} \ Remembered IN
  k \in free /\ \A j \in free : k <= j

(* A host's instances_update reaches the cache. *)
Push(h) ==
  /\ cache[h] # Actual(h)
  /\ cache' = [cache EXCEPT ![h] = Actual(h)]
  /\ UNCHANGED <<inst, owner, pc, move, leases, budget>>

HasAlias(h, w) == \E e \in cache[h] : e.load = w

(* can_displace *)
Lower(w, claim) == Rank[Priority[w]] < Rank[claim]

(* Slip: equal priorities may displace each other. *)
DisplaceableOrEqual(h, claim) ==
  {e \in cache[h] : Lower(e.load, claim) \/ Priority[e.load] = claim}

(* find_displaceable_instances, and the lists it may sort them into: the    *)
(* lowest comes first.                                                      *)
Displaceable(h, claim) == {e \in cache[h] : Lower(e.load, claim)}
Lowest(S) == {e \in S : \A f \in S : ~Lower(f.load, Priority[e.load])}

--------------------------------------------------------------------------------
(* execute_migration, step by step. *)

Goto(m, place) == pc' = [pc EXCEPT ![m] = place]

(* Slip: the failed migration ends the reservation in no known state. *)
LeaveFailed(m) == Goto(m, "failed") /\ move' = [move EXCEPT ![m] = NoMove]

(* The migration is over: a reservation tries its next pair of instance and *)
(* host, be it because of a failure or because it does not fit yet; the     *)
(* others report how it went.                                               *)
Leave(m) ==
  IF Kind[m] = "reservation"
  THEN /\ Goto(m, "scan")
       /\ move' = [move EXCEPT ![m] = [NoMove EXCEPT
            !.at = move[m].at, !.todo = move[m].todo, !.one = move[m].one, !.to = move[m].to]]
  ELSE Goto(m, "done") /\ move' = [move EXCEPT ![m] = NoMove]

Finish(m) == Goto(m, "done") /\ move' = [move EXCEPT ![m] = NoMove]

(* Only an operator may allow a production workload to be moved. *)
Fit(m) ==
  LET k == move[m].slot IN
  /\ inst[k] # NoInst /\ inst[k].host = move[m].source
  /\ Priority[inst[k].load] = "production" => Kind[m] = "operator"
  /\ ~HasAlias(move[m].target, inst[k].load)

(* The checks before anything is changed, and the transfer of the model: an *)
(* answer that the host has no room for it is a failed request.             *)
Survey(m) ==
  LET k == move[m].slot IN
  /\ pc[m] = "survey"
  /\ \/ /\ Fit(m)
        /\ move' = [move EXCEPT ![m].load = inst[k].load, ![m].owned = inst[k].owned]
        /\ Goto(m, "stop")
        /\ UNCHANGED budget
     \/ /\ Fit(m) => Spend("host_error")
        /\ ~Fit(m) => UNCHANGED budget
        /\ Leave(m)
  /\ UNCHANGED <<inst, cache, owner, leases>>

StopSource(m) ==
  LET k == move[m].slot
      there == inst[k] # NoInst IN
  /\ pc[m] = "stop"
  /\ \/ there /\ HostSets(k, [inst[k] EXCEPT !.state = "stopped"])
        /\ Goto(m, "disown") /\ UNCHANGED <<move, budget>>
     \/ there /\ Spend("host_error") /\ Leave(m)
        /\ (UNCHANGED inst \/ HostSets(k, [inst[k] EXCEPT !.state = "stopped"]))
     \/ ~there /\ Leave(m) /\ UNCHANGED <<inst, budget>>
  /\ UNCHANGED <<cache, owner, leases>>

(* The host clears the markers of a stopped instance only. *)
Disown(m) ==
  LET k == move[m].slot
      asleep == inst[k] # NoInst /\ inst[k].state = "stopped" IN
  /\ pc[m] = "disown"
  /\ \/ asleep /\ HostSets(k, [inst[k] EXCEPT !.owned = FALSE])
        /\ Goto(m, "forget") /\ UNCHANGED <<move, budget>>
     \/ asleep /\ Spend("host_error") /\ Leave(m)
        /\ (UNCHANGED inst \/ HostSets(k, [inst[k] EXCEPT !.owned = FALSE]))
     \/ ~asleep /\ Leave(m) /\ UNCHANGED <<inst, budget>>
  /\ UNCHANGED <<cache, owner, leases>>

(* The markers are cleared in the cache as well. *)
Forget(m) ==
  LET h == move[m].source
      k == move[m].slot IN
  /\ pc[m] = "forget"
  /\ \/ /\ cache' = [cache EXCEPT ![h] =
               {IF e.slot = k THEN [e EXCEPT !.owned = FALSE] ELSE e : e \in @}]
        /\ Goto(m, "create")
        /\ UNCHANGED <<move, budget>>
     \/ Spend("redis_error") /\ Leave(m) /\ UNCHANGED cache
  /\ UNCHANGED <<inst, owner, leases>>

(* The target is created stopped, with the captured markers: it is for the  *)
(* reconciler to start it.  A reservation looks whether it fits by now.     *)
CreateTarget(m) ==
  LET new == [host |-> move[m].target, load |-> move[m].load,
              owned |-> move[m].owned, state |-> "stopped"] IN
  /\ pc[m] = "create"
  /\ \E k \in Slots :
       /\ Fresh(k)
       /\ \/ /\ HostSets(k, new)
             /\ IF Kind[m] = "reservation" /\ Free(move[m].at) >= Need[m]
                THEN Goto(m, "reserve") /\ move' = [move EXCEPT ![m] =
                                             [NoMove EXCEPT !.at = move[m].at]]
                ELSE Leave(m)
             /\ UNCHANGED budget
          \/ Spend("host_error") /\ Leave(m) /\ (HostSets(k, new) \/ UNCHANGED inst)
  /\ UNCHANGED <<cache, owner, leases>>

--------------------------------------------------------------------------------
(* reserve_resources and release_reservation. *)

Fullest(S) == {h \in S : \A g \in S : Free(g) <= Free(h)}
Fitting(n) == {h \in Hosts : Free(h) >= n}

BeginReservation(m) ==
  /\ Kind[m] = "reservation"
  /\ pc[m] = "idle"
  /\ IF Fitting(Need[m]) = {}
     THEN Goto(m, "scan") /\ UNCHANGED move
     ELSE \E h \in Fullest(Fitting(Need[m])) :
            Goto(m, "reserve") /\ move' = [move EXCEPT ![m].at = h]
  /\ UNCHANGED <<inst, cache, owner, leases, budget>>

Foremost(S) == {h \in S : \A g \in S : h <= g}
(* The next host for the instance, the next instance, the next host to make *)
(* room on, or the refusal.                                                 *)
Scan(m) ==
  LET v == move[m]
      others == {h \in Hosts \ {v.at} : h > v.to}
      hosts == {h \in Hosts : h > v.at}
      through == v.one = 0 \/ others = {} IN
  /\ pc[m] = "scan"
  /\ \/ /\ ~through
        /\ \E h \in Foremost(others) :
             move' = [move EXCEPT ![m] =
               [v EXCEPT !.slot = v.one, !.source = v.at, !.target = h, !.to = h]]
        /\ Goto(m, "survey")
     \/ /\ through
        /\ \E e \in Lowest(v.todo) :
             move' = [move EXCEPT ![m] = [v EXCEPT !.one = e.slot, !.to = 0, !.todo = @ \ {e}]]
        /\ UNCHANGED pc
     \/ /\ through /\ v.todo = {}
        /\ \E h \in Foremost(hosts) :
             move' = [move EXCEPT ![m] =
               [NoMove EXCEPT !.at = h, !.todo = Displaceable(h, Claim[m])]]
        /\ UNCHANGED pc
     \/ through /\ v.todo = {} /\ hosts = {} /\ Finish(m)
  /\ UNCHANGED <<inst, cache, owner, leases, budget>>

HostReserves(m) ==
  LET h == move[m].at
      fits == Free(h) >= Need[m] IN
  /\ pc[m] = "reserve"
  /\ \/ fits /\ lease' = [lease EXCEPT ![m] = h] /\ Goto(m, "store") /\ UNCHANGED <<move, budget>>
     \/ ~fits /\ Finish(m) /\ UNCHANGED <<lease, budget>>
     \/ fits /\ Spend("host_error") /\ Finish(m)
        /\ (UNCHANGED lease \/ lease' = [lease EXCEPT ![m] = h])
  /\ UNCHANGED <<inst, cache, owner, tracked>>

StoreReservation(m) ==
  /\ pc[m] = "store"
  /\ \/ tracked' = [tracked EXCEPT ![m] = move[m].at] /\ UNCHANGED budget
        /\ Goto(m, "held") /\ move' = [move EXCEPT ![m] = NoMove]
     \/ Spend("redis_error") /\ Finish(m) /\ UNCHANGED tracked
  /\ UNCHANGED <<inst, cache, owner, lease>>

(* The client, if it got an answer, gives the reservation back, perhaps     *)
(* once more after a failure.                                               *)
Release(m) ==
  /\ pc[m] \in {"held", "done"}
  /\ tracked[m] # 0
  /\ Goto(m, "free")
  /\ UNCHANGED <<inst, cache, owner, move, leases, budget>>

(* Slip: the record is dropped although the host was not asked. *)
HostNotAsked(m) ==
  /\ pc[m] = "free"
  /\ Goto(m, "drop")
  /\ UNCHANGED <<inst, cache, owner, move, leases, budget>>

(* The record is dropped in either case: the host's lease will expire. *)
HostReleases(m) ==
  /\ pc[m] = "free"
  /\ Goto(m, "drop")
  /\ \/ lease' = [lease EXCEPT ![m] = 0] /\ UNCHANGED budget
     \/ Spend("host_error") /\ UNCHANGED lease
  /\ UNCHANGED <<inst, cache, owner, move, tracked>>

DropReservation(m) ==
  /\ pc[m] = "drop"
  /\ Goto(m, "done")
  /\ \/ tracked' = [tracked EXCEPT ![m] = 0] /\ UNCHANGED budget
     \/ Spend("redis_error") /\ UNCHANGED tracked
  /\ UNCHANGED <<inst, cache, owner, move, lease>>

(* The lease's TTL on the host. *)
Expire(m) ==
  /\ lease[m] # 0
  /\ lease' = [lease EXCEPT ![m] = 0]
  /\ UNCHANGED <<inst, cache, owner, pc, move, tracked, budget>>

--------------------------------------------------------------------------------
(* A displacing pass, an operator's request, and the end of a mover. *)

(* An intent finds no room: the lowest instance of some host is to move to  *)
(* the host with most room among those without its alias.  The passes over  *)
(* the displaced intent rest for a while, if the cache names it.            *)
Displace(m) ==
  /\ Kind[m] = "displacement"
  /\ pc[m] = "idle"
  /\ Fitting(Need[m]) = {}
  /\ \E h \in Hosts : \E e \in Lowest(Displaceable(h, Claim[m])) :
       LET targets == {t \in Hosts \ {h} : ~HasAlias(t, e.load)} IN
       /\ rest' = IF e.owned THEN rest \union {e.load} ELSE rest
       /\ \/ \E t \in Fullest(targets) :
               /\ move' = [move EXCEPT ![m] =
                    [@ EXCEPT !.slot = e.slot, !.source = h, !.target = t]]
               /\ Goto(m, "survey")
          \/ /\ targets = {}
             /\ IF Priority[e.load] = "ephemeral"
                THEN Goto(m, "evict") /\ move' = [move EXCEPT ![m].slot = e.slot]
                ELSE Finish(m)
  /\ UNCHANGED <<inst, cache, plan, leases, budget>>

(* No host to move an ephemeral workload to: it is stopped and deleted. *)
Evict(m) ==
  LET k == move[m].slot
      there == inst[k] # NoInst IN
  /\ pc[m] = "evict"
  /\ Finish(m)
  /\ \/ HostSets(k, NoInst) /\ UNCHANGED budget
     \/ there /\ Spend("host_error")
        /\ (UNCHANGED inst \/ HostSets(k, [inst[k] EXCEPT !.state = "stopped"]))
  /\ UNCHANGED <<cache, owner, leases>>

(* POST /api/instances/migrate *)
Request(m) ==
  /\ Kind[m] = "operator"
  /\ pc[m] = "idle"
  /\ \E h \in Hosts : \E k \in On(h) : \E t \in Hosts \ {h} :
       move' = [move EXCEPT ![m] = [@ EXCEPT !.slot = k, !.source = h, !.target = t]]
  /\ Goto(m, "survey")
  /\ UNCHANGED <<inst, cache, owner, leases, budget>>

(* wait_for cancels the action of a pass. *)
Timeout(m) ==
  /\ Kind[m] = "displacement"
  /\ pc[m] \in Migrating \union {"evict"}
  /\ Spend("timeout")
  /\ Finish(m)
  /\ UNCHANGED <<inst, cache, owner, leases>>

Crash ==
  /\ Spend("crash")
  /\ pc' = [m \in Movers |-> IF pc[m] \in {"idle", "held"} THEN pc[m] ELSE "done"]
  /\ plan' = [w \in Loads |-> NoAct]
  /\ rest' = {}
  /\ move' = [m \in Movers |-> NoMove]
  /\ UNCHANGED <<inst, cache, leases>>

--------------------------------------------------------------------------------
(* The passes over the displaced workloads: what one decides on what the    *)
(* cache shows, and what it then has a host do.                             *)

Managed(w) == {e \in UNION {cache[h] : h \in Hosts} : e.load = w /\ e.owned}

Plan(w, act) == plan' = [plan EXCEPT ![w] = act]

(* Slip: a stopped instance is not taken for broken. *)
DecideFewer(w) ==
  /\ plan[w] = NoAct
  /\ w \notin rest
  /\ \/ /\ Cardinality(Managed(w)) > 1
        /\ \E e \in Managed(w) : Plan(w, [NoAct EXCEPT !.type = "stop", !.slot = e.slot])
     \/ /\ Managed(w) = {}
        /\ \E h \in Fullest({g \in Fitting(1) : ~HasAlias(g, w)}) :
             Plan(w, [NoAct EXCEPT !.type = "create", !.host = h])
  /\ UNCHANGED <<inst, cache, rest, pc, move, leases, budget>>

Decide(w) ==
  LET broken == {e \in Managed(w) : e.state = "stopped"} IN
  /\ plan[w] = NoAct
  /\ w \notin rest
  /\ \/ /\ Cardinality(Managed(w)) > 1
        /\ \E e \in (IF broken # {} THEN broken ELSE Managed(w)) :
             Plan(w, [NoAct EXCEPT !.type = "stop", !.slot = e.slot])
     \/ /\ Cardinality(Managed(w)) = 1
        /\ \E e \in broken : Plan(w, [NoAct EXCEPT !.type = "recreate", !.slot = e.slot])
     \/ /\ Managed(w) = {}
        /\ \E h \in Fullest({g \in Fitting(1) : ~HasAlias(g, w)}) :
             Plan(w, [NoAct EXCEPT !.type = "create", !.host = h])
  /\ UNCHANGED <<inst, cache, rest, pc, move, leases, budget>>

(* Slip: no settle window. *)
ActedUnsettled(w) == Plan(w, NoAct) /\ UNCHANGED <<rest, cache, pc, move, leases>>

(* The next pass comes after the host's push: a tick later, or after the    *)
(* settle window or the backoff.                                            *)
Acted(w) ==
  /\ Plan(w, NoAct)
  /\ rest' = rest \union {w}
  /\ UNCHANGED <<cache, pc, move, leases>>

(* Stop and delete; a failed deletion is swallowed. *)
StopSurplus(w) ==
  LET k == plan[w].slot IN
  /\ plan[w].type = "stop"
  /\ Acted(w)
  /\ \/ HostSets(k, NoInst) /\ UNCHANGED budget
     \/ /\ inst[k] # NoInst
        /\ Spend("host_error")
        /\ UNCHANGED inst \/ HostSets(k, [inst[k] EXCEPT !.state = "stopped"])

(* Start in place; what does not start is deleted. *)
Restart(w) ==
  LET k == plan[w].slot
      starts == inst[k] # NoInst /\ (inst[k].state = "running" \/ Free(inst[k].host) > 0) IN
  /\ plan[w].type = "recreate"
  /\ Acted(w)
  /\ \/ starts /\ HostSets(k, [inst[k] EXCEPT !.state = "running"]) /\ UNCHANGED budget
     \/ ~starts /\ HostSets(k, NoInst) /\ UNCHANGED budget
     \/ starts /\ Spend("host_error") /\ (UNCHANGED inst \/ HostSets(k, NoInst))

(* Create and start. *)
Place(w) ==
  LET h == plan[w].host
      new(state) == [host |-> h, load |-> w, owned |-> TRUE, state |-> state] IN
  /\ plan[w].type = "create"
  /\ Acted(w)
  /\ \E k \in Slots :
       /\ Fresh(k)
       /\ \/ HostSets(k, new(IF Free(h) > 0 THEN "running" ELSE "stopped")) /\ UNCHANGED budget
          \/ /\ Free(h) > 0
             /\ Spend("host_error")
             /\ UNCHANGED inst \/ HostSets(k, new("stopped")) \/ HostSets(k, new("running"))

EndRest(w) ==
  /\ w \in rest
  /\ \A h \in Hosts :
       {e \in cache[h] : e.load = w} = {e \in Actual(h) : e.load = w}
  /\ rest' = rest \ {w}
  /\ UNCHANGED <<inst, cache, plan, pc, move, leases, budget>>

--------------------------------------------------------------------------------

Step(m) ==
  \/ Survey(m) \/ StopSource(m) \/ Disown(m) \/ Forget(m) \/ CreateTarget(m)
  \/ Scan(m) \/ HostReserves(m) \/ StoreReservation(m)
  \/ HostReleases(m) \/ DropReservation(m)
  \/ Evict(m)

Start(m) ==
  /\ {n \in Movers : pc[n] # "idle"} \union {m} \in Together
  /\ BeginReservation(m) \/ Displace(m) \/ Request(m)

Pass(w) == Decide(w) \/ StopSurplus(w) \/ Restart(w) \/ Place(w)

Next ==
  \/ \E m \in Movers : Start(m) \/ Step(m) \/ Release(m) \/ Expire(m) \/ Timeout(m)
  \/ \E w \in Loads : Pass(w) \/ EndRest(w)
  \/ \E h \in Hosts : Push(h)
  \/ Crash

Spec == Init /\ [][Next]_vars

(* The loop and the requests go on, windows end, and hosts push. *)
Fairness ==
  /\ \A m \in Movers : WF_vars(Step(m))
  /\ \A w \in Loads : WF_vars(Pass(w)) /\ WF_vars(EndRest(w))
  /\ \A h \in Hosts : WF_vars(Push(h))

FairSpec == Spec /\ Fairness

--------------------------------------------------------------------------------
(* Properties. *)

Copies(w) == {k \in Slots : inst[k] # NoInst /\ inst[k].load = w}
Owned(w) == {k \in Copies(w) : inst[k].owned}

(* A workload that is not production's gives way to a more important one    *)
(* only, whatever happened since the lists of instances were read.          *)
OnlyLower ==
  [][\A m \in Movers : \A k \in Slots :
       /\ pc[m] \in {"stop", "evict"} /\ pc'[m] # pc[m] /\ move[m].slot = k
       /\ inst[k] # inst'[k]
       => Kind[m] = "operator" \/ Lower(inst[k].load, Claim[m])]_vars

(* Undisturbed, a lease on a host is known to control, or is just being     *)
(* recorded: no reservation is forgotten while its host keeps it.           *)
LeaseKnown ==
  budget = MaxFaults =>
    \A m \in Movers : lease[m] # 0 => tracked[m] = lease[m] \/ pc[m] = "store"

(* Undisturbed, a workload is never served twice: the passes neither start  *)
(* a second replica beside one on the move, nor restart what was moved.     *)
NeverTwice ==
  budget = MaxFaults =>
    \A w \in Loads : Cardinality({k \in Owned(w) : inst[k].state = "running"}) <= 1

(* Every host is without room for w, or has a copy of w that was disowned:  *)
(* placement keeps off both.                                                *)
Blocked(w) ==
  \A h \in Hosts : Free(h) <= 0 \/ \E k \in Copies(w) : inst[k].host = h

(* Whatever fails a bounded number of times, a displaced workload is not    *)
(* lost: in the end its intent has exactly one instance and that runs,      *)
(* unless no host is left for it.                                           *)
Recovers ==
  <>[](\A w \in Loads :
         \/ \E k \in Owned(w) : Owned(w) = {k} /\ inst[k].state = "running"
         \/ Owned(w) = {} /\ Blocked(w))

(* A disowned source is never started again (a pass that took it for broken *)
(* before it was disowned does start it).                                   *)
SourceStaysDown ==
  [][\A k \in Slots :
       inst[k] # NoInst /\ ~inst[k].owned /\ inst[k].state = "stopped"
         => inst'[k] = NoInst \/ inst'[k].state = "stopped"]_vars
================================================================================
