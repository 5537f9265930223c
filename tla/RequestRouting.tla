----------------------------- MODULE RequestRouting -----------------------------
(***************************************************************************)
(* The gateway's way of routing one model's requests (app/gateway.py):     *)
(* pick an instance from the registry, count the request in Redis, forward *)
(* it, retry elsewhere when the instance fails, and take the counts back.  *)
(* Requests run on any control replica; the counters, the registry and the *)
(* health marks are in Redis.  All requests weigh the same, and weights are *)
(* counted in units of that weight.                                        *)
(***************************************************************************)
EXTENDS Integers, FiniteSets

CONSTANTS
  Requests,      \* requests that may arrive, each once
  Instances,     \* instances serving the model
  Hosts,
  HostOf,        \* HostOf[x]: the host of instance x
  MaxAttempts,   \* route_max_attempts
  LongRequests,  \* whether a forward may outlive the counters' TTL
  Faults,        \* what may go wrong, see FaultKinds
  MaxFaults,     \* how many of them happen (a bound)
  MaxMoves       \* how often instances change their status (a bound)

FaultKinds == {"crash", "redis_error"}

ASSUME RoutingAssumption ==
  /\ IsFiniteSet(Requests) /\ IsFiniteSet(Instances)
  /\ HostOf \in [Instances -> Hosts]
  /\ MaxAttempts \in Nat \ {0}
  /\ LongRequests \in BOOLEAN
  /\ Faults \subseteq FaultKinds
  /\ MaxFaults \in Nat
  /\ MaxMoves \in Nat
  /\ "none" \notin Instances

VARIABLES
  status,      \* status[x]: see Statuses
  moves,       \* changes of status still to come
  registered,  \* instances the gateway registry lists
  healthy,     \* instances is_healthy answers True for
  count,       \* count[k]: the Redis counter k, 0 when the key is absent
  ttl,         \* counters that have an expiry
  pc,          \* pc[r]: where request r stands
  at,          \* at[r]: the instance it was routed to
  stage,       \* stage[r]: which of that instance's counters is next
  tries,       \* tries[r]: the loop's attempt, attempted, retried_once
  reply,       \* reply[r]: how the attempt, or the request, came out
  held,        \* held[r]: counters it added to and has not taken back
  ghosts,      \* ghosts[k]: additions to k that nobody will take back
  steady,      \* steady[r]: instances up and registered ever since r began
  budget       \* faults that may still happen

vars == <<status, moves, registered, healthy, count, ttl, pc, at, stage,
          tries, reply, held, ghosts, steady, budget>>

world == <<status, moves, registered>>
redis == <<count, ttl, ghosts>>

(* "ailing" accepts connections, but answers a retryable status or too late; *)
(* "down" is cached as running but refuses connections; "gone" is no longer *)
(* cached.                                                                  *)
Statuses == {"up", "ailing", "down", "gone"}

Keys == ({"instance"} \X Instances) \union ({"host", "weight"} \X Hosts)

(* Slip: the host's counter under the instance's name. *)
KeyMixedUp(x, n) ==
  CASE n = 1 -> <<"instance", x>>
    [] n = 2 -> <<"host", x>>
    [] OTHER -> <<"weight", HostOf[x]>>

(* The counters of a request to x, in the order of _routing_context. *)
Key(x, n) ==
  CASE n = 1 -> <<"instance", x>>
    [] n = 2 -> <<"host", HostOf[x]>>
    [] OTHER -> <<"weight", HostOf[x]>>

Here(r) == Key(at[r], stage[r])

Places == {"idle", "find", "enter", "send", "stream", "leave", "clear", "done"}
(* "over" is any outcome but running out of instances: answered, refused by  *)
(* the instance, left by its client, or ended by an exception.              *)
Replies == {"none", "retry", "over", "unavailable"}

Tries == [attempt: 0..MaxAttempts, attempted: SUBSET Instances, retried: BOOLEAN]
NoTries == [attempt |-> 0, attempted |-> {}, retried |-> FALSE]

TypeOK ==
  /\ status \in [Instances -> Statuses]
  /\ moves \in 0..MaxMoves
  /\ registered \subseteq Instances
  /\ healthy \subseteq Instances
  /\ count \in [Keys -> Int]
  /\ ttl \subseteq Keys
  /\ pc \in [Requests -> Places]
  /\ at \in [Requests -> Instances \union {"none"}]
  /\ \A r \in Requests : pc[r] \notin {"idle", "find", "done"} => at[r] \in Instances
  /\ stage \in [Requests -> 1..3]
  /\ tries \in [Requests -> Tries]
  /\ reply \in [Requests -> Replies]
  /\ held \in [Requests -> SUBSET Keys]
  /\ ghosts \in [Keys -> Nat]
  /\ steady \in [Requests -> SUBSET Instances]
  /\ budget \in 0..MaxFaults

Init ==
  /\ status = [x \in Instances |-> "up"]
  /\ moves = MaxMoves
  /\ registered = Instances
  /\ healthy = {}
  /\ count = [k \in Keys |-> 0]
  /\ ttl = {}
  /\ pc = [r \in Requests |-> "idle"]
  /\ at = [r \in Requests |-> "none"]
  /\ stage = [r \in Requests |-> 1]
  /\ tries = [r \in Requests |-> NoTries]
  /\ reply = [r \in Requests |-> "none"]
  /\ held = [r \in Requests |-> {}]
  /\ ghosts = [k \in Keys |-> 0]
  /\ steady = [r \in Requests |-> {}]
  /\ budget = MaxFaults

--------------------------------------------------------------------------------
(* Picking an instance: _get_next_instance. *)

Goto(r, place) == pc' = [pc EXCEPT ![r] = place]

(* The request's task is over: only how it came out is left of it. *)
Ends(r, how) ==
  /\ Goto(r, "done")
  /\ reply' = [reply EXCEPT ![r] = how]
  /\ at' = [at EXCEPT ![r] = "none"]
  /\ stage' = [stage EXCEPT ![r] = 1]
  /\ tries' = [tries EXCEPT ![r] = NoTries]
  /\ held' = [held EXCEPT ![r] = {}]

Spend(kind) == kind \in Faults /\ budget > 0 /\ budget' = budget - 1

Up(registry, at_status) == {x \in registry : at_status[x] = "up"}
Cached == {x \in Instances : status[x] # "gone"}

Least(S, load) == {e \in S : \A f \in S : load[e] <= load[f]}

HostCount(h) == count[<<"host", h>>]
HostWeight == [h \in Hosts |-> count[<<"weight", h>>]]
InstanceCount == [x \in Instances |-> count[<<"instance", x>>]]

(* Healthy instances before others, a host without requests before the      *)
(* host with the least weight, then the instance with the fewest requests.  *)
Best(S) ==
  LET candidates == IF S \intersect healthy # {} THEN S \intersect healthy ELSE S
      hosts == {HostOf[x] : x \in candidates}
      free == {h \in hosts : HostCount(h) = 0}
      best == IF free # {} THEN free ELSE Least(hosts, HostWeight) IN
  UNION {Least({x \in candidates : HostOf[x] = h}, InstanceCount) : h \in best}

Arrive(r) ==
  /\ pc[r] = "idle"
  /\ Goto(r, "find")
  /\ steady' = [steady EXCEPT ![r] = Up(registered, status)]
  /\ UNCHANGED <<world, healthy, redis, at, stage, tries, reply, held, budget>>

(* Slip: an instance that failed may be picked again. *)
RouteForgetful(r) ==
  /\ pc[r] = "find"
  /\ tries[r].attempt < MaxAttempts
  /\ \E x \in Best(registered) :
       /\ at' = [at EXCEPT ![r] = x]
       /\ tries' = [tries EXCEPT ![r].attempt = @ + 1]
  /\ stage' = [stage EXCEPT ![r] = 1]
  /\ Goto(r, "enter")
  /\ UNCHANGED <<world, healthy, redis, reply, held, steady, budget>>

Route(r) ==
  /\ pc[r] = "find"
  /\ tries[r].attempt < MaxAttempts
  /\ \E x \in Best(registered \ tries[r].attempted) :
       /\ at' = [at EXCEPT ![r] = x]
       /\ tries' = [tries EXCEPT ![r].attempt = @ + 1, ![r].attempted = @ \union {x}]
  /\ stage' = [stage EXCEPT ![r] = 1]
  /\ Goto(r, "enter")
  /\ UNCHANGED <<world, healthy, redis, reply, held, steady, budget>>

(* A registry of instances steadies no request that lost one of them. *)
Sees(registry, new) ==
  steady' = [r \in Requests |-> steady[r] \intersect Up(registry, new)]

(* Nothing is left to try: refresh the registry once and start over.  A     *)
(* refresh that raises leaves the registry as it was.                       *)
RetryOnce(r) ==
  /\ pc[r] = "find"
  /\ tries[r].attempt < MaxAttempts
  /\ registered \subseteq tries[r].attempted
  /\ ~tries[r].retried
  /\ tries' = [tries EXCEPT ![r].attempted = {}, ![r].retried = TRUE]
  /\ registered' \in {registered, Cached}
  /\ Sees(registered', status)
  /\ UNCHANGED <<status, moves, healthy, redis, pc, at, stage, reply, held, budget>>

GiveUp(r) ==
  /\ pc[r] = "find"
  /\ \/ tries[r].attempt = MaxAttempts
     \/ registered \subseteq tries[r].attempted /\ tries[r].retried
  /\ Ends(r, "unavailable")
  /\ UNCHANGED <<world, healthy, redis, steady, budget>>

--------------------------------------------------------------------------------
(* The counters: _routing_context and RoutingStore. *)

(* Slip: INCR without EXPIRE. *)
IncrementForever(r) ==
  /\ count' = [count EXCEPT ![Here(r)] = @ + 1]
  /\ UNCHANGED ttl

(* INCR and EXPIRE in one MULTI. *)
Increment(r) ==
  /\ count' = [count EXCEPT ![Here(r)] = @ + 1]
  /\ ttl' = ttl \union {Here(r)}

Enter(r) ==
  /\ pc[r] = "enter"
  /\ Increment(r)
  /\ held' = [held EXCEPT ![r] = @ \union {Here(r)}]
  /\ IF stage[r] = 3
     THEN Goto(r, "send") /\ UNCHANGED stage
     ELSE stage' = [stage EXCEPT ![r] = @ + 1] /\ UNCHANGED pc
  /\ UNCHANGED <<world, healthy, at, tries, reply, ghosts, steady, budget>>

Abandon(keys) == ghosts' = [k \in Keys |-> ghosts[k] + IF k \in keys THEN 1 ELSE 0]

(* The additions come before the try block: an error in one of them leaves  *)
(* the earlier ones, and perhaps its own, behind.                           *)
EnterFails(r) ==
  /\ pc[r] = "enter"
  /\ Spend("redis_error")
  /\ \/ Increment(r) /\ Abandon(held[r] \union {Here(r)})
     \/ Abandon(held[r]) /\ UNCHANGED <<count, ttl>>
  /\ Ends(r, "over")
  /\ UNCHANGED <<world, healthy, steady>>

TakenBack(r) == held' = [held EXCEPT ![r] = @ \ {Here(r)}]

(* On to the next attempt, or out of the loop. *)
AfterAttempt(r) ==
  /\ stage' = [stage EXCEPT ![r] = 1]
  /\ at' = [at EXCEPT ![r] = "none"]
  /\ IF reply[r] = "retry"
     THEN Goto(r, "find") /\ UNCHANGED tries
     ELSE Goto(r, "done") /\ tries' = [tries EXCEPT ![r] = NoTries]

(* Slip: the finally clause forgets the weight. *)
NextOfTwo(r) ==
  \/ /\ stage[r] = 1
     /\ stage' = [stage EXCEPT ![r] = 2]
     /\ Goto(r, "leave")
     /\ UNCHANGED <<at, tries>>
  \/ stage[r] # 1 /\ AfterAttempt(r)

(* On to the next counter to take back. *)
NextCounter(r) ==
  \/ /\ stage[r] < 3
     /\ stage' = [stage EXCEPT ![r] = @ + 1]
     /\ Goto(r, "leave")
     /\ UNCHANGED <<at, tries>>
  \/ stage[r] = 3 /\ AfterAttempt(r)

(* Slip: the DELETE only when the result is zero. *)
LeaveIfZero(r) ==
  /\ pc[r] = "leave"
  /\ count' = [count EXCEPT ![Here(r)] = @ - 1]
  /\ TakenBack(r)
  /\ IF count[Here(r)] = 1
     THEN Goto(r, "clear") /\ UNCHANGED <<at, stage, tries>>
     ELSE NextCounter(r)
  /\ UNCHANGED <<world, healthy, ttl, reply, ghosts, steady, budget>>

(* DECR, and in a second round trip DELETE when the result is not positive. *)
Leave(r) ==
  /\ pc[r] = "leave"
  /\ count' = [count EXCEPT ![Here(r)] = @ - 1]
  /\ TakenBack(r)
  /\ IF count[Here(r)] <= 1
     THEN Goto(r, "clear") /\ UNCHANGED <<at, stage, tries>>
     ELSE NextCounter(r)
  /\ UNCHANGED <<world, healthy, ttl, reply, ghosts, steady, budget>>

Delete(k) ==
  /\ count' = [count EXCEPT ![k] = 0]
  /\ ttl' = ttl \ {k}
  /\ ghosts' = [ghosts EXCEPT ![k] = 0]

Clear(r) ==
  /\ pc[r] = "clear"
  /\ Delete(Here(r))
  /\ NextCounter(r)
  /\ UNCHANGED <<world, healthy, reply, held, steady, budget>>

(* An error in taking a count back is swallowed, whether Redis did it or not. *)
LeaveFails(r) ==
  /\ pc[r] \in {"leave", "clear"}
  /\ Spend("redis_error")
  /\ \/ Abandon(held[r] \intersect {Here(r)}) /\ UNCHANGED count
     \/ /\ pc[r] = "leave"
        /\ count' = [count EXCEPT ![Here(r)] = @ - 1]
        /\ UNCHANGED ghosts
  /\ TakenBack(r)
  /\ NextCounter(r)
  /\ UNCHANGED <<world, healthy, ttl, reply, steady>>

--------------------------------------------------------------------------------
(* Forwarding the request: route_request and stream_request. *)

Returns(r, how) == Goto(r, "leave") /\ reply' = [reply EXCEPT ![r] = how]

Attempt == <<world, redis, at, tries, held, steady, budget>>

(* Status 200: mark_healthy; a stream then yields its lines. *)
Answer(r) ==
  /\ pc[r] = "send"
  /\ status[at[r]] = "up"
  /\ healthy' = healthy \union {at[r]}
  /\ Returns(r, "over") \/ (Goto(r, "stream") /\ UNCHANGED reply)
  /\ stage' = [stage EXCEPT ![r] = 1]
  /\ UNCHANGED Attempt

(* An exception ends the request: a status that is neither 200 nor           *)
(* retryable, or an error of the gateway's own.                             *)
Reject(r) ==
  /\ pc[r] = "send"
  /\ Returns(r, "over")
  /\ stage' = [stage EXCEPT ![r] = 1]
  /\ UNCHANGED <<Attempt, healthy>>

(* A retryable status, a refused connection, no answer in time, or a stream *)
(* that breaks off.                                                         *)
Reroute(r) ==
  /\ pc[r] \in {"send", "stream"}
  /\ status[at[r]] # "up"
  /\ healthy' = healthy \ {at[r]}
  /\ Returns(r, "retry")
  /\ stage' = [stage EXCEPT ![r] = 1]
  /\ UNCHANGED Attempt

(* The stream ends, or its client goes away (GeneratorExit). *)
StreamEnds(r) ==
  /\ pc[r] = "stream"
  /\ Returns(r, "over")
  /\ stage' = [stage EXCEPT ![r] = 1]
  /\ UNCHANGED <<Attempt, healthy>>

Step(r) ==
  \/ Arrive(r)
  \/ Route(r)
  \/ RetryOnce(r)
  \/ GiveUp(r)
  \/ Enter(r)
  \/ Leave(r)
  \/ Clear(r)
  \/ Answer(r)
  \/ Reject(r)
  \/ Reroute(r)
  \/ StreamEnds(r)

--------------------------------------------------------------------------------
(* Around the requests. *)

(* The replica that handles r dies, and no finally clause runs; or r's task  *)
(* is cancelled with its client, and cancelled again in the finally clause, *)
(* which swallows Exception only.                                           *)
Crash(r) ==
  /\ pc[r] \notin {"idle", "done"}
  /\ Spend("crash")
  /\ Abandon(held[r])
  /\ Ends(r, "over")
  /\ UNCHANGED <<world, healthy, count, ttl, steady>>

(* Nobody added to k for ACTIVE_TTL_S: a forward may take longer than that. *)
Expire(k) ==
  /\ k \in ttl
  /\ \A r \in Requests : k \in held[r] => LongRequests /\ pc[r] # "enter"
  /\ Delete(k)
  /\ UNCHANGED <<world, healthy, pc, at, stage, tries, reply, held, steady, budget>>

(* The probe loop opens a TCP connection to every registered instance. *)
Probe(x) ==
  /\ x \in registered \ healthy
  /\ status[x] \in {"up", "ailing"}
  /\ healthy' = healthy \union {x}
  /\ UNCHANGED <<world, redis, pc, at, stage, tries, reply, held, steady, budget>>

(* A mark is older than health_ttl_s: the probes, which come more often, no  *)
(* longer renew it.                                                         *)
Stale(x) ==
  /\ x \in healthy
  /\ x \notin registered \/ status[x] \in {"down", "gone"}
  /\ healthy' = healthy \ {x}
  /\ UNCHANGED <<world, redis, pc, at, stage, tries, reply, held, steady, budget>>

Move(x, new) ==
  /\ moves > 0
  /\ status[x] # new
  /\ moves' = moves - 1
  /\ status' = [status EXCEPT ![x] = new]
  /\ Sees(registered, status')
  /\ UNCHANGED <<registered, healthy, redis, pc, at, stage, tries, reply, held, budget>>

(* refresh_model_registry, from its loop or after a push. *)
Refresh ==
  /\ registered # Cached
  /\ registered' = Cached
  /\ Sees(registered', status)
  /\ UNCHANGED <<status, moves, healthy, redis, pc, at, stage, tries, reply, held, budget>>

Done == (\A r \in Requests : pc[r] = "done") /\ UNCHANGED vars

Next ==
  \/ \E r \in Requests : Step(r) \/ EnterFails(r) \/ LeaveFails(r) \/ Crash(r)
  \/ \E k \in Keys : Expire(k)
  \/ \E x \in Instances : Probe(x) \/ Stale(x) \/ \E new \in Statuses : Move(x, new)
  \/ Refresh
  \/ Done

Spec == Init /\ [][Next]_vars

(* A request's coroutine goes on (route_total_timeout_s bounds a forward),  *)
(* and Redis expires keys.                                                  *)
Fairness ==
  /\ \A r \in Requests : WF_vars(Step(r))
  /\ \A k \in Keys : WF_vars(Expire(k))

FairSpec == Spec /\ Fairness

--------------------------------------------------------------------------------
(* Properties. *)

Working(r) == pc[r] \in {"enter", "send", "stream", "leave", "clear"}
Holders(k) == {r \in Requests : Working(r) /\ k \in held[r]}

(* No counter shows more than the requests that added to it and are still   *)
(* at work, and the additions that a crash or a Redis error left behind:    *)
(* every way out of an attempt takes all three counts back.                 *)
NeverOvercounts ==
  \A k \in Keys : count[k] <= Cardinality(Holders(k)) + ghosts[k]

Quiet(k) ==
  /\ Holders(k) = {}
  /\ \A r \in Requests : pc[r] = "clear" => Here(r) # k

(* While nothing has failed, a counter nobody uses reads zero, so that its  *)
(* host is free for _get_next_instance: lost increments (a DELETE after     *)
(* another request's INCR) and expiries under a request leave no residue.   *)
DrainedIsZero ==
  budget = MaxFaults => \A k \in Keys : Quiet(k) => count[k] = 0

(* The gateway gives up on a request only if no instance was up and in the  *)
(* registry all the time, given an attempt for each instance.               *)
NoSpuriousFailure ==
  Cardinality(Instances) <= MaxAttempts =>
    \A r \in Requests : reply[r] = "unavailable" => steady[r] = {}

(* What crashed replicas left in the counters goes away with the TTL, once  *)
(* the traffic that renews it stops.                                        *)
GhostsExpire == <>[](\A k \in Keys : count[k] <= 0)

(* "auto-cleanup if a replica crashes mid-request" (routing.py): no counter  *)
(* of a crashed request survives the TTL.                                   *)
CountersCleanedUp == <>[](\A k \in Keys : count[k] = 0)
================================================================================
