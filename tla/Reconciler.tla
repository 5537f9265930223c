------------------------------- MODULE Reconciler -------------------------------
(***************************************************************************)
(* The intent reconciliation loop (app/services/reconciliation.py) run by  *)
(* every control replica, over the intent table, the per-intent Redis      *)
(* lock, the Redis cache of host instances that hosts push, and the hosts  *)
(* themselves.  A pass is cut wherever the code awaits something another   *)
(* actor can change in between.                                            *)
(***************************************************************************)
EXTENDS IntentStore

CONSTANTS
  Controls,   \* control replicas, each running the loop
  Hosts,      \* solar-hosts
  Slots,      \* instance identifiers that may be in use at once (a bound)
  PushDelay,  \* how late an instances_update may land, see PushDelays
  Faults,     \* what may go wrong, see FaultKinds
  MaxFaults   \* how many crashes, host errors and failures happen (a bound)

(* "none": before anything else happens; "settle": before the settle window *)
(* or the backoff ends; "any": at any later time.                           *)
PushDelays == {"none", "settle", "any"}

FaultKinds == {"lock_expiry", "crash", "host_error", "pass_error",
               "instance_failure", "capacity"}

ASSUME ReconcilerAssumption ==
  /\ Controls \subseteq Clients
  /\ PushDelay \in PushDelays
  /\ Faults \subseteq FaultKinds
  /\ MaxFaults \in Nat
  /\ IsFiniteSet(Slots)
  /\ "none" \notin Slots \union Hosts

VARIABLES
  lock,      \* intents whose Redis lock key exists; its value names no owner
  pc,        \* pc[c]: where control replica c stands in its pass
  job,       \* job[c]: the local variables of that pass
  backoff,   \* <<c, i>>: c's in-memory backoff for i is running
  settle,    \* <<c, i>>: c's in-memory settle window for i is open
  inst,      \* inst[k]: the instance as its host holds it
  cache,     \* cache[k]: the instance as the Redis cache shows it
  disowned,  \* the Redis set solar:disowned
  budget     \* faults that may still happen

hostVars == <<inst, cache>>
memory == <<backoff, settle>>
vars == <<rows, txn, lock, pc, job, backoff, settle, inst, cache, disowned, budget>>

Inst == [host: Hosts, alias: Aliases, owner: Intents \union {"none"},
         state: {"stopped", "starting", "running", "failed"}]
NoInst == [state |-> "absent"]
View == [Slots -> Inst \union {NoInst}]

Act == [type: {"none", "stop", "disown", "create", "recreate"},
        slot: Slots \union {"none"}, host: Hosts \union {"none"}]
(* Slip: host and instance swapped. *)
SwappedAction(type, slot, host) == [type |-> type, slot |-> host, host |-> slot]
Action(type, slot, host) == [type |-> type, slot |-> slot, host |-> host]
NoAct == Action("none", "none", "none")

NoView == [k \in Slots |-> NoInst]
NoSnap == [i \in Intents |-> NoRow]

Job == [todo: SUBSET Intents, snap: [Intents -> Row \union {NoRow}],
        intent: Intents \union {"none"}, refresh: BOOLEAN,
        seen: SUBSET Slots, ready: SUBSET Slots, act: Act, view: View]

NoJob == [todo |-> {}, snap |-> NoSnap, intent |-> "none", refresh |-> FALSE,
          seen |-> {}, ready |-> {}, act |-> NoAct, view |-> NoView]

Places == {"idle", "choose", "enter", "observe", "act", "start", "delete",
           "disown", "tombstone", "reobserve", "status", "commit", "unlock"}

TypeOK ==
  /\ StoreTypeOK
  /\ lock \subseteq Intents
  /\ pc \in [Controls -> Places]
  /\ job \in [Controls -> Job]
  /\ backoff \subseteq Controls \X Intents
  /\ settle \subseteq Controls \X Intents
  /\ inst \in View
  /\ cache \in View
  /\ disowned \subseteq Slots
  /\ budget \in 0..MaxFaults

Init ==
  /\ StoreInit
  /\ lock = {}
  /\ pc = [c \in Controls |-> "idle"]
  /\ job = [c \in Controls |-> NoJob]
  /\ backoff = {}
  /\ settle = {}
  /\ inst = NoView
  /\ cache = NoView
  /\ disowned = {}
  /\ budget = MaxFaults

--------------------------------------------------------------------------------
(* Helpers. *)

Goto(c, place) == pc' = [pc EXCEPT ![c] = place]

InSection(c) == pc[c] \notin {"idle", "choose"}

Spend(kind) == kind \in Faults /\ budget > 0 /\ budget' = budget - 1

(* What the hosts' pushes make of the cache in the step that changes inst. *)
HostSets(new) ==
  /\ inst' = new
  /\ cache' = IF PushDelay = "none"
              THEN [k \in Slots |-> IF new[k] # inst[k] THEN new[k] ELSE cache[k]]
              ELSE cache

(* An identifier no instance, cache entry, tombstone or pass refers to. *)
Free(k) ==
  /\ inst[k] = NoInst
  /\ cache[k] = NoInst
  /\ k \notin disowned
  /\ \A c \in Controls :
       k \notin job[c].seen /\ job[c].act.slot # k /\ job[c].view[k] = NoInst

(* The instances of intent i are in the cache exactly when on their host. *)
Landed(i) ==
  \A k \in Slots :
    (inst[k] # NoInst /\ inst[k].owner = i) \/ (cache[k] # NoInst /\ cache[k].owner = i)
      => (inst[k] = NoInst <=> cache[k] = NoInst)

(* Slips: the tombstones are not consulted; stopped instances do not count. *)
ManagedWithDisowned(i, alias) ==
  {k \in Slots : cache[k] # NoInst /\ cache[k].owner = i /\ cache[k].alias = alias}
ManagedRunningOnly(i, alias) ==
  {k \in Slots \ disowned :
     cache[k].state = "running" /\ cache[k].owner = i /\ cache[k].alias = alias}

Managed(i, alias) ==
  {k \in Slots \ disowned :
     cache[k] # NoInst /\ cache[k].owner = i /\ cache[k].alias = alias}

Running(S) == {k \in S : cache[k].state = "running"}
(* Slip: a stopped replica is not drift. *)
FailedOnly(S) == {k \in S : cache[k].state = "failed"}
Broken(S) == {k \in S : cache[k].state \in {"stopped", "failed"}}

(* find_candidates: the fit hosts without a cached instance of the alias. *)
Candidates(alias, fit) ==
  {h \in fit : \A k \in Slots :
     cache[k] # NoInst /\ cache[k].host = h => cache[k].alias # alias}

Stops(S) == {Action("stop", k, cache[k].host) : k \in S}

(* The actions that may come first in _diff's list, sorted by priority:     *)
(* stops, then recreations, then creations.                                 *)
Diff(row, S, fit) ==
  IF row.phase = "deleting" THEN
    IF row.orphan THEN {Action("disown", k, cache[k].host) : k \in S} ELSE Stops(S)
  ELSE IF row.replicas = 0 THEN Stops(S)
  ELSE IF Cardinality(S) > row.replicas THEN
    IF Broken(S) # {} THEN Stops(Broken(S)) ELSE Stops(S)
  ELSE IF Broken(S) # {} THEN {Action("recreate", k, cache[k].host) : k \in Broken(S)}
  ELSE IF Cardinality(S) < row.replicas THEN
    {Action("create", "none", h) : h \in Candidates(row.alias, fit)}
  ELSE {}

(* Slip: a deletion is confirmed by the ready count. *)
NextPhaseByReady(row, seen, ready) ==
  IF row.phase = "deleting" THEN IF ready = 0 THEN "deleted" ELSE "deleting"
  ELSE IF ready = row.replicas THEN "ready" ELSE "reconciling"

(* The phase _update_status derives from the pass's own copy of the row. *)
NextPhase(row, seen, ready) ==
  IF row.phase = "deleting" THEN IF seen = {} THEN "deleted" ELSE "deleting"
  ELSE IF ready = row.replicas /\ (row.replicas = 0 => seen = {}) THEN "ready"
  ELSE IF ready > 0 THEN "degraded"
  ELSE IF seen # {} THEN "failed" ELSE "reconciling"

--------------------------------------------------------------------------------
(* One pass of the loop. *)

ListIntents(c) ==
  /\ pc[c] = "idle"
  /\ LET active == {i \in Intents : Active(i)} IN
       /\ job' = [job EXCEPT ![c] = [NoJob EXCEPT !.todo = active,
            !.snap = [i \in Intents |-> IF i \in active THEN rows[i] ELSE NoRow]]]
       /\ Goto(c, IF active = {} THEN "idle" ELSE "choose")
  /\ UNCHANGED <<rows, txn, lock, backoff, settle, inst, cache, disowned, budget>>

After(todo) == IF todo = {} THEN "idle" ELSE "choose"

(* What is left of c's pass once it is done with intent i. *)
Rest(c, i) == [NoJob EXCEPT !.todo = job[c].todo \ {i},
                            !.snap = [job[c].snap EXCEPT ![i] = NoRow]]

(* Slip: SET without NX. *)
TryLockAlways(c, i) ==
  /\ pc[c] = "choose"
  /\ i \in job[c].todo
  /\ lock' = lock \union {i}
  /\ job' = [job EXCEPT ![c] = [job[c] EXCEPT !.todo = @ \ {i}, !.intent = i]]
  /\ Goto(c, "enter")
  /\ UNCHANGED <<rows, txn, backoff, settle, inst, cache, disowned, budget>>

TryLock(c, i) ==
  /\ pc[c] = "choose"
  /\ i \in job[c].todo
  /\ IF i \in lock
     THEN /\ job' = [job EXCEPT ![c] = Rest(c, i)]
          /\ Goto(c, After(job[c].todo \ {i}))
          /\ UNCHANGED lock
     ELSE /\ lock' = lock \union {i}
          /\ job' = [job EXCEPT ![c] = [job[c] EXCEPT !.todo = @ \ {i}, !.intent = i]]
          /\ Goto(c, "enter")
  /\ UNCHANGED <<rows, txn, backoff, settle, inst, cache, disowned, budget>>

(* The backoff and settle-window checks that open _reconcile_one. *)
Enter(c) ==
  /\ pc[c] = "enter"
  /\ LET i == job[c].intent
         settling == <<c, i>> \in settle
         deleting == Active(i) /\ rows[i].phase = "deleting" IN
       IF <<c, i>> \in backoff \/ (settling /\ ~Active(i))
       THEN Goto(c, "unlock") /\ UNCHANGED job
       ELSE /\ Goto(c, "observe")
            /\ job' = [job EXCEPT ![c] = [job[c] EXCEPT
                 !.refresh = settling /\ ~deleting,
                 !.snap[i] = IF settling /\ deleting THEN rows[i] ELSE @]]
  /\ UNCHANGED <<rows, txn, lock, backoff, settle, inst, cache, disowned, budget>>

FitChoices == IF "capacity" \in Faults THEN SUBSET Hosts ELSE {Hosts}

(* _observe, with its pruning of tombstones, then _diff. *)
Observe(c) ==
  /\ pc[c] = "observe"
  /\ \E fit \in FitChoices :
       LET i == job[c].intent
           row == job[c].snap[i]
           S == Managed(i, row.alias)
           acts == IF job[c].refresh THEN {} ELSE Diff(row, S, fit)
           looked == [job[c] EXCEPT !.seen = S, !.ready = Running(S)] IN
       \/ /\ acts = {}
          /\ job' = [job EXCEPT ![c] = looked]
          /\ Goto(c, "status")
       \/ \E a \in acts :
            /\ job' = [job EXCEPT ![c] = [looked EXCEPT !.act = a]]
            /\ Goto(c, "act")
  /\ disowned' = {k \in disowned : cache[k] # NoInst}
  /\ UNCHANGED <<rows, txn, lock, backoff, settle, inst, cache, budget>>

(* The action raised, or ran into _ACTION_TIMEOUT_S: record the backoff. *)
Fails(c) ==
  /\ Goto(c, "status")
  /\ backoff' = backoff \union {<<c, job[c].intent>>}
  /\ UNCHANGED <<rows, txn, lock, settle, job, disowned>>

Succeeds(c) ==
  /\ Goto(c, "status")
  /\ backoff' = backoff \ {<<c, job[c].intent>>}
  /\ UNCHANGED <<rows, txn, lock, settle, job>>

Proceeds(c, place) ==
  /\ Goto(c, place)
  /\ UNCHANGED <<rows, txn, lock, backoff, settle, job, disowned>>

(* POST /instances/{id}/stop: an unknown instance is a 404, hence an error. *)
StopInstance(c) ==
  LET k == job[c].act.slot
      stopped == [inst EXCEPT ![k].state = "stopped"] IN
  /\ pc[c] = "act"
  /\ job[c].act.type = "stop"
  /\ \/ /\ inst[k] # NoInst
        /\ HostSets(stopped)
        /\ Proceeds(c, "delete")
        /\ UNCHANGED budget
     \/ /\ inst[k] = NoInst
        /\ Fails(c)
        /\ UNCHANGED <<inst, cache, budget>>
     \/ /\ inst[k] # NoInst
        /\ Spend("host_error")
        /\ \/ HostSets(stopped)
           \/ UNCHANGED hostVars
        /\ Fails(c)

(* DELETE /instances/{id}: a failure is swallowed.  After a failed restart  *)
(* the action still raises, to pace the retries.                            *)
DeleteInstance(c) ==
  LET k == job[c].act.slot IN
  /\ pc[c] = "delete"
  /\ \/ HostSets([inst EXCEPT ![k] = NoInst]) /\ UNCHANGED budget
     \/ inst[k] # NoInst /\ Spend("host_error") /\ UNCHANGED hostVars
  /\ \/ job[c].act.type = "stop" /\ Succeeds(c) /\ UNCHANGED disowned
     \/ job[c].act.type = "recreate" /\ Fails(c)

(* POST /instances: the host creates the instance stopped. *)
CreateInstance(c) ==
  LET i == job[c].intent
      new == [host |-> job[c].act.host, alias |-> job[c].snap[i].alias,
              owner |-> i, state |-> "stopped"] IN
  /\ pc[c] = "act"
  /\ job[c].act.type = "create"
  /\ \/ \E k \in {s \in Slots : Free(s)} :
          /\ HostSets([inst EXCEPT ![k] = new])
          /\ \/ /\ job' = [job EXCEPT ![c] = [job[c] EXCEPT !.act.slot = k]]
                /\ Goto(c, "start")
                /\ UNCHANGED <<rows, txn, lock, backoff, settle, disowned, budget>>
             \/ Spend("host_error") /\ Fails(c)
     \/ /\ \A k \in Slots : ~Free(k)
        /\ Fails(c)
        /\ UNCHANGED <<inst, cache, budget>>
     \/ /\ Spend("host_error")
        /\ Fails(c)
        /\ UNCHANGED hostVars

Started(k) ==
  [inst EXCEPT ![k].state = IF @ \in {"stopped", "failed"} THEN "starting" ELSE @]

(* POST /instances/{id}/start, after a creation or to restart a broken one. *)
StartInstance(c) ==
  LET k == job[c].act.slot
      restart == job[c].act.type = "recreate" IN
  /\ pc[c] = "start" \/ (pc[c] = "act" /\ restart)
  /\ \/ /\ inst[k] # NoInst
        /\ HostSets(Started(k))
        /\ IF restart THEN Succeeds(c) /\ UNCHANGED disowned ELSE Proceeds(c, "reobserve")
        /\ UNCHANGED budget
     \/ /\ \/ inst[k] = NoInst /\ UNCHANGED <<inst, cache, budget>>
           \/ inst[k] # NoInst /\ Spend("host_error") /\ UNCHANGED hostVars
           \/ inst[k] # NoInst /\ Spend("host_error") /\ HostSets(Started(k))
        /\ IF restart THEN Proceeds(c, "delete") ELSE Fails(c)

(* Slip: no settle window. *)
ReobserveUnsettled(c) ==
  /\ pc[c] = "reobserve"
  /\ LET S == Managed(job[c].intent, job[c].snap[job[c].intent].alias) IN
       job' = [job EXCEPT ![c] = [job[c] EXCEPT !.seen = S, !.ready = Running(S)]]
  /\ backoff' = backoff \ {<<c, job[c].intent>>}
  /\ Goto(c, "status")
  /\ UNCHANGED <<rows, txn, lock, settle, inst, cache, disowned, budget>>

(* After a creation: observe again and open the settle window. *)
Reobserve(c) ==
  /\ pc[c] = "reobserve"
  /\ LET i == job[c].intent
         S == Managed(i, job[c].snap[i].alias) IN
       /\ job' = [job EXCEPT ![c] = [job[c] EXCEPT !.seen = S, !.ready = Running(S)]]
       /\ settle' = settle \union {<<c, i>>}
       /\ backoff' = backoff \ {<<c, i>>}
  /\ disowned' = {k \in disowned : cache[k] # NoInst}
  /\ Goto(c, "status")
  /\ UNCHANGED <<rows, txn, lock, inst, cache, budget>>

(* DISOWN reads the host's cached list, writes it back without the markers, *)
(* and records the tombstone: three Redis round trips.                      *)
ReadForDisown(c) ==
  LET a == job[c].act
      known == cache[a.slot] # NoInst /\ cache[a.slot].host = a.host IN
  /\ pc[c] = "act"
  /\ a.type = "disown"
  /\ \/ /\ known
        /\ job' = [job EXCEPT ![c] = [job[c] EXCEPT !.view = [k \in Slots |->
             IF cache[k] # NoInst /\ cache[k].host = a.host THEN cache[k] ELSE NoInst]]]
        /\ Goto(c, "disown")
        /\ UNCHANGED <<rows, txn, lock, backoff, settle, disowned>>
     \/ ~known /\ Succeeds(c) /\ UNCHANGED disowned
  /\ UNCHANGED <<inst, cache, budget>>

WriteDisown(c) ==
  LET a == job[c].act IN
  /\ pc[c] = "disown"
  /\ cache' = [k \in Slots |->
       IF k = a.slot THEN [job[c].view[k] EXCEPT !.owner = "none"]
       ELSE IF job[c].view[k] # NoInst \/ (cache[k] # NoInst /\ cache[k].host = a.host)
            THEN job[c].view[k] ELSE cache[k]]
  /\ Proceeds(c, "tombstone")
  /\ UNCHANGED <<inst, budget>>

Tombstone(c) ==
  /\ pc[c] = "tombstone"
  /\ \/ disowned' = disowned \union {job[c].act.slot} /\ UNCHANGED budget
     \/ Spend("host_error") /\ UNCHANGED disowned
  /\ Succeeds(c)
  /\ UNCHANGED <<inst, cache>>

(* _ACTION_TIMEOUT_S cancels the action between two of its requests, or the  *)
(* observation that follows a creation raises.                              *)
ActionTimeout(c) ==
  /\ pc[c] \in {"start", "delete", "disown", "tombstone", "reobserve"}
  /\ Spend("host_error")
  /\ Fails(c)
  /\ UNCHANGED hostVars

(* _update_status: read the row, then write the phase computed from what    *)
(* this pass observed and from its own copy of the row.                     *)
ReadRow(c) ==
  /\ pc[c] = "status"
  /\ LET i == job[c].intent
         row == job[c].snap[i] IN
       \/ /\ ReadForStatus(c, i, NextPhase(row, job[c].seen, Cardinality(job[c].ready)))
          /\ Goto(c, "commit")
       \/ /\ ~Active(i)
          /\ Goto(c, "unlock")
          /\ UNCHANGED <<rows, txn>>
  /\ UNCHANGED <<lock, job, backoff, settle, inst, cache, disowned, budget>>

CommitStatus(c) ==
  /\ pc[c] = "commit"
  /\ WriteStatus(c)
  /\ Goto(c, "unlock")
  /\ UNCHANGED <<lock, job, backoff, settle, inst, cache, disowned, budget>>

(* The finally clause: delete the key, whoever set it. *)
Unlock(c) ==
  /\ pc[c] = "unlock"
  /\ lock' = lock \ {job[c].intent}
  /\ job' = [job EXCEPT ![c] = Rest(c, job[c].intent)]
  /\ Goto(c, After(job[c].todo \ {job[c].intent}))
  /\ UNCHANGED <<rows, txn, backoff, settle, inst, cache, disowned, budget>>

(* An exception of the database or of Redis ends _reconcile_one. *)
PassFails(c) ==
  /\ pc[c] \in {"enter", "observe", "status", "commit"}
  /\ Spend("pass_error")
  /\ Goto(c, "unlock")
  /\ Close(c)
  /\ UNCHANGED <<rows, lock, job, backoff, settle, inst, cache, disowned>>

Step(c) ==
  \/ ListIntents(c)
  \/ \E i \in Intents : TryLock(c, i)
  \/ Enter(c)
  \/ Observe(c)
  \/ StopInstance(c)
  \/ DeleteInstance(c)
  \/ CreateInstance(c)
  \/ StartInstance(c)
  \/ Reobserve(c)
  \/ ReadForDisown(c)
  \/ WriteDisown(c)
  \/ Tombstone(c)
  \/ ReadRow(c)
  \/ CommitStatus(c)
  \/ Unlock(c)

--------------------------------------------------------------------------------
(* Time, crashes, hosts and API requests. *)

(* Slip: SET without EX. *)
NeverExpires(i) == i \in lock /\ FALSE /\ UNCHANGED vars

(* The key's 30 s run out: while its holder works only with "lock_expiry". *)
ExpireLock(i) ==
  /\ i \in lock
  /\ "lock_expiry" \in Faults \/ \A c \in Controls : InSection(c) => job[c].intent # i
  /\ lock' = lock \ {i}
  /\ UNCHANGED <<rows, txn, pc, job, backoff, settle, inst, cache, disowned, budget>>

EndBackoff(c, i) ==
  /\ <<c, i>> \in backoff
  /\ PushDelay # "any" => Landed(i)
  /\ backoff' = backoff \ {<<c, i>>}
  /\ UNCHANGED <<rows, txn, lock, pc, job, settle, inst, cache, disowned, budget>>

EndSettle(c, i) ==
  /\ <<c, i>> \in settle
  /\ PushDelay # "any" => Landed(i)
  /\ settle' = settle \ {<<c, i>>}
  /\ UNCHANGED <<rows, txn, lock, pc, job, backoff, inst, cache, disowned, budget>>

Forget(c) ==
  /\ job' = [job EXCEPT ![c] = NoJob]
  /\ Goto(c, "idle")
  /\ backoff' = {b \in backoff : b[1] # c}
  /\ settle' = {s \in settle : s[1] # c}
  /\ Close(c)
  /\ UNCHANGED <<rows, inst, cache, disowned>>

(* A killed process leaves the lock to its TTL. *)
Crash(c) ==
  /\ Spend("crash")
  /\ Forget(c)
  /\ UNCHANGED lock

(* A cancelled task still runs the finally clause. *)
ShutDown(c) ==
  /\ Spend("crash")
  /\ Forget(c)
  /\ lock' = IF InSection(c) THEN lock \ {job[c].intent} ELSE lock

(* instances_update, or a refresh over HTTP: the host's list replaces the cached one. *)
OnHost(v, k, h) == v[k] # NoInst /\ v[k].host = h
Push(h) ==
  /\ cache' = [k \in Slots |->
       IF OnHost(inst, k, h) \/ OnHost(cache, k, h) THEN inst[k] ELSE cache[k]]
  /\ cache' # cache
  /\ UNCHANGED <<rows, txn, lock, pc, job, backoff, settle, inst, disowned, budget>>

Boot(k) ==
  /\ inst[k].state = "starting"
  /\ HostSets([inst EXCEPT ![k].state = "running"])
  /\ UNCHANGED <<rows, txn, lock, pc, job, backoff, settle, disowned, budget>>

Break(k) ==
  /\ inst[k].state \in {"starting", "running"}
  /\ Spend("instance_failure")
  /\ HostSets([inst EXCEPT ![k].state = "failed"])
  /\ UNCHANGED <<rows, txn, lock, pc, job, backoff, settle, disowned>>

Request(u) ==
  /\ \/ \E i \in Intents, a \in Aliases, n \in ReplicaCounts : CheckAlias(u, i, a, n)
     \/ \E i \in Intents, orphan \in BOOLEAN : ReadForDelete(u, i, orphan)
  /\ UNCHANGED <<lock, pc, job, backoff, settle, inst, cache, disowned, budget>>

Reply(u) ==
  /\ InsertIntent(u) \/ SoftDelete(u)
  /\ UNCHANGED <<lock, pc, job, backoff, settle, inst, cache, disowned, budget>>

Users == Clients \ Controls

Next ==
  \/ \E c \in Controls : Step(c) \/ ActionTimeout(c) \/ PassFails(c) \/ Crash(c) \/ ShutDown(c)
  \/ \E c \in Controls, i \in Intents : EndBackoff(c, i) \/ EndSettle(c, i)
  \/ \E i \in Intents : ExpireLock(i)
  \/ \E h \in Hosts : Push(h)
  \/ \E k \in Slots : Boot(k) \/ Break(k)
  \/ \E u \in Users : Request(u) \/ Reply(u)

Spec == Init /\ [][Next]_vars

(* Every coroutine, timer, push and request that can go on goes on, and the  *)
(* database does not starve a session.                                      *)
Fairness ==
  /\ \A c \in Controls : WF_vars(Step(c)) /\ SF_vars(ReadRow(c))
  /\ \A c \in Controls, i \in Intents : WF_vars(EndBackoff(c, i)) /\ WF_vars(EndSettle(c, i))
  /\ \A i \in Intents : WF_vars(ExpireLock(i))
  /\ \A h \in Hosts : WF_vars(Push(h))
  /\ \A k \in Slots : WF_vars(Boot(k))
  /\ \A u \in Users : WF_vars(Reply(u))

FairSpec == Spec /\ Fairness

--------------------------------------------------------------------------------
(* Properties. *)

(* Two replicas are never inside the locked section of one intent at once: *)
(* _reconcile_all's SET NX ... DELETE.                                     *)
LockExclusive ==
  \A c, d \in Controls :
    c # d /\ InSection(c) /\ InSection(d) => job[c].intent # job[d].intent

Owned(i) == {k \in Slots \ disowned : inst[k] # NoInst /\ inst[k].owner = i}

(* Once update_status has retired an intent that was not orphaned, no host *)
(* still holds an instance of it: nothing would ever stop that instance.   *)
NoLeak ==
  \A i \in Intents :
    rows[i] # NoRow /\ rows[i].retired /\ ~rows[i].orphan => Owned(i) = {}

(* The loop never has more instances of a live intent on the hosts than it  *)
(* asks for, and never two of one alias on a host (find_candidates).        *)
NoDuplicates ==
  /\ \A i \in Intents :
       Active(i) /\ rows[i].phase # "deleting" => Cardinality(Owned(i)) <= rows[i].replicas
  /\ \A k, l \in Slots :
       k # l /\ inst[k] # NoInst /\ inst[l] # NoInst /\ inst[k].alias = inst[l].alias
         => inst[k].host # inst[l].host

(* Once tombstoned, an instance is never stopped, restarted or removed by   *)
(* the loop, whatever a late push puts back in the cache: only its host     *)
(* changes it.                                                              *)
DisownedUntouched ==
  [][\A k \in disowned : inst[k] # NoInst /\ inst'[k] # inst[k] =>
        inst'[k] # NoInst /\ inst'[k].state \in {"running", "failed"}]_inst

(* A DELETE the store accepted is carried out: the intent is retired, even  *)
(* if a replica dies inside its pass and leaves the lock to its TTL.        *)
DeletionCompletes ==
  \A i \in Intents : (Active(i) /\ rows[i].phase = "deleting") ~> (rows[i] # NoRow /\ rows[i].retired)

Converged(i) ==
  /\ Cardinality(Owned(i)) = rows[i].replicas
  /\ \A k \in Owned(i) : inst[k].state = "running"
  /\ rows[i].phase = "ready"

(* A live intent ends up, and stays, with exactly the running instances it  *)
(* asks for and a row that says so.                                         *)
Converges ==
  \A i \in Intents : <>[](Active(i) /\ rows[i].phase # "deleting" => Converged(i))

(* The reconciler implements the life of an intent as the API promises it.  *)
Life(i) ==
  IF rows[i] = NoRow THEN "absent"
  ELSE IF rows[i].retired THEN "gone"
  ELSE IF rows[i].phase = "deleting" THEN "deleting" ELSE "live"

Lifecycle == INSTANCE IntentLifecycle WITH
  life <- [i \in Intents |-> Life(i)],
  served <- {i \in Intents : Owned(i) # {} /\ ~rows[i].orphan}

ImplementsLifecycle == Lifecycle!Spec
================================================================================
