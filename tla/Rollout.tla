-------------------------------- MODULE Rollout --------------------------------
(***************************************************************************)
(* A version change of one intent: the reconciler's passes                 *)
(* (app/services/reconciliation.py) with the rolling and the immediate     *)
(* strategy (app/services/strategies.py), whose progress is kept in the    *)
(* intent's row.  The replicas' lock is taken for granted (LockExclusive), *)
(* so passes follow one another, and so is a cache that follows the hosts: *)
(* a pass observes the instances as they are, and acts on them later.      *)
(***************************************************************************)
EXTENDS Integers, FiniteSets, Sequences, SequencesExt

CONSTANTS
  Hosts,       \* solar-hosts, numbered in the order of their identifiers
  Slots,       \* instance identifiers (a bound), numbered
  Replicas,    \* the replicas the intent asks for
  Strategies,  \* the strategies the intent may name
  Deletable,   \* those of Strategies whose intent may be deleted
  MaxEdits,    \* how often the row's model_source is changed (a bound)
  Faults,      \* what may go wrong, see FaultKinds
  MaxFaults    \* how many of them happen (a bound)

(* "stop_error": stopping or deleting an instance fails; "create_error":    *)
(* creating or starting one does, or its answer is lost; "slow": the health *)
(* gate runs out while the replacement is starting; "capacity": a pass      *)
(* finds no host with room; "pass_error": the database fails a pass.        *)
FaultKinds == {"stop_error", "create_error", "slow", "capacity", "crash",
               "pass_error", "instance_failure"}

ASSUME RolloutAssumption ==
  /\ Hosts \subseteq Nat \ {0}
  /\ Slots \subseteq Nat \ {0}
  /\ IsFiniteSet(Hosts) /\ IsFiniteSet(Slots)
  /\ Replicas \in Nat \ {0}
  /\ 1..Replicas \subseteq Slots
  /\ Strategies \subseteq {"rolling", "immediate"}
  /\ Deletable \subseteq Strategies
  /\ MaxEdits \in Nat
  /\ Faults \subseteq FaultKinds
  /\ MaxFaults \in Nat

VARIABLES
  intent,    \* the row: its model_source, strategy and phase
  progress,  \* strategy_progress in the row's status
  aged,      \* started_at lies more than the health gate's timeout back
  inst,      \* inst[k]: the managed instance k on its host
  pc,        \* where the pass stands
  job,       \* the local variables of the pass
  backoff,   \* the intent is in backoff (in memory)
  settle,    \* the intent's settle window is open (in memory)
  edits,     \* changes of model_source still to come
  budget     \* faults that may still happen

row == <<intent, progress>>
memory == <<backoff, settle>>
vars == <<intent, progress, aged, inst, pc, job, backoff, settle, edits, budget>>

Versions == 0..MaxEdits

Intent == [version: Versions, strategy: Strategies,
           phase: {"live", "deleting", "deleted"}]

Inst == [host: Hosts, version: Versions,
         state: {"stopped", "starting", "running", "failed"}]
NoInst == [state |-> "absent"]

(* models/intent.py StrategyProgress, as far as a step depends on it. *)
Progress ==
  [strategy: Strategies, target: Versions, host: Hosts \union {0},
   phase: {"creating_replacement", "waiting_healthy", "retiring_old",
           "stopping_old", "creating_replacements", "failed"},
   instance: Slots \union {0}, pending: Seq(Hosts)]
NoProgress == [phase |-> "none"]

Act == [type: {"none", "stop", "create", "recreate"},
        slot: Slots \union {0}, host: Hosts \union {0}]
NoAct == [type |-> "none", slot |-> 0, host |-> 0]
Stop(k) == [type |-> "stop", slot |-> k, host |-> 0]
Create(h) == [type |-> "create", slot |-> 0, host |-> h]
Recreate(k) == [type |-> "recreate", slot |-> k, host |-> 0]

(* row, strategy_progress: the pass's copies; some: observed_count > 0. *)
Job == [intent: Intent, progress: Progress \union {NoProgress}, act: Act,
        next: Progress \union {NoProgress}, some: BOOLEAN]
NoJob == [act |-> NoAct]

TypeOK ==
  /\ intent \in Intent
  /\ progress \in Progress \union {NoProgress}
  /\ aged \in BOOLEAN
  /\ inst \in [Slots -> Inst \union {NoInst}]
  /\ pc \in {"idle", "observe", "stop", "delete", "create", "start", "status"}
  /\ job \in Job \union {NoJob}
  /\ pc = "idle" <=> job = NoJob
  /\ backoff \in BOOLEAN
  /\ settle \in BOOLEAN
  /\ edits \in 0..MaxEdits
  /\ budget \in 0..MaxFaults

(* The intent is deployed: one running replica on each of Replicas hosts. *)
Init ==
  /\ \E s \in Strategies : intent = [version |-> 0, strategy |-> s, phase |-> "live"]
  /\ progress = NoProgress
  /\ aged = FALSE
  /\ \E f \in [1..Replicas -> Hosts] :
       /\ \A i, j \in 1..Replicas : i < j => f[i] < f[j]
       /\ inst = [k \in Slots |-> IF k \in 1..Replicas
            THEN [host |-> f[k], version |-> 0, state |-> "running"] ELSE NoInst]
  /\ pc = "idle"
  /\ job = NoJob
  /\ backoff = FALSE
  /\ settle = FALSE
  /\ edits = MaxEdits
  /\ budget = MaxFaults

--------------------------------------------------------------------------------
(* The strategies: what a step makes of the progress and the observation.   *)

Spend(kind) == kind \in Faults /\ budget > 0 /\ budget' = budget - 1

(* Slip: stopped instances do not count. *)
ManagedUnlessStopped == {k \in Slots : inst[k] # NoInst /\ inst[k].state # "stopped"}

Managed == {k \in Slots : inst[k] # NoInst}
HostsOf(S) == {inst[k].host : k \in S}
Updated(S, v) == {k \in S : inst[k].version = v}
Drifted(S, v) == S \ Updated(S, v)
Missing(S, v) == Replicas - Cardinality(Updated(S, v))
OldOn(S, h, v) == {k \in Drifted(S, v) : inst[k].host = h}

Take(q, n) == SubSeq(q, 1, IF n < Len(q) THEN n ELSE Len(q))

(* sorted(), and a list without some elements, in terms of ranks: the       *)
(* library's SetToSortSeq and SelectSeq are recursive, out of the proofs'   *)
(* reach.                                                                   *)
Sorted(S) ==
  [n \in 1..Cardinality(S) |-> CHOOSE x \in S : Cardinality({y \in S : y <= x}) = n]
Without(q, S) ==
  LET kept == Sorted({n \in DOMAIN q : q[n] \notin S}) IN [n \in DOMAIN kept |-> q[kept[n]]]

(* find_candidates' lists: hosts without the alias, in any order of merit. *)
Orders(H) ==
  {q \in [1..Cardinality(H) -> H] : \A i, j \in DOMAIN q : q[i] = q[j] => i = j}
Candidates == Hosts \ HostsOf(Managed)

Outcome(act, next) == [act |-> act, next |-> next]
Finish == {Outcome(NoAct, NoProgress)}
(* Slip: a phase the reader of the row does not know. *)
HoldUnknown(p) == {Outcome(NoAct, [p EXCEPT !.phase = "held"])}
Hold(p) == {Outcome(NoAct, [p EXCEPT !.phase = "failed"])}

Advance(p, S, order) ==
  LET missing == Missing(S, p.target)
      pending == IF p.pending # <<>> THEN p.pending ELSE Take(order, missing) IN
  IF missing <= 0 \/ pending = <<>> THEN Finish
  ELSE {Outcome(Create(Head(pending)),
          [p EXCEPT !.phase = "creating_replacement", !.host = Head(pending),
                    !.instance = 0, !.pending = Tail(pending)])}

(* Running in the cache stands for running and registered: a registry that  *)
(* has not been refreshed yet only makes the pass wait.                     *)
Healthy(S, k) == k \in S /\ inst[k].state = "running"

(* Slip: no health gate. *)
RollingUngated(p, S, order) ==
  LET old == OldOn(S, p.host, p.target) IN
  CASE p.phase = "creating_replacement" ->
         IF p.instance = 0 THEN {Outcome(Create(p.host), p)}
         ELSE {Outcome(NoAct, [p EXCEPT !.phase = "waiting_healthy"])}
    [] p.phase = "waiting_healthy" ->
         IF old = {} THEN Advance(p, S, order)
         ELSE {Outcome(Stop(k), [p EXCEPT !.phase = "retiring_old"]) : k \in old}
    [] p.phase = "retiring_old" ->
         IF old # {} THEN {Outcome(NoAct, p)} ELSE Advance(p, S, order)
    [] OTHER -> Finish

Rolling(p, S, order) ==
  LET old == OldOn(S, p.host, p.target) IN
  CASE p.phase = "creating_replacement" ->
         IF p.instance = 0 THEN {Outcome(Create(p.host), p)}
         ELSE {Outcome(NoAct, [p EXCEPT !.phase = "waiting_healthy"])}
    [] p.phase = "waiting_healthy" ->
         IF ~Healthy(S, p.instance) THEN IF aged THEN Hold(p) ELSE {Outcome(NoAct, p)}
         ELSE IF old = {} THEN Advance(p, S, order)
         ELSE {Outcome(Stop(k), [p EXCEPT !.phase = "retiring_old"]) : k \in old}
    [] p.phase = "retiring_old" ->
         IF old # {} THEN {Outcome(NoAct, p)} ELSE Advance(p, S, order)
    [] OTHER -> Finish

Immediate(p, S, order) ==
  LET old == Drifted(S, p.target)
      missing == Missing(S, p.target)
      hosts == p.pending \o Without(order, ToSet(p.pending)) IN
  CASE p.phase = "stopping_old" ->
         IF old # {} THEN {Outcome(Stop(k), p) : k \in old}
         ELSE IF missing <= 0 THEN Finish
         ELSE IF hosts = <<>> THEN Hold(p)
         ELSE {Outcome(NoAct, [p EXCEPT !.phase = "creating_replacements",
                                        !.pending = Take(hosts, missing)])}
    [] p.phase = "creating_replacements" ->
         IF p.pending = <<>> THEN Finish
         ELSE {Outcome(Create(Head(p.pending)), [p EXCEPT !.pending = Tail(@)])}
    [] OTHER -> Finish

Continue(p, S, order) ==
  IF p.strategy = "rolling" THEN Rolling(p, S, order) ELSE Immediate(p, S, order)

Begins(i, phase) ==
  [strategy |-> i.strategy, target |-> i.version, phase |-> phase,
   host |-> 0, instance |-> 0, pending |-> <<>>]

(* The hosts of old replicas come first: they are replaced in place. *)
RollingInit(i, S, order) ==
  LET old == Sorted(HostsOf(Drifted(S, i.version)))
      hosts == Take(old \o Without(order, ToSet(old)), Missing(S, i.version)) IN
  [Begins(i, "creating_replacement") EXCEPT !.host = Head(hosts), !.pending = Tail(hosts)]

ImmediateInit(i, S, order) ==
  [Begins(i, "stopping_old") EXCEPT !.pending = Take(order, Missing(S, i.version))]

(* initiate_strategy, called when the diff has a REPLACE. *)
Initiate(i, S, order) ==
  IF Drifted(S, i.version) = {} \/ Missing(S, i.version) <= 0 THEN NoProgress
  ELSE IF i.strategy = "rolling" THEN RollingInit(i, S, order)
  ELSE ImmediateInit(i, S, order)

Broken(S) == {k \in S : inst[k].state \in {"stopped", "failed"}}

(* The actions that may come first in _diff's sorted list.  A surplus is    *)
(* stopped broken ones first, then newest first; the flat cache carries no  *)
(* created_at, so any.  A REPLACE for a changed source only comes first     *)
(* when a strategy is initiated instead.                                    *)
Diff(i, S, order) ==
  LET broken == Broken(S) \ Drifted(S, i.version) IN
  IF i.phase = "deleting" THEN {Stop(k) : k \in S}
  ELSE IF Cardinality(S) > Replicas
    THEN {Stop(k) : k \in IF Broken(S) # {} THEN Broken(S) ELSE S}
  ELSE IF broken # {} THEN {Recreate(k) : k \in broken}
  ELSE IF Cardinality(S) < Replicas /\ order # <<>> THEN {Create(Head(order))}
  ELSE {}

--------------------------------------------------------------------------------
(* One pass over the intent. *)

InStrategy == job.progress # NoProgress

(* list_active_for_reconciliation, then the backoff check. *)
Begin ==
  /\ pc = "idle"
  /\ intent.phase # "deleted"
  /\ ~backoff
  /\ job' = [intent |-> intent, progress |-> progress, act |-> NoAct,
             next |-> NoProgress, some |-> FALSE]
  /\ pc' = "observe"
  /\ UNCHANGED <<intent, progress, aged, inst, backoff, settle, edits, budget>>

Entry(act) ==
  CASE act.type = "none" -> "status"
    [] act.type = "recreate" -> "start"
    [] OTHER -> act.type

(* Inside the settle window a pass reads the row again and, unless it is    *)
(* being deleted, only refreshes its status.                                *)
SettleRefresh ==
  /\ pc = "observe"
  /\ settle
  /\ intent.phase # "deleting"
  /\ pc' = IF intent.phase = "deleted" THEN "idle" ELSE "status"
  /\ job' = IF intent.phase = "deleted" THEN NoJob ELSE [job EXCEPT !.some = Managed # {}]
  /\ UNCHANGED <<intent, progress, aged, inst, backoff, settle, edits, budget>>

(* _observe, and what _reconcile_one makes of it: a strategy in flight goes *)
(* on, whatever the row's phase; else the diff, or a strategy begins.       *)
Observe ==
  /\ pc = "observe"
  /\ settle => intent.phase = "deleting"
  /\ LET i == IF settle THEN intent ELSE job.intent
         S == Managed
         seen == [job EXCEPT !.intent = i, !.some = S # {}] IN
       \E order \in Orders(Candidates) \union {<<>>} :
         /\ IF order = <<>> /\ Candidates # {} THEN Spend("capacity") ELSE UNCHANGED budget
         /\ LET begun == IF i.phase = "deleting" THEN NoProgress ELSE Initiate(i, S, order)
                acts == Diff(i, S, order)
                plans == IF InStrategy THEN Continue(job.progress, S, order)
                         ELSE IF begun # NoProgress THEN {Outcome(NoAct, begun)}
                         ELSE IF acts = {} THEN Finish
                         ELSE {Outcome(a, NoProgress) : a \in acts} IN
            \E plan \in plans :
              /\ job' = [seen EXCEPT !.act = plan.act, !.next = plan.next]
              /\ pc' = Entry(plan.act)
              /\ backoff' = (plan.next # NoProgress /\ plan.next.phase = "failed")
              /\ aged' = (aged /\ (InStrategy \/ begun = NoProgress))
  /\ UNCHANGED <<intent, progress, inst, settle, edits>>

(* The action raised: the ordinary path backs off, a strategy does not. *)
Fails ==
  /\ pc' = "status"
  /\ backoff' = ~InStrategy
  /\ UNCHANGED <<job, settle>>

Succeeds ==
  /\ pc' = "status"
  /\ backoff' = FALSE
  /\ UNCHANGED <<job, settle>>

Proceeds(place) ==
  /\ pc' = place
  /\ UNCHANGED <<job, backoff, settle>>

HostSets(k, value) == inst' = [inst EXCEPT ![k] = value]

StopInstance ==
  LET k == job.act.slot
      stopped == [inst[k] EXCEPT !.state = "stopped"] IN
  /\ pc = "stop"
  /\ \/ HostSets(k, stopped) /\ Proceeds("delete") /\ UNCHANGED budget
     \/ Spend("stop_error") /\ (HostSets(k, stopped) \/ UNCHANGED inst) /\ Fails
  /\ UNCHANGED <<row, aged, edits>>

(* Slip: the stopped instance stays. *)
DeleteSkipped ==
  /\ pc = "delete"
  /\ IF job.act.type = "recreate" THEN Fails ELSE Succeeds
  /\ UNCHANGED <<row, aged, inst, edits, budget>>

(* After a stop, a failed deletion is swallowed; after a failed restart the *)
(* action raises in any case.                                               *)
DeleteInstance ==
  /\ pc = "delete"
  /\ \/ HostSets(job.act.slot, NoInst) /\ UNCHANGED budget
     \/ Spend("stop_error") /\ UNCHANGED inst
  /\ IF job.act.type = "recreate" THEN Fails ELSE Succeeds
  /\ UNCHANGED <<row, aged, edits>>

Free == {k \in Slots : inst[k] = NoInst}

CreateInstance ==
  /\ pc = "create"
  /\ \E k \in Free :
       /\ \A l \in Free : k <= l
       /\ LET new == [host |-> job.act.host, version |-> job.intent.version,
                      state |-> "stopped"] IN
          \/ /\ HostSets(k, new)
             /\ job' = [job EXCEPT !.act.slot = k]
             /\ pc' = "start"
             /\ UNCHANGED <<backoff, settle, budget>>
          \/ Spend("create_error") /\ (HostSets(k, new) \/ UNCHANGED inst) /\ Fails
  /\ UNCHANGED <<row, aged, edits>>

(* A created instance's identifier goes into the progress; the ordinary     *)
(* path observes again and opens the settle window.                         *)
StartInstance ==
  LET k == job.act.slot
      started == [inst[k] EXCEPT !.state = IF @ = "running" THEN @ ELSE "starting"]
      restart == job.act.type = "recreate" IN
  /\ pc = "start"
  /\ \/ /\ HostSets(k, started)
        /\ UNCHANGED budget
        /\ pc' = "status"
        /\ backoff' = FALSE
        /\ settle' = (settle \/ (~restart /\ ~InStrategy))
        /\ job' = IF restart THEN job
                  ELSE IF InStrategy THEN [job EXCEPT !.next.instance = k]
                  ELSE [job EXCEPT !.some = TRUE]
     \/ /\ Spend("create_error")
        /\ HostSets(k, started) \/ UNCHANGED inst
        /\ IF restart THEN Proceeds("delete") ELSE Fails
  /\ UNCHANGED <<row, aged, edits>>

(* _update_status: phase and progress, from the pass's own copy of the row  *)
(* and from what it observed before it acted.                               *)
WriteStatus ==
  /\ pc = "status"
  /\ intent' = IF job.intent.phase = "deleting" /\ ~job.some
               THEN [intent EXCEPT !.phase = "deleted"] ELSE intent
  /\ progress' = IF intent.phase = "deleted" THEN progress ELSE job.next
  /\ pc' = "idle"
  /\ job' = NoJob
  /\ UNCHANGED <<aged, inst, backoff, settle, edits, budget>>

Forget == pc' = "idle" /\ job' = NoJob

(* The database or Redis fails the pass; nothing of it is written. *)
PassFails ==
  /\ pc \in {"observe", "status"}
  /\ Spend("pass_error")
  /\ Forget
  /\ UNCHANGED <<row, aged, inst, backoff, settle, edits>>

Crash ==
  /\ Spend("crash")
  /\ Forget
  /\ backoff' = FALSE
  /\ settle' = FALSE
  /\ UNCHANGED <<row, aged, inst, edits>>

--------------------------------------------------------------------------------
(* Time, hosts, and those who change the row. *)

EndBackoff ==
  /\ backoff
  /\ pc = "idle"
  /\ backoff' = FALSE
  /\ UNCHANGED <<row, aged, inst, pc, job, settle, edits, budget>>

EndSettle ==
  /\ settle
  /\ settle' = FALSE
  /\ UNCHANGED <<row, aged, inst, pc, job, backoff, edits, budget>>

Failing(k) == k = 0 \/ inst[k] = NoInst \/ inst[k].state \in {"stopped", "failed"}

(* Slip: the elapsed time stays 0. *)
AgeNever == progress # NoProgress /\ FALSE /\ UNCHANGED vars

(* The health gate's timeout, counted from the start of the strategy, runs  *)
(* out: while a replacement that will not come up is awaited, or, "slow",   *)
(* at any time.                                                             *)
Age ==
  /\ progress # NoProgress
  /\ ~aged
  /\ \/ progress.phase = "waiting_healthy" /\ Failing(progress.instance) /\ UNCHANGED budget
     \/ Spend("slow")
  /\ aged' = TRUE
  /\ UNCHANGED <<row, inst, pc, job, backoff, settle, edits>>

Boot(k) ==
  /\ inst[k].state = "starting"
  /\ HostSets(k, [inst[k] EXCEPT !.state = "running"])
  /\ UNCHANGED <<row, aged, pc, job, backoff, settle, edits, budget>>

Break(k) ==
  /\ inst[k].state \in {"starting", "running"}
  /\ Spend("instance_failure")
  /\ HostSets(k, [inst[k] EXCEPT !.state = "failed"])
  /\ UNCHANGED <<row, aged, pc, job, backoff, settle, edits>>

(* No endpoint changes model_source: it is edited in the database. *)
Retarget ==
  /\ edits > 0
  /\ intent.phase = "live"
  /\ edits' = edits - 1
  /\ intent' = [intent EXCEPT !.version = @ + 1]
  /\ UNCHANGED <<progress, aged, inst, pc, job, backoff, settle, budget>>

(* soft_delete_intent. *)
Delete ==
  /\ intent.strategy \in Deletable
  /\ intent.phase = "live"
  /\ intent' = [intent EXCEPT !.phase = "deleting"]
  /\ UNCHANGED <<progress, aged, inst, pc, job, backoff, settle, edits, budget>>

Step ==
  \/ Begin
  \/ SettleRefresh
  \/ Observe
  \/ StopInstance
  \/ DeleteInstance
  \/ CreateInstance
  \/ StartInstance
  \/ WriteStatus

Next ==
  \/ Step
  \/ PassFails \/ Crash
  \/ EndBackoff \/ EndSettle \/ Age
  \/ \E k \in Slots : Boot(k) \/ Break(k)
  \/ Retarget \/ Delete

Spec == Init /\ [][Next]_vars

(* The loop keeps running, its timers end, and what starts comes up. *)
Fairness ==
  /\ WF_vars(Step) /\ WF_vars(EndBackoff) /\ WF_vars(EndSettle) /\ WF_vars(Age)
  /\ \A k \in Slots : WF_vars(Boot(k))

FairSpec == Spec /\ Fairness

--------------------------------------------------------------------------------
(* Properties. *)

Serving == {k \in Managed : inst[k].state = "running"}
Arriving == {k \in Managed : inst[k].state = "starting"}

(* A retired intent has no instance left anywhere: nothing would ever stop  *)
(* it (update_status confirms the cleanup a strategy interfered with).      *)
NoLeak == intent.phase = "deleted" => \A k \in Slots : inst[k] = NoInst

(* A rolling update does not cost service: undisturbed, the replicas asked  *)
(* for keep running; after faults, if they were up on as many hosts and     *)
(* none is broken, no step of the loop leaves fewer of them up or on their  *)
(* way, whatever strays the faults left for it to stop.                     *)
ServiceKept ==
  [][intent.strategy = "rolling" /\ intent.phase = "live" /\ budget' = budget =>
       /\ Broken(Managed) = {} /\ job.act.type # "recreate"
          /\ Cardinality(HostsOf(Serving \union Arriving)) >= Replicas
            => Cardinality(Serving' \union Arriving') >= Replicas
       /\ budget = MaxFaults /\ Cardinality(Serving) >= Replicas
            => Cardinality(Serving') >= Replicas]_vars

(* The strategy waits for an old replica that nothing stops any more. *)
Wedged ==
  /\ progress # NoProgress
  /\ progress.phase = "retiring_old"
  /\ OldOn(Managed, progress.host, progress.target) # {}

Settled ==
  /\ Cardinality(Managed) = Replicas
  /\ \A k \in Managed : inst[k].state = "running" /\ inst[k].version = intent.version

(* A version change is carried through to the end, whatever fails a bounded *)
(* number of times, with one exception: a rolling update whose stop of an   *)
(* old replica failed waits for it for ever.                                *)
UpdateCompletes == <>[](intent.phase = "live" => Settled \/ Wedged)

(* With the same exception a deletion completes, though a strategy in       *)
(* flight goes first.                                                       *)
DeletionCompletes == <>[](intent.phase # "deleting" \/ Wedged)
================================================================================
