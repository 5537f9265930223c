----------------------------- MODULE RolloutProofs -----------------------------
(***************************************************************************)
(* What holds of a version change for any number of hosts, replicas and    *)
(* identifiers and under every fault: a deletion that overtakes a rolling  *)
(* update leaves nothing behind, and the update does not cost service.     *)
(* Both rest on what the progress in the row promises of the hosts         *)
(* (Backed): while the update is under way there is an instance, and the   *)
(* replacement that is awaited is one of the target version, which no step *)
(* of the update stops.  So the pass that finds none, and retires the      *)
(* intent, is not one that creates another.                                *)
(***************************************************************************)
EXTENDS Rollout, FiniteSetTheorems, FunctionTheorems, SequenceTheorems, TLAPS

Phases == {"creating_replacement", "waiting_healthy", "retiring_old"}
States == {"stopped", "starting", "running", "failed"}

(* Records of which only some fields are looked at. *)
IsInst(x) ==
  /\ x = [host |-> x.host, version |-> x.version, state |-> x.state]
  /\ x.version \in Versions
  /\ x.state \in States

IsAct(a) == a = [type |-> a.type, slot |-> a.slot, host |-> a.host]

IsProgress(p) ==
  p = [strategy |-> p.strategy, target |-> p.target, host |-> p.host, phase |-> p.phase,
       instance |-> p.instance, pending |-> p.pending]

IsJob(j) ==
  /\ j = [intent |-> j.intent, progress |-> j.progress, act |-> j.act, next |-> j.next,
          some |-> j.some]
  /\ j.intent \in Intent
  /\ IsAct(j.act)

UnderWay(p) == p # NoProgress /\ p.strategy = "rolling" /\ p.phase \in Phases

Exists(k) == k \in Slots /\ inst[k] # NoInst

(* What a progress promises of the hosts. *)
Backed(p) ==
  /\ p # NoProgress => IsProgress(p) /\ p.phase # "none" /\ p.strategy = intent.strategy
  /\ UnderWay(p) =>
       /\ p.target = MaxEdits
       /\ Managed # {}
       /\ p.phase # "creating_replacement" \/ p.instance # 0 =>
            Exists(p.instance) /\ inst[p.instance].version = MaxEdits

(* Deleting k breaks no promise. *)
Spares(p, k) == UnderWay(p) => p.phase # "creating_replacement" /\ k # p.instance

RowOK ==
  /\ intent \in Intent
  /\ edits \in 0..MaxEdits
  /\ intent.version + edits = MaxEdits
  /\ intent.phase # "live" => intent.strategy \in Deletable
  /\ progress # NoProgress => intent.version = MaxEdits
  /\ Backed(progress)

HostsOK ==
  /\ inst = [k \in Slots |-> inst[k]]
  /\ \A k \in Slots : inst[k] = NoInst \/ (IsInst(inst[k]) /\ inst[k].version <= intent.version)

(* After the observation, the pass knows what it does and what it will say. *)
Decided ==
  /\ Backed(job.next)
  /\ job.intent.phase = "deleting" /\ ~job.some => Managed = {} /\ pc = "status"
  /\ pc \in {"stop", "delete", "start"} => Exists(job.act.slot)
  /\ pc \in {"stop", "delete"} \/ (pc = "start" /\ job.act.type = "recreate") =>
       /\ Spares(progress, job.act.slot)
       /\ Spares(job.next, job.act.slot)
  /\ job.act.type = "recreate" => progress = NoProgress /\ pc # "create"
  /\ pc \in {"create", "start"} /\ progress # NoProgress =>
       job.next # NoProgress /\ job.next.phase \notin {"waiting_healthy", "retiring_old"}
  /\ pc = "start" /\ progress # NoProgress => inst[job.act.slot].version = MaxEdits
  /\ job.next # NoProgress => intent.version = MaxEdits

Passing ==
  /\ IsJob(job)
  /\ job.intent.strategy = intent.strategy
  /\ job.intent.version <= intent.version
  /\ job.intent.phase = "deleting" => intent.phase = "deleting"
  /\ intent.phase # "deleted" /\ job.intent.phase # "deleted"
  /\ job.progress = progress
  /\ progress # NoProgress => job.intent.version = MaxEdits
  /\ \A k \in Slots : inst[k] # NoInst => inst[k].version <= job.intent.version
  /\ pc = "observe" => job.next = NoProgress /\ job.act = NoAct
  /\ pc # "observe" => Decided

Inv ==
  /\ RowOK
  /\ HostsOK
  /\ pc \in {"idle", "observe", "stop", "delete", "create", "start", "status"}
  /\ pc # "idle" => Passing
  /\ intent.phase = "deleted" => Managed = {}

--------------------------------------------------------------------------------
(* What a strategy's step plans. *)

(* A plan keeps the promises of the progress it continues and of the one it *)
(* writes.                                                                  *)
Sound(plan, p) ==
  /\ IsAct(plan.act)
  /\ plan.act.type \in {"none", "stop", "create", "recreate"}
  /\ plan.act.type \in {"stop", "recreate"} =>
       Exists(plan.act.slot) /\ Spares(p, plan.act.slot) /\ Spares(plan.next, plan.act.slot)
  /\ plan.act.type = "recreate" => p = NoProgress
  /\ plan.act.type = "create" /\ p # NoProgress =>
       plan.next # NoProgress /\ plan.next.phase \notin {"waiting_healthy", "retiring_old"}
  /\ Backed(plan.next)

LEMMA NotASlot == 0 \notin Slots
BY RolloutAssumption

LEMMA ActFields ==
  /\ IsAct(NoAct) /\ NoAct.type = "none"
  /\ \A k : IsAct(Stop(k)) /\ Stop(k).type = "stop" /\ Stop(k).slot = k
  /\ \A k : IsAct(Recreate(k)) /\ Recreate(k).type = "recreate" /\ Recreate(k).slot = k
  /\ \A h : IsAct(Create(h)) /\ Create(h).type = "create"
<1>1. IsAct(NoAct) /\ NoAct.type = "none"
  BY DEF IsAct, NoAct
<1>2. ASSUME NEW k
      PROVE  IsAct(Stop(k)) /\ Stop(k).type = "stop" /\ Stop(k).slot = k
  BY DEF IsAct, Stop
<1>3. ASSUME NEW k
      PROVE  IsAct(Recreate(k)) /\ Recreate(k).type = "recreate" /\ Recreate(k).slot = k
  BY DEF IsAct, Recreate
<1>4. ASSUME NEW h
      PROVE  IsAct(Create(h)) /\ Create(h).type = "create"
  BY DEF IsAct, Create
<1> QED BY <1>1, <1>2, <1>3, <1>4

LEMMA OutcomeFields ==
  ASSUME NEW act, NEW next
  PROVE  Outcome(act, next).act = act /\ Outcome(act, next).next = next
BY DEF Outcome

LEMMA NoProgressFields == Backed(NoProgress) /\ ~UnderWay(NoProgress) /\ NoProgress.phase = "none"
BY DEF Backed, UnderWay, NoProgress

(* The end of a strategy. *)
LEMMA FinishSound ==
  ASSUME NEW p, NEW plan \in Finish
  PROVE  Sound(plan, p) /\ plan.act.type = "none" /\ plan.next = NoProgress
<1>1. plan.act = NoAct /\ plan.next = NoProgress
  BY OutcomeFields DEF Finish
<1> QED BY <1>1, ActFields, NoProgressFields DEF Sound

(* A strategy that is held in "failed" promises nothing any more. *)
LEMMA HoldSound ==
  ASSUME NEW p, p # NoProgress, Backed(p), NEW plan \in Hold(p)
  PROVE  Sound(plan, p) /\ plan.act.type = "none"
<1>1. plan.act = NoAct /\ plan.next = [p EXCEPT !.phase = "failed"]
  BY OutcomeFields DEF Hold
<1>2. IsProgress(plan.next) /\ plan.next.phase = "failed" /\ plan.next.strategy = p.strategy
  BY <1>1 DEF Backed, IsProgress
<1>3. Backed(plan.next)
  BY <1>2 DEF Backed, UnderWay, Phases
<1> QED BY <1>1, <1>3, ActFields DEF Sound

(* The next replica of a rolling update. *)
LEMMA AdvanceSound ==
  ASSUME NEW p, UnderWay(p), Backed(p), NEW S, NEW order, NEW plan \in Advance(p, S, order)
  PROVE  Sound(plan, p)
<1>1. CASE plan \in Finish
  BY <1>1, FinishSound
<1>2. CASE \E h, q : plan = Outcome(Create(h), [p EXCEPT !.phase = "creating_replacement",
                                   !.host = h, !.instance = 0, !.pending = q])
  <2>1. PICK h, q : plan = Outcome(Create(h), [p EXCEPT !.phase = "creating_replacement",
                                   !.host = h, !.instance = 0, !.pending = q])
    BY <1>2
  <2>2. plan.act = Create(h) /\ plan.next = [p EXCEPT !.phase = "creating_replacement",
                                   !.host = h, !.instance = 0, !.pending = q]
    BY <2>1, OutcomeFields
  <2>3. /\ IsProgress(plan.next) /\ plan.next.phase = "creating_replacement"
        /\ plan.next.strategy = p.strategy /\ plan.next.target = p.target
        /\ plan.next.instance = 0
    BY <2>2 DEF Backed, IsProgress, UnderWay
  <2>4. Backed(plan.next) /\ plan.next # NoProgress
    BY <2>3 DEF Backed, UnderWay, NoProgress
  <2> QED BY <2>2, <2>3, <2>4, ActFields DEF Sound
<1> QED BY <1>1, <1>2 DEF Advance

LEMMA RollingSound ==
  ASSUME NEW p, p # NoProgress, p.strategy = "rolling", Backed(p), NEW order,
         NEW plan \in Rolling(p, Managed, order)
  PROVE  /\ Sound(plan, p)
         /\ plan.act.type = "create" => Managed # {}
<1> DEFINE old == OldOn(Managed, p.host, p.target)
<1>0. IsProgress(p)
  BY DEF Backed
<1>1. CASE p.phase = "creating_replacement"
  <2>0. UnderWay(p)
    BY <1>1 DEF UnderWay, Phases
  <2>1. CASE plan = Outcome(Create(p.host), p) /\ p.instance = 0
    BY <2>0, <2>1, <1>1, OutcomeFields, ActFields DEF Sound, Backed
  <2>2. CASE plan = Outcome(NoAct, [p EXCEPT !.phase = "waiting_healthy"]) /\ p.instance # 0
    <3>1. /\ plan.act = NoAct
          /\ plan.next = [p EXCEPT !.phase = "waiting_healthy"]
      BY <2>2, OutcomeFields
    <3>2. /\ IsProgress(plan.next) /\ plan.next.phase = "waiting_healthy"
          /\ plan.next.strategy = p.strategy /\ plan.next.target = p.target
          /\ plan.next.instance = p.instance
      BY <1>0, <3>1 DEF IsProgress
    <3>3. Backed(plan.next)
      BY <2>0, <2>2, <3>2 DEF Backed, UnderWay
    <3> QED BY <3>1, <3>3, ActFields DEF Sound
  <2> QED BY <1>1, <2>1, <2>2 DEF Rolling
<1>2. CASE p.phase = "waiting_healthy"
  <2>0. UnderWay(p)
    BY <1>2 DEF UnderWay, Phases
  <2>1. CASE plan \in Hold(p)
    BY <2>1, HoldSound
  <2>2. CASE plan = Outcome(NoAct, p)
    BY <2>2, OutcomeFields, ActFields DEF Sound
  <2>3. CASE plan \in Advance(p, Managed, order)
    BY <2>0, <2>3, AdvanceSound DEF Backed
  <2>4. CASE \E k \in old : plan = Outcome(Stop(k), [p EXCEPT !.phase = "retiring_old"])
    <3>1. PICK k \in old : plan = Outcome(Stop(k), [p EXCEPT !.phase = "retiring_old"])
      BY <2>4
    <3>2. plan.act = Stop(k) /\ plan.next = [p EXCEPT !.phase = "retiring_old"]
      BY <3>1, OutcomeFields
    <3>3. /\ IsProgress(plan.next) /\ plan.next.phase = "retiring_old"
          /\ plan.next.strategy = p.strategy /\ plan.next.target = p.target
          /\ plan.next.instance = p.instance
      BY <1>0, <3>2 DEF IsProgress
    <3>4. Exists(k) /\ k # p.instance
      BY <2>0, <1>2 DEF OldOn, Drifted, Updated, Managed, Backed, Exists
    <3>5. Backed(plan.next) /\ Spares(p, k) /\ Spares(plan.next, k)
      BY <1>2, <2>0, <3>3, <3>4 DEF Backed, UnderWay, Spares
    <3> QED BY <3>2, <3>4, <3>5, ActFields DEF Sound
  <2> QED BY <1>2, <2>1, <2>2, <2>3, <2>4 DEF Rolling
<1>3. CASE p.phase = "retiring_old"
  <2>0. UnderWay(p)
    BY <1>3 DEF UnderWay, Phases
  <2>1. CASE plan = Outcome(NoAct, p)
    BY <2>1, OutcomeFields, ActFields DEF Sound
  <2>2. CASE plan \in Advance(p, Managed, order)
    BY <2>0, <2>2, AdvanceSound DEF Backed
  <2> QED BY <1>3, <2>1, <2>2 DEF Rolling
<1>4. CASE p.phase \notin Phases
  BY <1>4, FinishSound DEF Rolling, Phases
<1> QED BY <1>1, <1>2, <1>3, <1>4 DEF Phases

(* An immediate update stops whatever it likes: it promises nothing. *)
LEMMA ImmediateSound ==
  ASSUME NEW p, p # NoProgress, p.strategy # "rolling", Backed(p), NEW order,
         NEW plan \in Immediate(p, Managed, order)
  PROVE  Sound(plan, p)
<1>1. IsProgress(p) /\ ~UnderWay(p)
  BY DEF Backed, UnderWay
<1>2. CASE plan \in Finish \union Hold(p)
  BY <1>2, FinishSound, HoldSound
<1>3. CASE \E k \in Drifted(Managed, p.target) : plan = Outcome(Stop(k), p)
  <2>1. PICK k \in Drifted(Managed, p.target) : plan = Outcome(Stop(k), p)
    BY <1>3
  <2>2. Exists(k)
    BY DEF Drifted, Managed, Exists
  <2> QED BY <1>1, <2>1, <2>2, OutcomeFields, ActFields DEF Sound, Spares
<1>4. CASE \E q : plan = Outcome(NoAct, [p EXCEPT !.phase = "creating_replacements", !.pending = q])
  <2>1. PICK q : plan = Outcome(NoAct, [p EXCEPT !.phase = "creating_replacements", !.pending = q])
    BY <1>4
  <2>2. /\ plan.act = NoAct
        /\ plan.next = [p EXCEPT !.phase = "creating_replacements", !.pending = q]
    BY <2>1, OutcomeFields
  <2>3. IsProgress(plan.next) /\ plan.next.phase = "creating_replacements"
        /\ plan.next.strategy = p.strategy
    BY <1>1, <2>2 DEF IsProgress
  <2>4. Backed(plan.next)
    BY <2>3 DEF Backed, UnderWay
  <2> QED BY <2>2, <2>4, ActFields DEF Sound
<1>5. CASE /\ p.phase = "creating_replacements"
           /\ \E h, q : plan = Outcome(Create(h), [p EXCEPT !.pending = q])
  <2>1. PICK h, q : plan = Outcome(Create(h), [p EXCEPT !.pending = q])
    BY <1>5
  <2>2. plan.act = Create(h) /\ plan.next = [p EXCEPT !.pending = q]
    BY <2>1, OutcomeFields
  <2>3. IsProgress(plan.next) /\ plan.next.phase = p.phase /\ plan.next.strategy = p.strategy
    BY <1>1, <2>2 DEF IsProgress
  <2>4. Backed(plan.next) /\ plan.next # NoProgress
    BY <1>5, <2>3 DEF Backed, UnderWay, NoProgress
  <2> QED BY <1>5, <2>2, <2>3, <2>4, ActFields DEF Sound
<1>6. CASE p.phase = "stopping_old"
  <2> DEFINE hosts == p.pending \o Without(order, ToSet(p.pending))
             missing == Missing(Managed, p.target)
             taken == [p EXCEPT !.phase = "creating_replacements", !.pending = Take(hosts, missing)]
  <2>1. Immediate(p, Managed, order) =
          IF Drifted(Managed, p.target) # {}
          THEN {Outcome(Stop(k), p) : k \in Drifted(Managed, p.target)}
          ELSE IF missing <= 0 THEN Finish
          ELSE IF hosts = <<>> THEN Hold(p)
          ELSE {Outcome(NoAct, taken)}
    BY <1>6 DEF Immediate
  <2>2. plan = Outcome(NoAct, taken) => \E q : plan = Outcome(NoAct, [p EXCEPT
                                          !.phase = "creating_replacements", !.pending = q])
    OBVIOUS
  <2> HIDE DEF hosts, missing, taken
  <2> QED BY <1>2, <1>3, <1>4, <2>1, <2>2
<1>7. CASE p.phase # "stopping_old"
  BY <1>2, <1>5, <1>7 DEF Immediate
<1> QED BY <1>6, <1>7

(* How a strategy begins: there are old instances, and the version is the   *)
(* last one.                                                                *)
LEMMA InitiateSound ==
  ASSUME MaxEdits <= 1, Inv, NEW i \in Intent, i.strategy = intent.strategy,
         i.version <= intent.version,
         \A k \in Slots : inst[k] # NoInst => inst[k].version <= i.version,
         NEW order, Initiate(i, Managed, order) # NoProgress
  PROVE  Backed(Initiate(i, Managed, order)) /\ i.version = MaxEdits
<1> DEFINE p == Initiate(i, Managed, order)
<1>1. PICK k \in Drifted(Managed, i.version) : TRUE
  BY DEF Initiate
<1>2. k \in Slots /\ inst[k] # NoInst /\ inst[k].version # i.version /\ inst[k].version \in Nat
  BY RolloutAssumption DEF Drifted, Updated, Managed, Inv, HostsOK, IsInst, Versions
<1>3. i.version = MaxEdits
  BY <1>2, RolloutAssumption DEF Intent, Versions
<1>4. \A phase : /\ IsProgress(Begins(i, phase)) /\ Begins(i, phase).phase = phase
                 /\ Begins(i, phase).strategy = i.strategy
                 /\ Begins(i, phase).target = i.version /\ Begins(i, phase).instance = 0
  BY DEF Begins, IsProgress
<1>5. CASE i.strategy = "rolling"
  <2>1. PICK b : b = Begins(i, "creating_replacement")
    OBVIOUS
  <2>2. PICK h, q : p = [b EXCEPT !.host = h, !.pending = q]
    BY <1>5, <2>1 DEF Initiate, RollingInit
  <2>3. /\ IsProgress(b) /\ b.phase = "creating_replacement" /\ b.strategy = i.strategy
        /\ b.target = i.version /\ b.instance = 0
    BY <1>4, <2>1
  <2> HIDE DEF p
  <2>4. /\ IsProgress(p) /\ p.phase = "creating_replacement" /\ p.strategy = i.strategy
        /\ p.target = i.version /\ p.instance = 0
    BY <2>2, <2>3 DEF IsProgress
  <2>5. Managed # {}
    BY <1>2 DEF Managed
  <2>6. Backed(p)
    BY <1>3, <2>4, <2>5 DEF Backed
  <2> QED BY <1>3, <2>6 DEF p
<1>6. CASE i.strategy # "rolling"
  <2>1. PICK q : p = [Begins(i, "stopping_old") EXCEPT !.pending = q]
    BY <1>6 DEF Initiate, ImmediateInit
  <2>2. IsProgress(p) /\ p.phase = "stopping_old" /\ p.strategy = i.strategy
    BY <1>4, <2>1 DEF IsProgress
  <2> QED BY <1>3, <1>6, <2>2 DEF Backed, UnderWay
<1> QED BY <1>5, <1>6

(* The ordinary path, outside a strategy. *)
LEMMA DiffSound ==
  ASSUME NEW i \in Intent, NEW order, NEW act \in Diff(i, Managed, order)
  PROVE  /\ Sound(Outcome(act, NoProgress), NoProgress)
         /\ i.phase = "deleting" => act.type = "stop"
<1>1. Broken(Managed) \ Drifted(Managed, i.version) \subseteq Managed /\ Broken(Managed) \subseteq Managed
  BY DEF Broken
<1>2. \/ \E k \in Managed : act = Stop(k)
      \/ i.phase # "deleting" /\ \E k \in Managed : act = Recreate(k)
      \/ i.phase # "deleting" /\ \E h : act = Create(h)
  BY <1>1 DEF Diff
<1>3. /\ IsAct(act) /\ act.type \in {"stop", "create", "recreate"}
      /\ act.type \in {"stop", "recreate"} => act.slot \in Managed
      /\ i.phase = "deleting" => act.type = "stop"
  BY <1>2, ActFields
<1> QED BY <1>3, OutcomeFields, NoProgressFields DEF Sound, Spares, Managed, Exists

--------------------------------------------------------------------------------
(* The steps of a pass. *)

(* A step that changes nothing that a promise is about keeps it. *)
LEMMA BackedKept ==
  ASSUME NEW p, Backed(p), UNCHANGED inst, intent'.strategy = intent.strategy
  PROVE  Backed(p)'
BY DEF Backed, Managed, Exists, UnderWay

LEMMA InitInv == Init => Inv
<1> SUFFICES ASSUME Init PROVE Inv
  OBVIOUS
<1>1. intent \in Intent /\ intent.version = 0 /\ intent.phase = "live"
  BY RolloutAssumption DEF Init, Intent, Versions
<1>2. RowOK
  BY <1>1, NoProgressFields, RolloutAssumption DEF Init, RowOK
<1>3. PICK f : inst = [k \in Slots |-> IF k \in 1..Replicas
                         THEN [host |-> f[k], version |-> 0, state |-> "running"] ELSE NoInst]
  BY DEF Init
<1>4. HostsOK
  <2> SUFFICES ASSUME NEW k \in Slots
               PROVE  inst[k] = NoInst \/ (IsInst(inst[k]) /\ inst[k].version <= intent.version)
    BY <1>3 DEF HostsOK
  <2>1. ASSUME NEW h, NEW x, x = [host |-> h, version |-> 0, state |-> "running"]
        PROVE  IsInst(x) /\ x.version = 0
    BY <2>1, RolloutAssumption DEF IsInst, Versions, States
  <2> QED BY <1>1, <1>3, <2>1
<1> QED BY <1>1, <1>2, <1>4 DEF Init, Inv

LEMMA BeginInv == ASSUME Inv, Begin PROVE Inv'
<1>1. IsJob(job') /\ job'.intent = intent /\ job'.progress = progress
  BY ActFields DEF Begin, IsJob, Inv, RowOK
<1>2. RowOK' /\ HostsOK' /\ Managed' = Managed
  BY BackedKept DEF Begin, Inv, RowOK, HostsOK, Managed
<1>3. Passing'
  BY <1>1, RolloutAssumption DEF Begin, Passing, Inv, RowOK, HostsOK, Intent, Versions
<1> QED BY <1>2, <1>3 DEF Begin, Inv

LEMMA SettleRefreshInv == ASSUME Inv, SettleRefresh PROVE Inv'
<1>1. RowOK' /\ HostsOK' /\ Managed' = Managed
  BY BackedKept DEF SettleRefresh, Inv, RowOK, HostsOK, Managed
<1>2. Passing /\ intent.phase = "live" /\ job.intent.phase = "live"
  BY DEF SettleRefresh, Inv, Passing, IsJob, RowOK, Intent
<1>3. pc' = "status" /\ job' = [job EXCEPT !.some = Managed # {}]
  BY <1>2 DEF SettleRefresh
<1>4. /\ IsJob(job') /\ job'.intent = job.intent /\ job'.progress = job.progress
      /\ job'.next = NoProgress /\ job'.act = NoAct
  BY <1>2, <1>3 DEF Passing, IsJob, SettleRefresh
<1>5. Decided'
  BY <1>2, <1>3, <1>4, ActFields, NoProgressFields DEF Decided, Backed
<1>6. Passing'
  BY <1>2, <1>4, <1>5, <1>3 DEF Passing, SettleRefresh
<1> QED BY <1>1, <1>2, <1>3, <1>6 DEF Inv, SettleRefresh

(* What a pass makes of its observation. *)
Plans(i, order) ==
  LET begun == IF i.phase = "deleting" THEN NoProgress ELSE Initiate(i, Managed, order)
      acts == Diff(i, Managed, order) IN
  IF InStrategy THEN Continue(job.progress, Managed, order)
  ELSE IF begun # NoProgress THEN {Outcome(NoAct, begun)}
  ELSE IF acts = {} THEN Finish
  ELSE {Outcome(a, NoProgress) : a \in acts}

LEMMA PlansSound ==
  ASSUME MaxEdits <= 1, "immediate" \notin Deletable \/ intent.strategy = "rolling",
         Inv, Passing,
         NEW i \in Intent, i.strategy = intent.strategy, i.version <= intent.version,
         job.intent.version <= i.version, i.phase = "deleting" => intent.phase = "deleting",
         NEW order, NEW plan \in Plans(i, order)
  PROVE  /\ Sound(plan, progress)
         /\ plan.act.type = "create" /\ i.phase = "deleting" => Managed # {}
         /\ plan.next # NoProgress => intent.version = MaxEdits
<1>0. /\ i.version \in Nat /\ intent.version \in Nat /\ job.intent.version \in Nat
      /\ intent.version <= MaxEdits
  BY RolloutAssumption DEF Inv, RowOK, Intent, Versions, Passing, IsJob
<1>1. CASE InStrategy
  <2>1. progress # NoProgress /\ job.progress = progress /\ Backed(progress)
        /\ intent.version = MaxEdits
    BY <1>1 DEF InStrategy, Passing, Inv, RowOK
  <2>2. CASE progress.strategy = "rolling"
    <3>1. plan \in Rolling(progress, Managed, order)
      BY <1>1, <2>1, <2>2 DEF Plans, Continue
    <3> QED BY <2>1, <2>2, <3>1, RollingSound
  <2>3. CASE progress.strategy # "rolling"
    <3>1. plan \in Immediate(progress, Managed, order)
      BY <1>1, <2>1, <2>3 DEF Plans, Continue
    <3>2. i.phase # "deleting"
      BY <2>1, <2>3, RolloutAssumption DEF Backed, Inv, RowOK
    <3> QED BY <2>1, <2>3, <3>1, <3>2, ImmediateSound
  <2> QED BY <2>2, <2>3
<1>2. CASE ~InStrategy
  <2>0. progress = NoProgress
    BY <1>2 DEF InStrategy, Passing
  <2>1. CASE plan \in Finish
    BY <2>1, FinishSound
  <2>2. CASE /\ Initiate(i, Managed, order) # NoProgress
             /\ plan = Outcome(NoAct, Initiate(i, Managed, order))
    <3>1. \A k \in Slots : inst[k] # NoInst => inst[k].version <= i.version
      BY <1>0, RolloutAssumption DEF Passing, Inv, HostsOK, IsInst, Versions
    <3>2. Backed(Initiate(i, Managed, order)) /\ i.version = MaxEdits
      BY <2>2, <3>1, InitiateSound
    <3> QED BY <1>0, <2>2, <3>2, OutcomeFields, ActFields DEF Sound
  <2>3. CASE \E a \in Diff(i, Managed, order) : plan = Outcome(a, NoProgress)
    BY <2>0, <2>3, DiffSound, OutcomeFields
  <2> QED BY <1>2, <2>1, <2>2, <2>3 DEF Plans
<1> QED BY <1>1, <1>2

LEMMA ObserveInv ==
  ASSUME MaxEdits <= 1, "immediate" \notin Deletable \/ intent.strategy = "rolling",
         Inv, Observe
  PROVE  Inv'
<1> DEFINE i == IF settle THEN intent ELSE job.intent
<1>1. Passing /\ pc = "observe" /\ UNCHANGED <<intent, progress, inst, edits>>
  BY DEF Observe, Inv
<1>2. RowOK' /\ HostsOK' /\ Managed' = Managed
  BY <1>1, BackedKept DEF Inv, RowOK, HostsOK, Managed
<1>3. /\ i \in Intent /\ i.strategy = intent.strategy /\ i.version <= intent.version
      /\ job.intent.version <= i.version
      /\ i.phase = "deleting" => intent.phase = "deleting"
      /\ i.phase # "deleted"
  <2>1. job.intent.version \in Nat /\ intent.version \in Nat
    BY <1>1, RolloutAssumption DEF Passing, IsJob, Inv, RowOK, Intent, Versions
  <2> QED BY <1>1, <2>1 DEF Passing, IsJob, Inv, RowOK, Observe
<1>4. PICK order, plan :
        /\ plan \in Plans(i, order)
        /\ job' = [[job EXCEPT !.intent = i, !.some = Managed # {}]
                     EXCEPT !.act = plan.act, !.next = plan.next]
        /\ pc' = Entry(plan.act)
  BY DEF Observe, Plans
<1> HIDE DEF i
<1>5. /\ Sound(plan, progress)
      /\ plan.act.type = "create" /\ i.phase = "deleting" => Managed # {}
      /\ plan.next # NoProgress => intent.version = MaxEdits
  BY <1>1, <1>3, <1>4, PlansSound
<1>6. /\ IsJob(job') /\ job'.intent = i /\ job'.progress = progress
      /\ job'.act = plan.act /\ job'.next = plan.next /\ job'.some = (Managed # {})
  BY <1>1, <1>3, <1>4, <1>5 DEF Passing, IsJob, Sound
<1>7. /\ pc' \in {"status", "start", "stop", "create"}
      /\ plan.act.type = "none" <=> pc' = "status"
      /\ plan.act.type = "recreate" <=> pc' = "start"
      /\ plan.act.type = "stop" <=> pc' = "stop"
      /\ plan.act.type = "create" <=> pc' = "create"
  BY <1>4, <1>5 DEF Entry, Sound
<1>8. Decided'
  <2>1. Backed(job.next)'
    BY <1>1, <1>5, <1>6 DEF Sound, Backed, Managed, Exists, UnderWay
  <2>2. (job.intent.phase = "deleting" /\ ~job.some => Managed = {} /\ pc = "status")'
    <3>1. ASSUME Managed = {}, i.phase = "deleting"
          PROVE  pc' = "status"
      BY <1>5, <1>7, <3>1 DEF Sound, Exists, Managed
    <3> QED BY <1>2, <1>6, <3>1
  <2>3. pc' \in {"stop", "start"} =>
          /\ Exists(job.act.slot)' /\ Spares(progress, job.act.slot)'
          /\ Spares(job.next, job.act.slot)'
    BY <1>1, <1>5, <1>6, <1>7 DEF Sound, Exists, Spares, UnderWay
  <2> QED BY <1>1, <1>5, <1>6, <1>7, <2>1, <2>2, <2>3 DEF Decided, Sound
<1>9. Passing'
  <2>1. progress # NoProgress => i.version = MaxEdits
    BY <1>1, <1>3, RolloutAssumption DEF Passing, IsJob, Inv, RowOK, Intent, Versions
  <2>2. \A k \in Slots : inst[k] # NoInst => inst[k].version <= i.version
    BY <1>1, <1>3, RolloutAssumption DEF Passing, IsJob, Inv, HostsOK, IsInst, Intent, Versions
  <2> QED BY <1>1, <1>3, <1>6, <1>7, <1>8, <2>1, <2>2 DEF Passing
<1> QED BY <1>1, <1>2, <1>7, <1>9 DEF Inv, Passing

(* The hosts: an instance changes its state. *)
SameFleet ==
  /\ HostsOK'
  /\ \A k \in Slots : /\ inst'[k] = NoInst <=> inst[k] = NoInst
                      /\ inst[k] # NoInst => inst'[k].version = inst[k].version

LEMMA NoInstIsNone == ASSUME NEW x, IsInst(x) PROVE x # NoInst
BY DEF IsInst, NoInst, States

LEMMA StateChanged ==
  ASSUME Inv, NEW k, Exists(k), NEW s \in States,
         HostSets(k, [inst[k] EXCEPT !.state = s]), UNCHANGED intent
  PROVE  SameFleet
<1> DEFINE v == [inst[k] EXCEPT !.state = s]
<1>1. IsInst(inst[k]) /\ inst[k].version <= intent.version /\ k \in Slots
  BY DEF Inv, HostsOK, Exists
<1>2. IsInst(v) /\ v.version = inst[k].version
  BY <1>1 DEF IsInst
<1>3. inst' = [inst EXCEPT ![k] = v]
  BY DEF HostSets
<1> HIDE DEF v
<1>4. inst'[k] = v /\ \A l \in Slots \ {k} : inst'[l] = inst[l]
  BY <1>1, <1>3 DEF Inv, HostsOK
<1>5. inst' = [l \in Slots |-> inst'[l]]
  BY <1>3 DEF Inv, HostsOK
<1>6. HostsOK'
  BY <1>1, <1>2, <1>4, <1>5 DEF Inv, HostsOK
<1> QED BY <1>1, <1>2, <1>4, <1>6, NoInstIsNone DEF SameFleet

LEMMA SameFleetKeeps ==
  ASSUME SameFleet, UNCHANGED intent
  PROVE  /\ Managed' = Managed
         /\ \A k : Exists(k) => Exists(k)' /\ inst'[k].version = inst[k].version
         /\ \A p : Backed(p) => Backed(p)'
<1>1. Managed' = Managed
  BY DEF SameFleet, Managed
<1>2. \A k : Exists(k) => Exists(k)' /\ inst'[k].version = inst[k].version
  BY DEF SameFleet, Exists
<1>3. ASSUME NEW p, Backed(p)
      PROVE  Backed(p)'
  <2>1. UnderWay(p)' = UnderWay(p)
    BY DEF UnderWay
  <2>2. ASSUME UnderWay(p)
        PROVE  /\ p.target = MaxEdits
               /\ Managed' # {}
               /\ p.phase # "creating_replacement" \/ p.instance # 0 =>
                    Exists(p.instance)' /\ inst'[p.instance].version = MaxEdits
    BY <1>1, <1>2, <1>3, <2>2 DEF Backed
  <2> QED BY <1>3, <2>1, <2>2 DEF Backed
<1> QED BY <1>1, <1>2, <1>3

(* An instance is deleted, or made. *)
LEMMA Deleted ==
  ASSUME Inv, NEW k, Exists(k), HostSets(k, NoInst), UNCHANGED intent
  PROVE  /\ HostsOK'
         /\ \A j \in Slots : inst'[j] # NoInst => inst'[j] = inst[j]
         /\ Managed' \subseteq Managed
         /\ \A p : Backed(p) /\ Spares(p, k) => Backed(p)'
<1>1. /\ k \in Slots /\ inst'[k] = NoInst /\ \A l \in Slots \ {k} : inst'[l] = inst[l]
      /\ inst' = [l \in Slots |-> inst'[l]]
  BY DEF HostSets, Exists, Inv, HostsOK
<1>2. HostsOK' /\ \A j \in Slots : inst'[j] # NoInst => inst'[j] = inst[j]
  BY <1>1 DEF Inv, HostsOK
<1>3. Managed' \subseteq Managed
  BY <1>1 DEF Managed
<1>4. ASSUME NEW p, Backed(p), Spares(p, k)
      PROVE  Backed(p)'
  <2>1. UnderWay(p)' = UnderWay(p)
    BY DEF UnderWay
  <2>2. ASSUME UnderWay(p)
        PROVE  Exists(p.instance)' /\ inst'[p.instance].version = MaxEdits
    BY <1>1, <1>4, <2>2 DEF Backed, Spares, Exists
  <2>3. ASSUME UnderWay(p)
        PROVE  Managed' # {}
    BY <2>2, <2>3 DEF Exists, Managed
  <2> QED BY <1>4, <2>1, <2>2, <2>3 DEF Backed
<1> QED BY <1>2, <1>3, <1>4

LEMMA Created ==
  ASSUME Inv, NEW k \in Slots, inst[k] = NoInst, NEW v, IsInst(v), v.version <= intent.version,
         HostSets(k, v), UNCHANGED intent
  PROVE  /\ HostsOK' /\ inst'[k] = v /\ v # NoInst
         /\ \A j \in Slots \ {k} : inst'[j] = inst[j]
         /\ \A p : Backed(p) => Backed(p)'
<1>1. /\ inst'[k] = v /\ v # NoInst /\ \A l \in Slots \ {k} : inst'[l] = inst[l]
      /\ inst' = [l \in Slots |-> inst'[l]]
  BY NoInstIsNone DEF HostSets, Inv, HostsOK
<1>2. HostsOK'
  BY <1>1 DEF Inv, HostsOK
<1>3. ASSUME NEW p, Backed(p)
      PROVE  Backed(p)'
  <2>1. UnderWay(p)' = UnderWay(p) /\ Managed' # {}
    BY <1>1 DEF UnderWay, Managed
  <2>2. Exists(p.instance) => Exists(p.instance)' /\ inst'[p.instance] = inst[p.instance]
    BY <1>1 DEF Exists
  <2> QED BY <1>3, <2>1, <2>2 DEF Backed
<1> QED BY <1>1, <1>2, <1>3

(* A step of the pass on the hosts: the row stays as it is. *)
LEMMA PassInv ==
  ASSUME Inv, Passing, UNCHANGED <<row, edits>>, HostsOK', Backed(progress)',
         pc' \in {"stop", "delete", "create", "start", "status"},
         IsJob(job'), job'.intent = job.intent, job'.progress = job.progress,
         \A k \in Slots : inst'[k] # NoInst => inst'[k].version <= job.intent.version,
         Decided'
  PROVE  Inv'
<1>1. RowOK'
  BY DEF Inv, RowOK, row
<1>2. Passing'
  BY DEF Passing, row
<1>3. intent'.phase # "deleted"
  BY DEF Passing, row
<1> QED BY <1>1, <1>2, <1>3 DEF Inv

LEMMA StopInstanceInv == ASSUME Inv, StopInstance PROVE Inv'
<1> DEFINE k == job.act.slot
<1>1. Passing /\ Decided /\ pc = "stop" /\ Exists(k) /\ job' = job /\ UNCHANGED <<row, edits>>
  BY DEF StopInstance, Proceeds, Fails, Inv, Passing, Decided
<1>2. SameFleet
  <2>1. UNCHANGED inst \/ HostSets(k, [inst[k] EXCEPT !.state = "stopped"])
    BY DEF StopInstance
  <2>2. "stopped" \in States
    BY DEF States
  <2>3. CASE UNCHANGED inst
    BY <1>1, <2>3 DEF SameFleet, Inv, HostsOK, row
  <2> QED BY <1>1, <2>1, <2>2, <2>3, StateChanged DEF row
<1>3. /\ Managed' = Managed
      /\ \A l : Exists(l) => Exists(l)' /\ inst'[l].version = inst[l].version
      /\ \A p : Backed(p) => Backed(p)'
  BY <1>1, <1>2, SameFleetKeeps DEF row
<1>4. pc' \in {"delete", "status"}
  BY DEF StopInstance, Proceeds, Fails
<1>5. ~(job.intent.phase = "deleting" /\ ~job.some)
  BY <1>1 DEF Decided
<1>6. Backed(progress)' /\ Backed(job.next)'
  BY <1>1, <1>3 DEF Inv, RowOK, Decided, row
<1>7. Decided'
  BY <1>1, <1>3, <1>4, <1>5, <1>6 DEF Decided, Spares, UnderWay, row
<1>8. \A l \in Slots : inst'[l] # NoInst => inst'[l].version <= job.intent.version
  BY <1>1, <1>2 DEF SameFleet, Passing
<1> QED BY <1>1, <1>2, <1>4, <1>6, <1>7, <1>8, PassInv DEF SameFleet, Passing

LEMMA DeleteInstanceInv == ASSUME Inv, DeleteInstance PROVE Inv'
<1> DEFINE k == job.act.slot
<1>1. /\ Passing /\ Decided /\ pc = "delete" /\ pc' = "status" /\ Exists(k) /\ job' = job
      /\ UNCHANGED <<row, edits>>
  BY DEF DeleteInstance, Succeeds, Fails, Inv, Passing, Decided
<1>2. Spares(progress, k) /\ Spares(job.next, k) /\ Backed(progress) /\ Backed(job.next)
  BY <1>1 DEF Decided, Inv, RowOK
<1>3. /\ HostsOK' /\ Backed(progress)' /\ Backed(job.next)'
      /\ \A j \in Slots : inst'[j] # NoInst => inst[j] # NoInst /\ inst'[j] = inst[j]
  <2>1. CASE UNCHANGED inst
    BY <1>1, <1>2, <2>1, BackedKept DEF Inv, HostsOK, row
  <2>2. CASE HostSets(k, NoInst)
    <3>1. \A p : Backed(p) /\ Spares(p, k) => Backed(p)'
      BY <1>1, <2>2, Deleted DEF row
    <3>2. Backed(progress)' /\ Backed(job.next)'
      BY <1>1, <1>2, <3>1 DEF row
    <3>3. HostsOK' /\ \A j \in Slots : inst'[j] # NoInst => inst'[j] = inst[j]
      BY <1>1, <2>2, Deleted DEF row
    <3> QED BY <3>2, <3>3
  <2> QED BY <2>1, <2>2 DEF DeleteInstance
<1>4. Decided'
  BY <1>1, <1>3 DEF Decided, row
<1>5. \A j \in Slots : inst'[j] # NoInst => inst'[j].version <= job.intent.version
  BY <1>1, <1>3 DEF Passing
<1> QED BY <1>1, <1>3, <1>4, <1>5, PassInv DEF Passing

LEMMA CreateInstanceInv == ASSUME Inv, CreateInstance PROVE Inv'
<1>1. /\ Passing /\ Decided /\ pc = "create" /\ UNCHANGED <<row, edits>>
      /\ Backed(progress) /\ Backed(job.next)
      /\ job.act.type # "recreate" /\ ~(job.intent.phase = "deleting" /\ ~job.some)
  BY DEF CreateInstance, Inv, Passing, Decided, RowOK
<1>2. PICK k \in Free :
        LET new == [host |-> job.act.host, version |-> job.intent.version,
                    state |-> "stopped"] IN
        \/ HostSets(k, new) /\ job' = [job EXCEPT !.act.slot = k] /\ pc' = "start"
        \/ job' = job /\ pc' = "status" /\ (HostSets(k, new) \/ UNCHANGED inst)
  BY DEF CreateInstance, Fails
<1> DEFINE new == [host |-> job.act.host, version |-> job.intent.version, state |-> "stopped"]
<1>3. k \in Slots /\ inst[k] = NoInst
  BY DEF Free
<1>4. IsInst(new) /\ new.version = job.intent.version /\ new.version <= intent.version
  BY <1>1 DEF IsInst, States, Passing, IsJob, Intent
<1>5. \/ HostSets(k, new) /\ job' = [job EXCEPT !.act.slot = k] /\ pc' = "start"
      \/ job' = job /\ pc' = "status" /\ (HostSets(k, new) \/ UNCHANGED inst)
  BY <1>2
<1> HIDE DEF new
<1>6. job.intent.version \in Nat
  BY <1>1, RolloutAssumption DEF Passing, IsJob, Intent, Versions
<1>7. ASSUME HostSets(k, new)
      PROVE  /\ HostsOK' /\ inst'[k] = new /\ new # NoInst
             /\ \A p : Backed(p) => Backed(p)'
             /\ \A j \in Slots : inst'[j] # NoInst => inst'[j].version <= job.intent.version
  <2>1. /\ HostsOK' /\ inst'[k] = new /\ new # NoInst
        /\ \A j \in Slots \ {k} : inst'[j] = inst[j]
        /\ \A p : Backed(p) => Backed(p)'
    BY <1>1, <1>3, <1>4, <1>7, Created DEF row
  <2>2. \A j \in Slots : inst'[j] # NoInst => inst'[j].version <= job.intent.version
    BY <1>1, <1>4, <1>6, <2>1 DEF Passing
  <2> QED BY <1>1, <2>1, <2>2
<1>8. CASE HostSets(k, new) /\ job' = [job EXCEPT !.act.slot = k] /\ pc' = "start"
  <2>1. /\ IsJob(job') /\ job'.intent = job.intent /\ job'.progress = job.progress
        /\ job'.next = job.next /\ job'.some = job.some
        /\ job'.act.type = job.act.type /\ job'.act.slot = k
    BY <1>1, <1>8 DEF Passing, IsJob, IsAct
  <2>2. Backed(progress)' /\ Backed(job.next)'
    BY <1>1, <1>7, <1>8, <2>1 DEF row
  <2>3. Exists(job.act.slot)' /\ inst'[job'.act.slot].version = job.intent.version
    BY <1>3, <1>4, <1>7, <1>8, <2>1 DEF Exists
  <2>4. Decided'
    BY <1>1, <1>8, <2>1, <2>2, <2>3 DEF Decided, Passing, row
  <2> QED BY <1>1, <1>7, <1>8, <2>1, <2>2, <2>4, PassInv
<1>9. CASE job' = job /\ pc' = "status" /\ (HostSets(k, new) \/ UNCHANGED inst)
  <2>1. /\ HostsOK' /\ Backed(progress)' /\ Backed(job.next)'
        /\ \A j \in Slots : inst'[j] # NoInst => inst'[j].version <= job.intent.version
    <3>1. CASE UNCHANGED inst
      BY <1>1, <1>9, <3>1, BackedKept DEF Inv, HostsOK, Passing, row
    <3>2. CASE HostSets(k, new)
      BY <1>1, <1>7, <1>9, <3>2 DEF row
    <3> QED BY <1>9, <3>1, <3>2
  <2>2. Decided'
    BY <1>1, <1>9, <2>1 DEF Decided, row
  <2> QED BY <1>1, <1>9, <2>1, <2>2, PassInv DEF Passing
<1> QED BY <1>5, <1>8, <1>9

LEMMA StartInstanceInv == ASSUME Inv, StartInstance PROVE Inv'
<1> DEFINE k == job.act.slot
           s == IF inst[k].state = "running" THEN inst[k].state ELSE "starting"
<1>1. /\ Passing /\ Decided /\ pc = "start" /\ Exists(k) /\ UNCHANGED <<row, edits>>
      /\ Backed(progress) /\ Backed(job.next)
      /\ ~(job.intent.phase = "deleting" /\ ~job.some)
  BY DEF StartInstance, Inv, Passing, Decided, RowOK
<1>2. SameFleet
  <2>1. UNCHANGED inst \/ HostSets(k, [inst[k] EXCEPT !.state = s])
    BY DEF StartInstance
  <2>2. s \in States
    BY DEF States
  <2>3. CASE UNCHANGED inst
    BY <1>1, <2>3 DEF SameFleet, Inv, HostsOK, row
  <2> QED BY <1>1, <2>1, <2>2, <2>3, StateChanged DEF row
<1>3. /\ Managed' = Managed
      /\ \A l : Exists(l) => Exists(l)' /\ inst'[l].version = inst[l].version
      /\ \A p : Backed(p) => Backed(p)'
  BY <1>1, <1>2, SameFleetKeeps DEF row
<1>4. \A l \in Slots : inst'[l] # NoInst => inst'[l].version <= job.intent.version
  BY <1>1, <1>2 DEF SameFleet, Passing
<1>5. Backed(progress)' /\ HostsOK'
  BY <1>1, <1>2, <1>3 DEF SameFleet, row
<1>6. CASE job' = job /\ (pc' = "status" \/ (pc' = "delete" /\ job.act.type = "recreate"))
  <2>1. Backed(job.next)'
    BY <1>1, <1>3, <1>6
  <2>2. Decided'
    BY <1>1, <1>3, <1>6, <2>1 DEF Decided, Spares, UnderWay, row
  <2> QED BY <1>1, <1>4, <1>5, <1>6, <2>2, PassInv DEF Passing
<1>7. CASE pc' = "status" /\ job' = [job EXCEPT !.some = TRUE]
  <2>1. /\ IsJob(job') /\ job'.intent = job.intent /\ job'.progress = job.progress
        /\ job'.next = job.next /\ job'.act = job.act /\ job'.some = TRUE
    BY <1>1, <1>7 DEF Passing, IsJob
  <2>2. Backed(job.next)'
    BY <1>1, <1>3, <2>1
  <2>3. Decided'
    BY <1>1, <1>7, <2>1, <2>2 DEF Decided, row
  <2> QED BY <1>1, <1>4, <1>5, <1>7, <2>1, <2>3, PassInv
<1>8. CASE /\ pc' = "status" /\ job' = [job EXCEPT !.next.instance = k]
           /\ progress # NoProgress
  <2>1. /\ job.next # NoProgress /\ IsProgress(job.next) /\ job.next.phase # "none"
        /\ job.next.phase \notin {"waiting_healthy", "retiring_old"}
        /\ inst[k].version = MaxEdits
    BY <1>1, <1>8 DEF Decided, Backed
  <2>2. /\ IsJob(job') /\ job'.intent = job.intent /\ job'.progress = job.progress
        /\ job'.next = [job.next EXCEPT !.instance = k] /\ job'.act = job.act
        /\ job'.some = job.some
    BY <1>1, <1>8 DEF Passing, IsJob
  <2>0. PICK n : n = [job.next EXCEPT !.instance = k]
    OBVIOUS
  <2>3. /\ IsProgress(n) /\ n.phase = job.next.phase /\ n.strategy = job.next.strategy
        /\ n.target = job.next.target /\ n.instance = k
    BY <2>0, <2>1 DEF IsProgress
  <2>4. Managed' # {} /\ Exists(k) /\ inst'[k].version = MaxEdits /\ k \in Slots /\ inst'[k] # NoInst
    BY <1>1, <1>3, <2>1 DEF Exists, Managed
  <2>5. UnderWay(n) => UnderWay(job.next)
    BY <2>1, <2>3, NoProgressFields DEF UnderWay
  <2>6. Backed(n)'
    BY <1>1, <2>1, <2>3, <2>4, <2>5 DEF Backed, Exists, UnderWay, row
  <2>7. job'.next = n /\ n # NoProgress /\ Backed(job.next)'
    BY <2>0, <2>1, <2>2, <2>3, <2>6, NoProgressFields
  <2>8. Decided'
    BY <1>1, <1>8, <2>1, <2>2, <2>7 DEF Decided, row
  <2> QED BY <1>1, <1>4, <1>5, <1>8, <2>2, <2>8, PassInv
<1> QED BY <1>1, <1>6, <1>7, <1>8 DEF StartInstance, Fails, Proceeds, InStrategy, Passing

LEMMA WriteStatusInv == ASSUME Inv, WriteStatus PROVE Inv'
<1>1. /\ Passing /\ Decided /\ pc' = "idle" /\ UNCHANGED <<inst, edits>>
      /\ progress' = job.next
  BY DEF WriteStatus, Inv, Passing
<1>2. /\ intent' \in Intent /\ intent'.strategy = intent.strategy
      /\ intent'.version = intent.version
      /\ intent'.phase # "live" => intent.phase # "live"
      /\ intent'.phase = "deleted" => Managed = {}
  <2>1. CASE intent' = intent
    BY <1>1, <2>1 DEF Inv, RowOK
  <2>2. CASE /\ intent' = [intent EXCEPT !.phase = "deleted"]
             /\ job.intent.phase = "deleting" /\ ~job.some
    BY <1>1, <2>2 DEF Inv, RowOK, Intent, Decided, Passing
  <2> QED BY <2>1, <2>2 DEF WriteStatus
<1>3. Backed(progress)'
  BY <1>1, <1>2 DEF Decided, Backed, Managed, Exists, UnderWay
<1>4. RowOK'
  BY <1>1, <1>2, <1>3 DEF Inv, RowOK, Decided
<1>5. HostsOK' /\ Managed' = Managed
  BY <1>1, <1>2 DEF Inv, HostsOK, Managed
<1> QED BY <1>1, <1>2, <1>4, <1>5 DEF Inv

--------------------------------------------------------------------------------
(* The end of a pass, time, the hosts, and those who change the row. *)

LEMMA NoPassInv ==
  ASSUME Inv, pc' = "idle", UNCHANGED <<row, inst, edits>>
  PROVE  Inv'
<1>1. RowOK' /\ HostsOK' /\ Managed' = Managed
  BY BackedKept DEF Inv, RowOK, HostsOK, Managed, row
<1> QED BY <1>1 DEF Inv, row

LEMMA FleetInv ==
  ASSUME Inv, SameFleet, UNCHANGED <<row, pc, job, edits>>
  PROVE  Inv'
<1>1. /\ Managed' = Managed
      /\ \A k : Exists(k) => Exists(k)' /\ inst'[k].version = inst[k].version
      /\ \A p : Backed(p) => Backed(p)'
  BY SameFleetKeeps DEF row
<1>2. HostsOK' /\ RowOK'
  BY <1>1 DEF SameFleet, Inv, RowOK, row
<1>3. ASSUME Passing, pc # "observe"
      PROVE  Decided'
  <2>1. Decided /\ Backed(job.next)'
    BY <1>1, <1>3 DEF Passing, Decided
  <2> QED BY <1>1, <2>1 DEF Decided, Spares, UnderWay, row
<1>4. Passing => Passing'
  BY <1>3 DEF Passing, SameFleet, row
<1> QED BY <1>1, <1>2, <1>4 DEF Inv, row

LEMMA TimeInv == ASSUME Inv, UNCHANGED <<row, inst, pc, job, edits>> PROVE Inv'
<1>1. SameFleet
  BY DEF SameFleet, Inv, HostsOK, row
<1> QED BY <1>1, FleetInv

LEMMA HostInv == ASSUME Inv, NEW k \in Slots, Boot(k) \/ Break(k) PROVE Inv'
<1>1. Exists(k)
  BY DEF Boot, Break, Exists, NoInst
<1>2. SameFleet
  BY <1>1, StateChanged DEF Boot, Break, States, row
<1> QED BY <1>2, FleetInv DEF Boot, Break

(* While a strategy is under way, or about to be, the version is the last. *)
LEMMA RetargetInv == ASSUME Inv, Retarget PROVE Inv'
<1>1. /\ intent \in Intent /\ intent.version \in Nat /\ edits \in Nat
      /\ intent.version + edits = MaxEdits /\ edits > 0
      /\ MaxEdits \in Nat
  BY RolloutAssumption DEF Inv, RowOK, Intent, Versions, Retarget
<1>2. progress = NoProgress /\ intent.version # MaxEdits
  BY <1>1 DEF Inv, RowOK
<1>3. /\ intent' \in Intent /\ intent'.version = intent.version + 1
      /\ intent'.strategy = intent.strategy /\ intent'.phase = intent.phase
      /\ edits' = edits - 1
      /\ UNCHANGED <<progress, inst, pc, job>>
  BY <1>1 DEF Retarget, Intent, Versions
<1>4. RowOK'
  BY <1>1, <1>2, <1>3, NoProgressFields, RolloutAssumption DEF RowOK, Inv, Backed
<1>5. HostsOK' /\ Managed' = Managed
  BY <1>1, <1>3, RolloutAssumption DEF Inv, HostsOK, Managed, IsInst, Versions
<1>6. ASSUME Passing
      PROVE  Passing'
  <2>1. job.intent.version <= intent'.version
    BY <1>1, <1>3, <1>6, RolloutAssumption DEF Passing, IsJob, Intent, Versions
  <2>2. job.next = NoProgress
    BY <1>2, <1>6 DEF Passing, Decided
  <2>3. pc # "observe" => Decided'
    BY <1>2, <1>3, <1>5, <1>6, <2>2, NoProgressFields DEF Passing, Decided, Backed, Spares,
       UnderWay, Exists
  <2> QED BY <1>2, <1>3, <1>6, <2>1, <2>3 DEF Passing
<1> QED BY <1>3, <1>4, <1>5, <1>6 DEF Inv

LEMMA DeleteInv == ASSUME Inv, Delete PROVE Inv'
<1>1. /\ intent' \in Intent /\ intent'.version = intent.version
      /\ intent'.strategy = intent.strategy /\ intent'.phase = "deleting"
      /\ intent.phase = "live" /\ intent.strategy \in Deletable
      /\ UNCHANGED <<progress, inst, pc, job, edits>>
  BY DEF Delete, Inv, RowOK, Intent
<1>2. /\ HostsOK' /\ Managed' = Managed
      /\ \A p : Backed(p) => Backed(p)'
  <2>1. ASSUME NEW p, Backed(p) PROVE Backed(p)'
    BY <1>1, <2>1, BackedKept
  <2> QED BY <1>1, <2>1 DEF Inv, HostsOK, Managed
<1>3. RowOK'
  BY <1>1, <1>2 DEF Inv, RowOK
<1>4. Passing => Passing'
  BY <1>1, <1>2 DEF Passing, Decided, Spares, UnderWay, Exists
<1> QED BY <1>1, <1>2, <1>3, <1>4 DEF Inv

LEMMA NextInv ==
  ASSUME MaxEdits <= 1, "immediate" \notin Deletable \/ intent.strategy = "rolling",
         Inv, [Next]_vars
  PROVE  Inv'
<1>1. CASE Step
  BY <1>1, BeginInv, SettleRefreshInv, ObserveInv, StopInstanceInv, DeleteInstanceInv,
     CreateInstanceInv, StartInstanceInv, WriteStatusInv DEF Step
<1>2. CASE PassFails \/ Crash
  BY <1>2, NoPassInv DEF PassFails, Crash, Forget
<1>3. CASE EndBackoff \/ EndSettle \/ Age
  BY <1>3, TimeInv DEF EndBackoff, EndSettle, Age
<1>4. CASE \E k \in Slots : Boot(k) \/ Break(k)
  BY <1>4, HostInv
<1>5. CASE Retarget \/ Delete
  BY <1>5, RetargetInv, DeleteInv
<1>6. CASE UNCHANGED vars
  BY <1>6, TimeInv DEF vars, row
<1> QED BY <1>1, <1>2, <1>3, <1>4, <1>5, <1>6 DEF Next

(* A rolling update that a deletion overtakes: update_status retires the    *)
(* intent only when no instance is left on any host, whichever actions of   *)
(* the strategy fail, time out or are cut off, and whenever the process     *)
(* dies.  Both premises are needed: an immediate update retires the intent  *)
(* in the pass that creates a replacement (the run rollout_delete), and a   *)
(* second change of model_source under way makes the rolling update retire  *)
(* its own replacement, and then create another in the pass that found none.*)
THEOREM NothingLeaks ==
  ASSUME MaxEdits <= 1, "immediate" \notin Deletable
  PROVE  Spec => []NoLeak
<1>1. Inv => NoLeak
  BY DEF Inv, NoLeak, Managed
<1>2. Inv /\ [Next]_vars => Inv'
  BY NextInv
<1> QED BY <1>1, <1>2, InitInv, PTL DEF Spec

--------------------------------------------------------------------------------
(* A rolling update does not cost service.  Two more things are invariant:  *)
(* where the instances are (Sited), so that the replica a pass stops has    *)
(* another one on its host, and, as long as no fault has happened, that all *)
(* but the awaited replacement run (Calm).                                  *)

(* The replacement that is awaited is on the host of the replica it replaces. *)
Placed(p) == UnderWay(p) /\ p.instance # 0 => inst[p.instance].host = p.host

Doubled(k) == \E j \in Managed \ {k} : inst[j].host = inst[k].host

(* Where the pass's instances are, and whether the one it stops is needed. *)
Sited ==
  /\ Placed(progress)
  /\ pc \notin {"idle", "observe"} => Placed(job.next)
  /\ pc = "create" /\ UnderWay(job.next) => job.act.host = job.next.host
  /\ pc = "start" /\ UnderWay(job.next) => inst[job.act.slot].host = job.next.host
  /\ pc = "stop" /\ intent.phase = "live" =>
       Cardinality(Managed) > Replicas \/ Doubled(job.act.slot)
  /\ pc = "delete" /\ job.act.type # "recreate" => inst[job.act.slot].state = "stopped"

Undisturbed == intent.phase = "live" /\ budget = MaxFaults

(* What the pass, once it has observed, will write. *)
Plan == IF pc \in {"idle", "observe"} THEN progress ELSE job.next

Awaited(p) == IF p # NoProgress /\ p.phase \in {"creating_replacement", "waiting_healthy"}
              THEN {p.instance} ELSE {}

AtWork(k) == pc \in {"start", "delete"} /\ k = job.act.slot

(* Undisturbed, only the awaited replacement is not running, and the others *)
(* that run are as many as were asked for, and one more before a stop.      *)
Calm ==
  /\ ~aged /\ ~settle
  /\ progress # NoProgress => progress.phase \in Phases
  /\ Plan # NoProgress => Plan.phase \in Phases
  /\ \A k \in Managed :
       \/ inst[k].state = "running"
       \/ inst[k].state = "starting" /\ k \in Awaited(Plan)
       \/ inst[k].state = "stopped" /\ AtWork(k)
  /\ Cardinality(Serving \ Awaited(Plan)) >= Replicas
  /\ pc = "stop" => Cardinality(Serving \ Awaited(Plan)) > Replicas
  /\ pc \notin {"idle", "observe"} => job.act.type \in {"none", "stop", "create"}
  /\ pc \in {"create", "start"} => InStrategy /\ job.next.instance = 0
  /\ pc = "start" => inst[job.act.slot].state = "stopped" /\ job.act.slot # progress.instance

--------------------------------------------------------------------------------
(* What a pass of a rolling update may plan. *)

(* The replacement is up, or none was made yet. *)
Ready(p) ==
  /\ p.phase = "creating_replacement" => p.instance = 0
  /\ p.phase = "waiting_healthy" => inst[p.instance].state = "running"

Ends(plan) == plan.act = NoAct /\ plan.next = NoProgress

Creates(plan) ==
  /\ IsAct(plan.act) /\ plan.act.type = "create" /\ plan.act.host = plan.next.host
  /\ plan.next # NoProgress
  /\ plan.next.phase = "creating_replacement" /\ plan.next.instance = 0

Waits(plan, p) ==
  /\ plan.act = NoAct
  /\ IsProgress(plan.next) /\ plan.next # NoProgress
  /\ plan.next.phase \in {"waiting_healthy", "retiring_old"}
  /\ plan.next.instance = p.instance /\ plan.next.host = p.host
  /\ Awaited(plan.next) = Awaited(p)

Retires(plan, p) ==
  /\ p.phase = "waiting_healthy"
  /\ \E k \in Managed : plan.act = Stop(k) /\ inst[k].host = p.host /\ inst[k].version # p.target
  /\ IsProgress(plan.next) /\ plan.next # NoProgress
  /\ plan.next.phase = "retiring_old"
  /\ plan.next.instance = p.instance /\ plan.next.host = p.host

Holds(plan) ==
  /\ aged
  /\ plan.act = NoAct
  /\ IsProgress(plan.next) /\ plan.next # NoProgress /\ plan.next.phase = "failed"

LEMMA FinishEnds == ASSUME NEW plan \in Finish PROVE Ends(plan)
BY OutcomeFields DEF Finish, Ends

LEMMA AdvancePlans ==
  ASSUME NEW p, IsProgress(p), NEW S, NEW order, NEW plan \in Advance(p, S, order)
  PROVE  Ends(plan) \/ Creates(plan)
<1>1. CASE plan \in Finish
  BY <1>1, FinishEnds
<1>2. CASE \E h, q : plan = Outcome(Create(h), [p EXCEPT !.phase = "creating_replacement",
                                   !.host = h, !.instance = 0, !.pending = q])
  <2>1. PICK h, q : plan = Outcome(Create(h), [p EXCEPT !.phase = "creating_replacement",
                                   !.host = h, !.instance = 0, !.pending = q])
    BY <1>2
  <2>2. plan.act = Create(h) /\ plan.next = [p EXCEPT !.phase = "creating_replacement",
                                   !.host = h, !.instance = 0, !.pending = q]
    BY <2>1, OutcomeFields
  <2>3. /\ IsProgress(plan.next) /\ plan.next.phase = "creating_replacement"
        /\ plan.next.instance = 0 /\ plan.next.host = h
    BY <2>2 DEF IsProgress
  <2>4. plan.next # NoProgress
    BY <2>3, NoProgressFields
  <2>5. plan.act.host = h
    BY <2>2 DEF Create
  <2> QED BY <2>2, <2>3, <2>4, <2>5, ActFields DEF Creates
<1> QED BY <1>1, <1>2 DEF Advance

LEMMA RollingPlans ==
  ASSUME NEW p, p # NoProgress, IsProgress(p), p.phase \in Phases, NEW order,
         NEW plan \in Rolling(p, Managed, order)
  PROVE  \/ Ready(p) /\ Ends(plan)
         \/ Ready(p) /\ Creates(plan)
         \/ Waits(plan, p)
         \/ Ready(p) /\ Retires(plan, p)
         \/ Holds(plan)
<1> DEFINE old == OldOn(Managed, p.host, p.target)
<1>1. CASE p.phase = "creating_replacement"
  <2>1. CASE plan = Outcome(Create(p.host), p) /\ p.instance = 0
    <3>1. plan.act = Create(p.host) /\ plan.next = p
      BY <2>1, OutcomeFields
    <3>2. plan.act.host = p.host
      BY <3>1 DEF Create
    <3> QED BY <1>1, <2>1, <3>1, <3>2, ActFields DEF Creates, Ready
  <2>2. CASE plan = Outcome(NoAct, [p EXCEPT !.phase = "waiting_healthy"]) /\ p.instance # 0
    <3>1. /\ plan.act = NoAct
          /\ plan.next = [p EXCEPT !.phase = "waiting_healthy"]
      BY <2>2, OutcomeFields
    <3>2. /\ IsProgress(plan.next) /\ plan.next.phase = "waiting_healthy"
          /\ plan.next.instance = p.instance /\ plan.next.host = p.host
      BY <3>1 DEF IsProgress
    <3>3. plan.next # NoProgress
      BY <3>2, NoProgressFields
    <3> QED BY <1>1, <3>1, <3>2, <3>3 DEF Waits, Awaited
  <2> QED BY <1>1, <2>1, <2>2 DEF Rolling
<1>2. CASE p.phase = "waiting_healthy"
  <2>1. CASE aged /\ plan \in Hold(p)
    <3>1. plan.act = NoAct /\ plan.next = [p EXCEPT !.phase = "failed"]
      BY <2>1, OutcomeFields DEF Hold
    <3>2. IsProgress(plan.next) /\ plan.next.phase = "failed"
      BY <3>1 DEF IsProgress
    <3> QED BY <2>1, <3>1, <3>2, NoProgressFields DEF Holds
  <2>2. CASE plan = Outcome(NoAct, p)
    BY <1>2, <2>2, OutcomeFields DEF Waits
  <2>3. CASE Healthy(Managed, p.instance) /\ plan \in Advance(p, Managed, order)
    BY <1>2, <2>3, AdvancePlans DEF Ready, Healthy
  <2>4. CASE /\ Healthy(Managed, p.instance)
             /\ \E k \in old : plan = Outcome(Stop(k), [p EXCEPT !.phase = "retiring_old"])
    <3>1. PICK k \in old : plan = Outcome(Stop(k), [p EXCEPT !.phase = "retiring_old"])
      BY <2>4
    <3>2. plan.act = Stop(k) /\ plan.next = [p EXCEPT !.phase = "retiring_old"]
      BY <3>1, OutcomeFields
    <3>3. /\ IsProgress(plan.next) /\ plan.next.phase = "retiring_old"
          /\ plan.next.instance = p.instance /\ plan.next.host = p.host
      BY <3>2 DEF IsProgress
    <3>4. k \in Managed /\ inst[k].host = p.host /\ inst[k].version # p.target
      BY DEF OldOn, Drifted, Updated
    <3>5. plan.next # NoProgress
      BY <3>3, NoProgressFields
    <3>6. Retires(plan, p)
      BY <1>2, <3>2, <3>3, <3>4, <3>5 DEF Retires
    <3> QED BY <1>2, <2>4, <3>6 DEF Ready, Healthy
  <2> QED BY <1>2, <2>1, <2>2, <2>3, <2>4 DEF Rolling
<1>3. CASE p.phase = "retiring_old"
  <2>1. CASE plan = Outcome(NoAct, p)
    BY <1>3, <2>1, OutcomeFields DEF Waits
  <2>2. CASE plan \in Advance(p, Managed, order)
    BY <1>3, <2>2, AdvancePlans DEF Ready
  <2> QED BY <1>3, <2>1, <2>2 DEF Rolling
<1> QED BY <1>1, <1>2, <1>3 DEF Phases

(* What the ordinary path may do about a live intent. *)
LEMMA DiffPlans ==
  ASSUME NEW i, i.phase # "deleting", NEW order, NEW act \in Diff(i, Managed, order)
  PROVE  \/ Cardinality(Managed) > Replicas /\ \E k \in Managed : act = Stop(k)
         \/ \E k \in Broken(Managed) : act = Recreate(k)
         \/ Cardinality(Managed) < Replicas /\ \E h : act = Create(h)
<1>1. Broken(Managed) \subseteq Managed
  BY DEF Broken
<1>2. CASE Cardinality(Managed) > Replicas
  BY <1>1, <1>2 DEF Diff
<1>3. CASE ~(Cardinality(Managed) > Replicas)
  BY <1>3 DEF Diff
<1> QED BY <1>2, <1>3

(* A rolling update begins with the creation of its first replacement. *)
LEMMA InitiateCreates ==
  ASSUME NEW i, i.strategy = "rolling", NEW order,
         NEW p, p = Initiate(i, Managed, order), p # NoProgress
  PROVE  IsProgress(p) /\ p.phase = "creating_replacement" /\ p.instance = 0
<1>1. PICK b : b = Begins(i, "creating_replacement")
  OBVIOUS
<1>2. IsProgress(b) /\ b.phase = "creating_replacement" /\ b.instance = 0
  BY <1>1 DEF Begins, IsProgress
<1>3. PICK h, q : p = [b EXCEPT !.host = h, !.pending = q]
  BY <1>1 DEF Initiate, RollingInit
<1> QED BY <1>2, <1>3 DEF IsProgress

(* The hosts under a step that makes no instance disappear. *)
SitesKept == \A k : Exists(k) => inst'[k] # NoInst /\ inst'[k].host = inst[k].host

LEMMA PlacedStays ==
  ASSUME NEW p, Backed(p), Placed(p), SitesKept
  PROVE  Placed(p)'
<1> SUFFICES ASSUME UnderWay(p), p.instance # 0
             PROVE  inst'[p.instance].host = p.host
  BY DEF Placed, UnderWay
<1>1. Exists(p.instance)
  BY DEF Backed
<1> QED BY <1>1 DEF Placed, SitesKept

LEMMA SameSites ==
  ASSUME UNCHANGED inst
  PROVE  SitesKept /\ Managed' = Managed /\ Serving' = Serving
BY DEF SitesKept, Managed, Exists, Serving

(* An instance changes its state and stays where it is. *)
LEMMA StateOnly ==
  ASSUME Inv, NEW k, Exists(k), NEW s, HostSets(k, [inst[k] EXCEPT !.state = s])
  PROVE  /\ SitesKept
         /\ Managed' = Managed
         /\ inst'[k].state = s /\ inst'[k].host = inst[k].host
         /\ \A l \in Slots \ {k} : inst'[l] = inst[l]
<1>1. IsInst(inst[k]) /\ k \in Slots
  BY DEF Inv, HostsOK, Exists
<1> DEFINE v == [inst[k] EXCEPT !.state = s]
<1>2. v.state = s /\ v.host = inst[k].host /\ v.version = inst[k].version /\ v # NoInst
  BY <1>1 DEF IsInst, NoInst
<1>3. inst' = [inst EXCEPT ![k] = v]
  BY DEF HostSets
<1> HIDE DEF v
<1>4. inst'[k] = v /\ \A l \in Slots \ {k} : inst'[l] = inst[l]
  BY <1>1, <1>3 DEF Inv, HostsOK
<1>5. \A l \in Slots : inst'[l] = NoInst <=> inst[l] = NoInst
  BY <1>1, <1>2, <1>4 DEF Exists
<1>6. Managed' = Managed
  BY <1>5 DEF Managed
<1>7. SitesKept
  BY <1>2, <1>4 DEF SitesKept, Exists
<1> QED BY <1>2, <1>4, <1>6, <1>7

(* Counting instances. *)
LEMMA SlotsFinite ==
  /\ IsFiniteSet(Managed) /\ IsFiniteSet(Serving)
  /\ \A S : S \subseteq Slots => IsFiniteSet(S) /\ Cardinality(S) \in Nat
  /\ \A S, T : S \subseteq T /\ T \subseteq Slots => Cardinality(S) <= Cardinality(T)
<1>1. IsFiniteSet(Slots)
  BY RolloutAssumption
<1>2. ASSUME NEW S, S \subseteq Slots
      PROVE  IsFiniteSet(S) /\ Cardinality(S) \in Nat
  BY <1>1, <1>2, FS_Subset, FS_CardinalityType
<1>3. ASSUME NEW S, NEW T, S \subseteq T, T \subseteq Slots
      PROVE  Cardinality(S) <= Cardinality(T)
  BY <1>2, <1>3, FS_Subset
<1>4. Managed \subseteq Slots /\ Serving \subseteq Slots
  BY DEF Managed, Serving
<1> QED BY <1>2, <1>3, <1>4

LEMMA CountMore ==
  ASSUME NEW S, NEW T, S \subseteq T, T \subseteq Slots, NEW n \in Nat, Cardinality(S) >= n
  PROVE  Cardinality(T) >= n
<1>1. Cardinality(S) \in Nat /\ Cardinality(T) \in Nat /\ Cardinality(S) <= Cardinality(T)
  BY SlotsFinite
<1> QED BY <1>1

LEMMA CountOne ==
  ASSUME NEW T, T \subseteq Slots, NEW k \in T, NEW n \in Nat, Cardinality(T \ {k}) >= n
  PROVE  Cardinality(T) > n
<1>1. IsFiniteSet(T) /\ Cardinality(T) \in Nat
  BY SlotsFinite
<1>2. Cardinality(T \ {k}) = Cardinality(T) - 1
  BY <1>1, FS_RemoveElement
<1> QED BY <1>1, <1>2

LEMMA CountLess ==
  ASSUME NEW T, T \subseteq Slots, NEW k, NEW n \in Nat, Cardinality(T) > n
  PROVE  Cardinality(T \ {k}) >= n
<1>1. IsFiniteSet(T) /\ Cardinality(T) \in Nat
  BY SlotsFinite
<1>2. CASE k \in T
  <2>1. Cardinality(T \ {k}) = Cardinality(T) - 1
    BY <1>1, <1>2, FS_RemoveElement
  <2> QED BY <1>1, <2>1
<1>3. CASE k \notin T
  <2>1. T \ {k} = T
    BY <1>3
  <2> QED BY <1>1, <2>1
<1> QED BY <1>2, <1>3

--------------------------------------------------------------------------------
(* Where the instances are. *)

(* What Sited says of a pass that observed and plans. *)
SitedPlan(plan, live) ==
  /\ plan.act.type \in {"none", "stop", "create", "recreate"}
  /\ Placed(plan.next)
  /\ plan.act.type = "recreate" => plan.next = NoProgress
  /\ plan.act.type = "create" /\ UnderWay(plan.next) => plan.act.host = plan.next.host
  /\ plan.act.type = "stop" /\ live =>
       Cardinality(Managed) > Replicas \/ Doubled(plan.act.slot)

LEMMA NoneSited ==
  ASSUME NEW plan, NEW live, plan.act = NoAct,
         plan.next = NoProgress \/ plan.next.phase \notin Phases \/ plan.next.instance = 0
  PROVE  SitedPlan(plan, live)
<1>1. plan.act.type = "none"
  BY ActFields
<1> QED BY <1>1 DEF SitedPlan, Placed, UnderWay

LEMMA PlansSited ==
  ASSUME Inv, Passing, intent.strategy = "rolling", Sited,
         NEW i, i.strategy = "rolling", NEW live \in BOOLEAN,
         live => i.phase # "deleting",
         NEW order, NEW plan \in Plans(i, order)
  PROVE  SitedPlan(plan, live)
<1>1. CASE InStrategy
  <2>1. progress # NoProgress /\ job.progress = progress /\ Backed(progress) /\ Placed(progress)
        /\ IsProgress(progress) /\ progress.strategy = "rolling"
    BY <1>1 DEF InStrategy, Passing, Inv, RowOK, Sited, Backed
  <2>2. plan \in Rolling(progress, Managed, order)
    BY <1>1, <2>1 DEF Plans, Continue
  <2>3. CASE progress.phase \notin Phases
    <3>1. Ends(plan)
      BY <2>2, <2>3, FinishEnds DEF Rolling, Phases
    <3> QED BY <3>1, NoneSited DEF Ends
  <2>4. CASE progress.phase \in Phases
    <3>0. UnderWay(progress)
      BY <2>1, <2>4 DEF UnderWay
    <3>1. CASE Ends(plan)
      BY <3>1, NoneSited DEF Ends
    <3>2. CASE Creates(plan)
      BY <3>2 DEF Creates, SitedPlan, Placed
    <3>3. CASE Waits(plan, progress)
      <4>1. Placed(plan.next)
        BY <2>1, <3>0, <3>3 DEF Waits, Placed
      <4> QED BY <3>3, <4>1, ActFields DEF Waits, SitedPlan
    <3>4. CASE Retires(plan, progress)
      <4>1. Placed(plan.next)
        BY <2>1, <3>0, <3>4 DEF Retires, Placed
      <4>2. PICK k \in Managed : plan.act = Stop(k) /\ inst[k].host = progress.host
                                 /\ inst[k].version # progress.target
        BY <3>4 DEF Retires
      <4>3. /\ Exists(progress.instance) /\ inst[progress.instance].version = progress.target
            /\ progress.instance # 0
        BY <2>1, <3>0, <3>4, NotASlot DEF Retires, Backed, Exists
      <4>4. inst[progress.instance].host = progress.host
        BY <2>1, <3>0, <4>3 DEF Placed
      <4>5. Doubled(k)
        BY <4>2, <4>3, <4>4 DEF Doubled, Exists, Managed
      <4> QED BY <4>1, <4>2, <4>5, ActFields DEF SitedPlan
    <3>5. CASE Holds(plan)
      BY <3>5, NoneSited DEF Holds, Phases
    <3> QED BY <2>1, <2>2, <2>4, <3>1, <3>2, <3>3, <3>4, <3>5, RollingPlans
  <2> QED BY <2>3, <2>4
<1>2. CASE ~InStrategy
  <2>1. CASE plan \in Finish
    BY <2>1, FinishEnds, NoneSited DEF Ends
  <2>2. CASE /\ Initiate(i, Managed, order) # NoProgress
             /\ plan = Outcome(NoAct, Initiate(i, Managed, order))
    <3>1. plan.act = NoAct /\ plan.next = Initiate(i, Managed, order)
      BY <2>2, OutcomeFields
    <3>2. plan.next.instance = 0
      BY <2>2, <3>1, InitiateCreates
    <3> QED BY <3>1, <3>2, NoneSited
  <2>3. CASE \E a \in Diff(i, Managed, order) : plan = Outcome(a, NoProgress)
    <3>1. PICK a \in Diff(i, Managed, order) : plan = Outcome(a, NoProgress)
      BY <2>3
    <3>2. plan.act = a /\ plan.next = NoProgress
      BY <3>1, OutcomeFields
    <3>3. a.type = "stop" /\ live => Cardinality(Managed) > Replicas
      BY DiffPlans, ActFields
    <3>4. a.type \in {"stop", "create", "recreate"}
      <4>1. \/ \E k : a = Stop(k)
            \/ \E k : a = Recreate(k)
            \/ \E h : a = Create(h)
        BY DEF Diff
      <4> QED BY <4>1, ActFields
    <3> QED BY <3>2, <3>3, <3>4, NoProgressFields DEF SitedPlan, Placed
  <2> QED BY <1>2, <2>1, <2>2, <2>3 DEF Plans
<1> QED BY <1>1, <1>2

(* A step that leaves the pass where it is and no instance elsewhere. *)
LEMMA SitedStays ==
  ASSUME Inv, Sited, SitesKept, Managed' = Managed, UNCHANGED <<progress, pc, job>>,
         intent'.phase = "live" => intent.phase = "live",
         \A k \in Slots : inst[k].state = "stopped" => inst'[k].state = "stopped",
         pc # "idle" => Passing
  PROVE  Sited'
<1>1. Placed(progress)'
  BY PlacedStays DEF Inv, RowOK, Sited
<1>2. pc \in {"idle", "observe"} => Sited'
  BY <1>1 DEF Sited
<1>3. ASSUME pc \notin {"idle", "observe"}
      PROVE  Sited'
  <2>1. Decided
    BY <1>3 DEF Passing
  <2>2. Placed(job.next)'
    BY <1>3, <2>1, PlacedStays DEF Sited, Decided
  <2>3. pc = "start" /\ UnderWay(job.next) => inst'[job.act.slot].host = job.next.host
    BY <1>3, <2>1 DEF Sited, Decided, SitesKept
  <2>4. \A k : Exists(k) /\ Doubled(k) => Doubled(k)'
    BY DEF Doubled, SitesKept, Managed, Exists
  <2>5. pc = "delete" /\ job.act.type # "recreate" => inst'[job.act.slot].state = "stopped"
    BY <1>3, <2>1 DEF Sited, Decided, Exists
  <2>6. pc = "stop" /\ intent'.phase = "live" =>
          Cardinality(Managed') > Replicas \/ Doubled(job.act.slot)'
    BY <1>3, <2>1, <2>4 DEF Sited, Decided
  <2> QED BY <1>1, <1>3, <2>2, <2>3, <2>5, <2>6 DEF Sited, UnderWay
<1> QED BY <1>2, <1>3

LEMMA SitedEarly ==
  ASSUME Inv, Sited, UNCHANGED <<progress, inst>>, pc' \in {"idle", "observe"}
  PROVE  Sited'
<1>1. Placed(progress)'
  BY DEF Sited, Placed, UnderWay
<1> QED BY <1>1 DEF Sited

LEMMA InitSited == Init => Sited
BY NoProgressFields DEF Init, Sited, Placed

LEMMA ObserveSited ==
  ASSUME Inv, Sited, intent.strategy = "rolling", Observe
  PROVE  Sited'
<1> DEFINE i == IF settle THEN intent ELSE job.intent
           live == intent.phase = "live"
<1>1. Passing /\ pc = "observe" /\ UNCHANGED <<intent, progress, inst>>
  BY DEF Observe, Inv
<1>2. i.strategy = "rolling" /\ (live => i.phase # "deleting")
  BY <1>1 DEF Passing
<1>3. PICK order, plan :
        /\ plan \in Plans(i, order)
        /\ job' = [[job EXCEPT !.intent = i, !.some = Managed # {}]
                     EXCEPT !.act = plan.act, !.next = plan.next]
        /\ pc' = Entry(plan.act)
  BY DEF Observe, Plans
<1> HIDE DEF i
<1>4. SitedPlan(plan, live)
  BY <1>1, <1>2, <1>3, PlansSited
<1>5. job'.act = plan.act /\ job'.next = plan.next
  BY <1>1, <1>3 DEF Passing, IsJob
<1>6. /\ pc' \in {"status", "start", "stop", "create"}
      /\ pc' = "create" => plan.act.type = "create"
      /\ pc' = "stop" => plan.act.type = "stop"
      /\ pc' = "start" => plan.act.type = "recreate"
  BY <1>3, <1>4 DEF Entry, SitedPlan
<1>7. Managed' = Managed /\ Placed(progress)' /\ Placed(plan.next)'
      /\ \A k : Doubled(k) => Doubled(k)'
  BY <1>1, <1>4 DEF Sited, SitedPlan, Placed, UnderWay, Managed, Doubled
<1> QED BY <1>1, <1>4, <1>5, <1>6, <1>7, NoProgressFields DEF Sited, SitedPlan, UnderWay

LEMMA StopInstanceSited == ASSUME Inv, Sited, StopInstance PROVE Sited'
<1> DEFINE k == job.act.slot
<1>1. Passing /\ Decided /\ pc = "stop" /\ Exists(k) /\ job' = job /\ UNCHANGED row
  BY DEF StopInstance, Proceeds, Fails, Inv, Passing, Decided
<1>2. SitesKept /\ (HostSets(k, [inst[k] EXCEPT !.state = "stopped"]) => inst'[k].state = "stopped")
  BY <1>1, SameSites, StateOnly DEF StopInstance
<1>3. Placed(progress)' /\ Placed(job.next)'
  BY <1>1, <1>2, PlacedStays DEF Inv, RowOK, Sited, Decided, row
<1>4. pc' = "status" \/ (pc' = "delete" /\ HostSets(k, [inst[k] EXCEPT !.state = "stopped"]))
  BY DEF StopInstance, Proceeds, Fails
<1> QED BY <1>1, <1>2, <1>3, <1>4 DEF Sited

LEMMA DeleteInstanceSited == ASSUME Inv, Sited, DeleteInstance PROVE Sited'
<1> DEFINE k == job.act.slot
<1>1. /\ Passing /\ Decided /\ pc = "delete" /\ pc' = "status" /\ Exists(k) /\ job' = job
      /\ UNCHANGED row
  BY DEF DeleteInstance, Succeeds, Fails, Inv, Passing, Decided
<1>2. Spares(progress, k) /\ Spares(job.next, k) /\ Backed(progress) /\ Backed(job.next)
      /\ Placed(progress) /\ Placed(job.next)
  BY <1>1 DEF Decided, Inv, RowOK, Sited
<1>3. \A j : Exists(j) /\ j # k => inst'[j] = inst[j]
  BY <1>1 DEF DeleteInstance, HostSets, Inv, HostsOK, Exists
<1>4. ASSUME NEW p, Spares(p, k), Backed(p), Placed(p)
      PROVE  Placed(p)'
  BY <1>3, <1>4 DEF Spares, Backed, Placed, UnderWay
<1>5. Placed(progress)' /\ Placed(job.next)'
  BY <1>1, <1>2, <1>4 DEF row
<1> QED BY <1>1, <1>5 DEF Sited

LEMMA CreateInstanceSited == ASSUME Inv, Sited, CreateInstance PROVE Sited'
<1>1. /\ Passing /\ Decided /\ pc = "create" /\ UNCHANGED row
      /\ Backed(progress) /\ Backed(job.next) /\ Placed(progress) /\ Placed(job.next)
      /\ UnderWay(job.next) => job.act.host = job.next.host
  BY DEF CreateInstance, Inv, Passing, Decided, RowOK, Sited
<1> DEFINE new == [host |-> job.act.host, version |-> job.intent.version, state |-> "stopped"]
<1>2. PICK k \in Free :
        \/ HostSets(k, new) /\ job' = [job EXCEPT !.act.slot = k] /\ pc' = "start"
        \/ job' = job /\ pc' = "status" /\ (HostSets(k, new) \/ UNCHANGED inst)
  BY DEF CreateInstance, Fails
<1>3. k \in Slots /\ inst[k] = NoInst /\ new # NoInst /\ new.host = job.act.host
  BY DEF Free, NoInst
<1> HIDE DEF new
<1>4. HostSets(k, new) => SitesKept /\ inst'[k].host = job.act.host
  BY <1>3 DEF HostSets, SitesKept, Exists, Inv, HostsOK
<1>5. SitesKept
  BY <1>2, <1>4, SameSites
<1>6. \A p : Backed(p) /\ Placed(p) => Placed(p)'
  BY <1>5, PlacedStays
<1>7. CASE HostSets(k, new) /\ job' = [job EXCEPT !.act.slot = k] /\ pc' = "start"
  <2>1. job'.next = job.next /\ job'.act.slot = k
    BY <1>1, <1>7 DEF Passing, IsJob, IsAct
  <2>2. Placed(progress)' /\ Placed(job.next)'
    BY <1>1, <1>6, <2>1 DEF row
  <2> QED BY <1>1, <1>4, <1>7, <2>1, <2>2 DEF Sited, UnderWay
<1>8. CASE job' = job /\ pc' = "status"
  <2>2. Placed(progress)' /\ Placed(job.next)'
    BY <1>1, <1>6, <1>8 DEF row
  <2> QED BY <1>8, <2>2 DEF Sited
<1> QED BY <1>2, <1>7, <1>8

LEMMA StartInstanceSited == ASSUME Inv, Sited, StartInstance PROVE Sited'
<1> DEFINE k == job.act.slot
           s == IF inst[k].state = "running" THEN inst[k].state ELSE "starting"
<1>1. /\ Passing /\ Decided /\ pc = "start" /\ Exists(k) /\ UNCHANGED row
      /\ Backed(progress) /\ Backed(job.next) /\ Placed(progress) /\ Placed(job.next)
      /\ UnderWay(job.next) => inst[k].host = job.next.host
  BY DEF StartInstance, Inv, Passing, Decided, RowOK, Sited
<1>2. SitesKept
  <2>1. UNCHANGED inst \/ HostSets(k, [inst[k] EXCEPT !.state = s])
    BY DEF StartInstance
  <2> HIDE DEF s
  <2> QED BY <1>1, <2>1, SameSites, StateOnly
<1>3. \A p : Backed(p) /\ Placed(p) => Placed(p)'
  BY <1>2, PlacedStays
<1>4. CASE job' = job /\ (pc' = "status" \/ (pc' = "delete" /\ job.act.type = "recreate"))
  <2>1. Placed(progress)' /\ Placed(job.next)'
    BY <1>1, <1>3, <1>4 DEF row
  <2> QED BY <1>4, <2>1 DEF Sited
<1>5. CASE pc' = "status" /\ job' = [job EXCEPT !.some = TRUE]
  <2>1. job'.next = job.next
    BY <1>1, <1>5 DEF Passing, IsJob
  <2>2. Placed(progress)' /\ Placed(job.next)'
    BY <1>1, <1>3, <2>1 DEF row
  <2> QED BY <1>5, <2>2 DEF Sited
<1>6. CASE /\ pc' = "status" /\ job' = [job EXCEPT !.next.instance = k]
           /\ progress # NoProgress
  <2>1. job.next # NoProgress /\ IsProgress(job.next)
    BY <1>1, <1>6 DEF Decided, Backed
  <2>2. job'.next = [job.next EXCEPT !.instance = k]
    BY <1>1, <1>6 DEF Passing, IsJob
  <2>3. PICK n : n = [job.next EXCEPT !.instance = k]
    OBVIOUS
  <2>4. /\ n.phase = job.next.phase /\ n.strategy = job.next.strategy
        /\ n.host = job.next.host /\ n.instance = k
    BY <2>1, <2>3 DEF IsProgress
  <2>5. UnderWay(n) => inst'[k].host = n.host
    BY <1>1, <1>2, <2>1, <2>4 DEF UnderWay, SitesKept
  <2>6. Placed(n)'
    BY <2>4, <2>5 DEF Placed, UnderWay
  <2>7. job'.next = n
    BY <2>2, <2>3
  <2>8. Placed(progress)' /\ Placed(job.next)'
    BY <1>1, <1>3, <2>6, <2>7 DEF row
  <2> QED BY <1>6, <2>8 DEF Sited
<1> QED BY <1>1, <1>4, <1>5, <1>6 DEF StartInstance, Fails, Proceeds, InStrategy, Passing

LEMMA WriteStatusSited == ASSUME Inv, Sited, WriteStatus PROVE Sited'
<1>1. pc' = "idle" /\ inst' = inst /\ progress' = job.next /\ Placed(job.next)
  BY DEF WriteStatus, Inv, Passing, Sited
<1>2. Placed(progress)'
  BY <1>1 DEF Placed, UnderWay
<1> QED BY <1>1, <1>2 DEF Sited

LEMMA HostSited == ASSUME Inv, Sited, NEW k \in Slots, Boot(k) \/ Break(k) PROVE Sited'
<1>1. Exists(k) /\ inst[k].state # "stopped"
  BY DEF Boot, Break, Exists, NoInst
<1>2. SitesKept /\ Managed' = Managed /\ \A l \in Slots \ {k} : inst'[l] = inst[l]
  BY <1>1, StateOnly DEF Boot, Break
<1>3. UNCHANGED <<intent, progress, pc, job>>
  BY DEF Boot, Break, row
<1> QED BY <1>1, <1>2, <1>3, SitedStays DEF Inv

LEMMA NextSited ==
  ASSUME Inv, Sited, intent.strategy = "rolling", [Next]_vars
  PROVE  Sited'
<1>1. CASE Begin \/ PassFails \/ Crash
  BY <1>1, SitedEarly DEF Begin, PassFails, Crash, Forget, row
<1>2. CASE SettleRefresh
  <2>1. job.next = NoProgress /\ Passing /\ IsJob(job)
    BY <1>2 DEF SettleRefresh, Inv, Passing
  <2>2. CASE pc' = "status" /\ job' = [job EXCEPT !.some = Managed # {}]
    <3>1. job'.next = NoProgress
      BY <2>1, <2>2 DEF IsJob
    <3>2. Placed(job.next)' /\ Placed(progress)'
      BY <1>2, <3>1, NoProgressFields DEF Placed, UnderWay, Sited, SettleRefresh
    <3> QED BY <2>2, <3>2 DEF Sited
  <2> QED BY <1>2, <2>2, SitedEarly DEF SettleRefresh
<1>3. CASE Observe
  BY <1>3, ObserveSited
<1>4. CASE StopInstance \/ DeleteInstance \/ CreateInstance \/ StartInstance \/ WriteStatus
  BY <1>4, StopInstanceSited, DeleteInstanceSited, CreateInstanceSited, StartInstanceSited,
     WriteStatusSited
<1>5. CASE EndBackoff \/ EndSettle \/ Age \/ Retarget \/ Delete \/ UNCHANGED vars
  <2>1. UNCHANGED <<progress, inst, pc, job>> /\ (intent'.phase = "live" => intent.phase = "live")
    BY <1>5 DEF EndBackoff, EndSettle, Age, Retarget, Delete, vars, row
  <2> QED BY <2>1, SitedStays, SameSites DEF Inv
<1>6. CASE \E k \in Slots : Boot(k) \/ Break(k)
  BY <1>6, HostSited
<1> QED BY <1>1, <1>2, <1>3, <1>4, <1>5, <1>6 DEF Next, Step

(* What Calm says of a pass that observed and plans. *)
CalmPlan(plan) ==
  /\ plan.act.type \in {"none", "stop", "create"}
  /\ plan.next # NoProgress => plan.next.phase \in Phases
  /\ \A k \in Managed :
       \/ inst[k].state = "running"
       \/ inst[k].state = "starting" /\ k \in Awaited(plan.next)
  /\ Cardinality(Serving \ Awaited(plan.next)) >= Replicas
  /\ plan.act.type = "stop" => Cardinality(Serving \ Awaited(plan.next)) > Replicas
  /\ plan.act.type = "create" => InStrategy /\ plan.next.instance = 0

LEMMA NoneAwaited == Awaited(NoProgress) = {}
BY DEF Awaited

(* All are up, and there is nothing to wait for. *)
LEMMA AllUp ==
  ASSUME NEW p, p # NoProgress, p.phase \in Phases, Ready(p),
         \A k \in Managed : \/ inst[k].state = "running"
                            \/ inst[k].state = "starting" /\ k \in Awaited(p)
  PROVE  \A k \in Managed : inst[k].state = "running"
<1> SUFFICES ASSUME NEW k \in Managed, k \in Awaited(p)
             PROVE  inst[k].state = "running"
  OBVIOUS
<1>1. k = p.instance /\ k # 0
  BY NotASlot DEF Awaited, Managed
<1> QED BY <1>1 DEF Ready, Awaited

LEMMA NextCounts ==
  ASSUME NEW A, NEW B, Serving \cap B = {}, Cardinality(Serving \ A) >= Replicas
  PROVE  Cardinality(Serving \ B) >= Replicas
<1>1. Serving \ A \subseteq Serving \ B /\ Serving \ B \subseteq Slots
  BY DEF Serving, Managed
<1> QED BY <1>1, CountMore, RolloutAssumption

LEMMA PlansCalm ==
  ASSUME Inv, Passing, intent.strategy = "rolling", Calm, pc = "observe",
         NEW i, i.strategy = "rolling", i.phase # "deleting",
         NEW order, NEW plan \in Plans(i, order)
  PROVE  CalmPlan(plan)
<1>0. /\ Plan = progress /\ \A k : ~AtWork(k)
      /\ Replicas \in Nat /\ 0 \notin Serving
  BY RolloutAssumption, NotASlot DEF Plan, AtWork, Serving, Managed
<1>1. /\ \A k \in Managed : \/ inst[k].state = "running"
                            \/ inst[k].state = "starting" /\ k \in Awaited(progress)
      /\ Cardinality(Serving \ Awaited(progress)) >= Replicas
      /\ ~aged
  BY <1>0 DEF Calm
<1>2. CASE InStrategy
  <2>1. progress # NoProgress /\ job.progress = progress /\ IsProgress(progress)
        /\ progress.strategy = "rolling" /\ progress.phase \in Phases
    BY <1>2 DEF InStrategy, Passing, Inv, RowOK, Backed, Calm
  <2>2. plan \in Rolling(progress, Managed, order)
    BY <1>2, <2>1 DEF Plans, Continue
  <2>3. Ready(progress) => \A k \in Managed : inst[k].state = "running"
    BY <1>1, <2>1, AllUp
  <2>4. CASE Ready(progress) /\ Ends(plan)
    <3>1. Cardinality(Serving \ Awaited(plan.next)) >= Replicas
      BY <1>1, <2>4, NoneAwaited, NextCounts DEF Ends
    <3> QED BY <2>3, <2>4, <3>1, ActFields DEF Ends, CalmPlan
  <2>5. CASE Ready(progress) /\ Creates(plan)
    <3>1. Awaited(plan.next) = {0}
      BY <2>5 DEF Creates, Awaited
    <3>2. Cardinality(Serving \ Awaited(plan.next)) >= Replicas
      BY <1>0, <1>1, <3>1, NextCounts
    <3> QED BY <1>2, <2>3, <2>5, <3>2 DEF Creates, CalmPlan, Phases
  <2>6. CASE Waits(plan, progress)
    BY <1>1, <2>6, ActFields DEF Waits, CalmPlan, Phases
  <2>7. CASE Ready(progress) /\ Retires(plan, progress)
    <3>1. Awaited(plan.next) = {} /\ plan.act.type = "stop" /\ plan.next.phase \in Phases
      BY <2>7, ActFields DEF Retires, Awaited, Phases
    <3>2. progress.instance \in Serving
      BY <2>1, <2>7 DEF Inv, RowOK, Backed, UnderWay, Retires, Ready, Exists, Serving, Managed
    <3>3. Awaited(progress) = {progress.instance}
      BY <2>1, <2>7 DEF Retires, Awaited
    <3>4. Cardinality(Serving) > Replicas
      <4>1. Serving \subseteq Slots
        BY DEF Serving, Managed
      <4> QED BY <1>0, <1>1, <3>2, <3>3, <4>1, CountOne
    <3>5. Serving \ Awaited(plan.next) = Serving
      BY <3>1
    <3>6. Cardinality(Serving \ Awaited(plan.next)) >= Replicas
      BY <1>1, <3>1, NextCounts
    <3> QED BY <2>3, <2>7, <3>1, <3>4, <3>5, <3>6 DEF CalmPlan
  <2>8. ~Holds(plan)
    BY <1>1 DEF Holds
  <2> QED BY <2>1, <2>2, <2>4, <2>5, <2>6, <2>7, <2>8, RollingPlans
<1>3. CASE ~InStrategy
  <2>1. progress = NoProgress /\ Awaited(progress) = {}
    BY <1>3, NoneAwaited DEF InStrategy, Passing
  <2>2. \A k \in Managed : inst[k].state = "running"
    BY <1>1, <2>1
  <2>3. Managed = Serving /\ Serving \ {} = Serving /\ Cardinality(Serving) >= Replicas
        /\ Cardinality(Serving) \in Nat
    BY <1>1, <2>1, <2>2, SlotsFinite DEF Serving, Managed
  <2>4. Broken(Managed) = {}
    BY <2>2 DEF Broken
  <2>5. CASE plan \in Finish
    BY <2>2, <2>3, <2>5, FinishEnds, NoneAwaited, ActFields DEF Ends, CalmPlan
  <2>6. CASE /\ Initiate(i, Managed, order) # NoProgress
             /\ plan = Outcome(NoAct, Initiate(i, Managed, order))
    <3>1. plan.act = NoAct /\ plan.next = Initiate(i, Managed, order)
      BY <2>6, OutcomeFields
    <3>2. plan.next.phase = "creating_replacement" /\ plan.next.instance = 0
      BY <2>6, <3>1, InitiateCreates
    <3>3. Awaited(plan.next) \subseteq {0}
      BY <3>2 DEF Awaited
    <3>4. Cardinality(Serving \ Awaited(plan.next)) >= Replicas
      BY <1>0, <1>1, <3>3, NextCounts
    <3> QED BY <2>2, <3>1, <3>2, <3>4, ActFields DEF CalmPlan, Phases
  <2>7. CASE \E a \in Diff(i, Managed, order) : plan = Outcome(a, NoProgress)
    <3>1. PICK a \in Diff(i, Managed, order) : plan = Outcome(a, NoProgress)
      BY <2>7
    <3>2. plan.act = a /\ plan.next = NoProgress
      BY <3>1, OutcomeFields
    <3>3. Cardinality(Managed) > Replicas /\ \E k \in Managed : a = Stop(k)
      BY <1>0, <2>3, <2>4, DiffPlans
    <3>4. a.type = "stop"
      BY <3>3, ActFields
    <3> QED BY <2>2, <2>3, <3>2, <3>3, <3>4, NoneAwaited DEF CalmPlan
  <2> QED BY <1>3, <2>5, <2>6, <2>7 DEF Plans
<1> QED BY <1>2, <1>3

(* A step that no fault disturbs. *)
Quiet == budget \in 0..MaxFaults /\ UNCHANGED budget

LEMMA NothingSpent == ASSUME Quiet PROVE \A kind : ~Spend(kind)
BY RolloutAssumption DEF Quiet, Spend

LEMMA BudgetFalls ==
  ASSUME budget \in 0..MaxFaults, [Next]_vars
  PROVE  budget' \in 0..MaxFaults /\ (budget' = MaxFaults => UNCHANGED budget)
<1>1. UNCHANGED budget \/ (budget > 0 /\ budget' = budget - 1)
  <2>1. CASE Step
    BY <2>1 DEF Step, Begin, SettleRefresh, Observe, StopInstance, DeleteInstance, CreateInstance,
       StartInstance, WriteStatus, Spend
  <2>2. CASE PassFails \/ Crash \/ EndBackoff \/ EndSettle \/ Age
    BY <2>2 DEF PassFails, Crash, EndBackoff, EndSettle, Age, Spend
  <2>3. CASE (\E k \in Slots : Boot(k) \/ Break(k)) \/ Retarget \/ Delete \/ UNCHANGED vars
    BY <2>3 DEF Boot, Break, Retarget, Delete, vars, Spend
  <2> QED BY <2>1, <2>2, <2>3 DEF Next
<1> QED BY <1>1, RolloutAssumption

(* The strategy is not edited, and no phase is left but for a later one. *)
IsRow == intent = [version |-> intent.version, strategy |-> intent.strategy,
                   phase |-> intent.phase]

LEMMA RowMoves ==
  ASSUME IsRow, [Next]_vars
  PROVE  /\ IsRow'
         /\ intent'.strategy = intent.strategy
         /\ intent'.phase = "live" => intent.phase = "live"
<1>1. CASE Begin \/ SettleRefresh \/ Observe \/ StopInstance \/ DeleteInstance \/ CreateInstance
           \/ StartInstance
  BY <1>1 DEF IsRow, Begin, SettleRefresh, Observe, StopInstance, DeleteInstance, CreateInstance,
     StartInstance, row
<1>2. CASE WriteStatus
  BY <1>2 DEF IsRow, WriteStatus
<1>3. CASE PassFails \/ Crash \/ EndBackoff \/ EndSettle \/ Age \/ UNCHANGED vars
  BY <1>3 DEF IsRow, PassFails, Crash, EndBackoff, EndSettle, Age, row, vars
<1>4. CASE (\E k \in Slots : Boot(k) \/ Break(k))
  BY <1>4 DEF IsRow, Boot, Break, row
<1>5. CASE Retarget
  BY <1>5 DEF IsRow, Retarget
<1>6. CASE Delete
  BY <1>6 DEF IsRow, Delete
<1> QED BY <1>1, <1>2, <1>3, <1>4, <1>5, <1>6 DEF IsRow, Next, Step

--------------------------------------------------------------------------------
(* The steps of an undisturbed pass. *)

LEMMA ServingGrows ==
  ASSUME NEW A, NEW T, T \subseteq Slots, Serving \ A \subseteq T,
         Cardinality(Serving \ A) >= Replicas
  PROVE  Cardinality(T) >= Replicas
BY CountMore, RolloutAssumption

LEMMA CalmKept ==
  ASSUME Calm, UNCHANGED <<progress, inst, pc, job, aged, settle>>
  PROVE  Calm'
<1>1. Managed' = Managed /\ Serving' = Serving /\ Plan' = Plan /\ InStrategy' = InStrategy
  BY DEF Managed, Serving, Plan, InStrategy
<1> QED BY <1>1 DEF Calm, AtWork, Awaited

LEMMA BeginCalm == ASSUME Inv, Calm, Begin PROVE Calm'
<1>1. /\ pc = "idle" /\ pc' = "observe" /\ UNCHANGED <<progress, inst, aged, settle>>
  BY DEF Begin
<1>2. Managed' = Managed /\ Serving' = Serving /\ Plan' = progress /\ Plan = progress
  BY <1>1 DEF Managed, Serving, Plan
<1> QED BY <1>1, <1>2 DEF Calm, AtWork, Awaited

LEMMA ObserveCalm ==
  ASSUME Inv, Calm, intent.strategy = "rolling", Undisturbed, Observe
  PROVE  Calm'
<1>1. Passing /\ pc = "observe" /\ ~aged /\ ~settle /\ UNCHANGED <<progress, inst, settle>> /\ ~aged'
  BY DEF Observe, Inv, Calm
<1>2. job.intent.strategy = "rolling" /\ job.intent.phase # "deleting"
  BY <1>1 DEF Passing, Undisturbed
<1>3. PICK order, plan :
        /\ plan \in Plans(job.intent, order)
        /\ job' = [[job EXCEPT !.intent = job.intent, !.some = Managed # {}]
                     EXCEPT !.act = plan.act, !.next = plan.next]
        /\ pc' = Entry(plan.act)
  BY <1>1 DEF Observe, Plans
<1>4. CalmPlan(plan)
  BY <1>1, <1>2, <1>3, PlansCalm
<1>5. job'.act = plan.act /\ job'.next = plan.next /\ job'.progress = job.progress
  BY <1>1, <1>3 DEF Passing, IsJob
<1>6. /\ pc' \in {"status", "stop", "create"}
      /\ pc' = "create" => plan.act.type = "create"
      /\ pc' = "stop" => plan.act.type = "stop"
  BY <1>3, <1>4 DEF Entry, CalmPlan
<1>7. Managed' = Managed /\ Serving' = Serving /\ Plan' = plan.next /\ InStrategy' = InStrategy
  BY <1>1, <1>5, <1>6 DEF Managed, Serving, Plan, InStrategy
<1> QED BY <1>1, <1>4, <1>5, <1>6, <1>7 DEF Calm, CalmPlan, Awaited

LEMMA StopInstanceCalm == ASSUME Inv, Calm, Quiet, StopInstance PROVE Calm'
<1> DEFINE k == job.act.slot
<1>1. /\ Passing /\ Decided /\ pc = "stop" /\ pc' = "delete" /\ Exists(k)
      /\ HostSets(k, [inst[k] EXCEPT !.state = "stopped"])
      /\ UNCHANGED <<progress, job, aged, settle>>
  BY NothingSpent DEF StopInstance, Proceeds, Inv, Passing, Decided, row
<1>2. /\ Managed' = Managed /\ inst'[k].state = "stopped" /\ k \in Slots
      /\ \A l \in Slots \ {k} : inst'[l] = inst[l]
  BY <1>1, StateOnly DEF Exists
<1>3. Plan' = job.next /\ Plan = job.next
  BY <1>1 DEF Plan
<1> DEFINE A == Awaited(Plan)
<1>4. Serving \ A \subseteq Slots /\ (Serving \ A) \ {k} \subseteq Serving' \ A
      /\ Serving' \ A \subseteq Slots
  BY <1>2 DEF Serving, Managed
<1>5. Cardinality(Serving' \ A) >= Replicas
  <2>1. Cardinality(Serving \ A) > Replicas /\ Replicas \in Nat
    BY <1>1, RolloutAssumption DEF Calm
  <2> HIDE DEF A, k
  <2>2. Cardinality((Serving \ A) \ {k}) >= Replicas
    BY <1>4, <2>1, CountLess
  <2> QED BY <1>4, <2>1, <2>2, CountMore
<1> QED BY <1>1, <1>2, <1>3, <1>5 DEF Calm, AtWork, Awaited, Managed

LEMMA DeleteInstanceCalm ==
  ASSUME Inv, Sited, Calm, Quiet, DeleteInstance
  PROVE  Calm'
<1> DEFINE k == job.act.slot
<1>1. /\ Passing /\ Decided /\ pc = "delete" /\ pc' = "status" /\ Exists(k)
      /\ HostSets(k, NoInst)
      /\ UNCHANGED <<progress, job, aged, settle>>
  BY NothingSpent DEF DeleteInstance, Succeeds, Fails, Inv, Passing, Decided, row
<1>2. /\ inst'[k] = NoInst /\ k \in Slots /\ inst[k].state = "stopped"
      /\ \A l \in Slots \ {k} : inst'[l] = inst[l]
  BY <1>1 DEF HostSets, Exists, Inv, HostsOK, Sited, Calm
<1>3. Managed' = Managed \ {k} /\ Serving' = Serving
  BY <1>1, <1>2 DEF Managed, Serving
<1>4. Plan' = job.next /\ Plan = job.next
  BY <1>1 DEF Plan
<1> QED BY <1>1, <1>2, <1>3, <1>4 DEF Calm, AtWork, Awaited, Managed

LEMMA CreateInstanceCalm ==
  ASSUME Inv, Calm, Quiet, intent.strategy = "rolling", CreateInstance
  PROVE  Calm'
<1>1. /\ Passing /\ Decided /\ pc = "create" /\ InStrategy /\ job.next.instance = 0
      /\ job.progress = progress /\ Backed(progress) /\ progress # NoProgress
      /\ UNCHANGED <<progress, aged, settle>>
  BY DEF CreateInstance, Inv, Passing, RowOK, Calm, InStrategy, row, Fails
<1> DEFINE new == [host |-> job.act.host, version |-> job.intent.version, state |-> "stopped"]
<1>2. PICK k \in Free : HostSets(k, new) /\ job' = [job EXCEPT !.act.slot = k] /\ pc' = "start"
                        /\ UNCHANGED settle
  BY NothingSpent DEF CreateInstance
<1>3. k \in Slots /\ inst[k] = NoInst /\ new # NoInst /\ new.state = "stopped"
  BY DEF Free, NoInst
<1> HIDE DEF new
<1>4. inst'[k] = new /\ \A l \in Slots \ {k} : inst'[l] = inst[l]
  BY <1>2, <1>3 DEF HostSets, Inv, HostsOK
<1>5. /\ job'.next = job.next /\ job'.act.slot = k /\ job'.act.type = job.act.type
      /\ job'.progress = job.progress
  BY <1>1, <1>2 DEF Passing, IsJob, IsAct
<1>6. Managed' = Managed \union {k} /\ k \notin Managed
  BY <1>3, <1>4 DEF Managed
<1>7. Serving' = Serving
  BY <1>3, <1>4, <1>6 DEF Serving, Managed
<1>8. Plan' = job.next /\ Plan = job.next
  BY <1>1, <1>2, <1>5 DEF Plan
<1>9. k # progress.instance
  BY <1>1, <1>3, NotASlot DEF Inv, RowOK, Backed, UnderWay, Calm, Exists
<1>10. InStrategy'
  BY <1>1, <1>5 DEF InStrategy
<1>11. \A l \in Managed' : \/ inst'[l].state = "running"
                           \/ inst'[l].state = "starting" /\ l \in Awaited(job.next)
                           \/ inst'[l].state = "stopped" /\ l = k
  BY <1>1, <1>3, <1>4, <1>6, <1>8 DEF Calm, AtWork, Managed
<1> QED BY <1>1, <1>2, <1>3, <1>4, <1>5, <1>7, <1>8, <1>9, <1>10, <1>11 DEF Calm, AtWork, Awaited

LEMMA StartInstanceCalm == ASSUME Inv, Calm, Quiet, StartInstance PROVE Calm'
<1> DEFINE k == job.act.slot
<1>1. /\ Passing /\ Decided /\ pc = "start" /\ pc' = "status" /\ Exists(k) /\ InStrategy
      /\ job.act.type # "recreate" /\ job.next.instance = 0 /\ inst[k].state = "stopped"
      /\ HostSets(k, [inst[k] EXCEPT !.state = IF @ = "running" THEN @ ELSE "starting"])
      /\ job' = [job EXCEPT !.next.instance = k]
      /\ ~settle' /\ UNCHANGED <<progress, aged>>
  BY NothingSpent DEF StartInstance, Inv, Passing, Decided, Calm, row
<1>2. HostSets(k, [inst[k] EXCEPT !.state = "starting"])
  BY <1>1
<1>3. /\ Managed' = Managed /\ inst'[k].state = "starting" /\ k \in Slots
      /\ \A l \in Slots \ {k} : inst'[l] = inst[l]
  BY <1>1, <1>2, StateOnly DEF Exists
<1>4. job.next # NoProgress /\ IsProgress(job.next) /\ job.next.phase = "creating_replacement"
  BY <1>1 DEF Decided, Passing, InStrategy, Backed, Calm, Plan, Phases
<1>5. /\ job'.next = [job.next EXCEPT !.instance = k] /\ job'.act = job.act
      /\ job'.progress = job.progress
  BY <1>1 DEF Passing, IsJob
<1>6. PICK n : n = [job.next EXCEPT !.instance = k]
  OBVIOUS
<1>7. n.phase = "creating_replacement" /\ n.instance = k /\ n # NoProgress
  BY <1>4, <1>6, NoProgressFields DEF IsProgress
<1>8. Plan' = n /\ Plan = job.next
  BY <1>1, <1>5, <1>6 DEF Plan
<1>9. Awaited(n) = {k} /\ Awaited(job.next) = {0}
  BY <1>1, <1>4, <1>7 DEF Awaited
<1>10. Serving' = Serving /\ k \notin Serving
  BY <1>1, <1>3 DEF Serving, Managed
<1>11. Cardinality(Serving' \ Awaited(n)) >= Replicas
  <2>1. Cardinality(Serving \ Awaited(job.next)) >= Replicas
    BY <1>8 DEF Calm
  <2> HIDE DEF k
  <2>2. Cardinality(Serving \ {k}) >= Replicas
    BY <1>10, <2>1, NextCounts
  <2> QED BY <1>9, <1>10, <2>2
<1>12. \A l \in Managed' : \/ inst'[l].state = "running"
                           \/ inst'[l].state = "starting" /\ l \in Awaited(n)
  BY <1>3, <1>8, <1>9, NotASlot DEF Calm, AtWork, Managed
<1> QED BY <1>1, <1>5, <1>7, <1>8, <1>11, <1>12 DEF Calm, Phases, Awaited

LEMMA WriteStatusCalm == ASSUME Inv, Calm, WriteStatus PROVE Calm'
<1>1. /\ pc = "status" /\ pc' = "idle" /\ progress' = job.next /\ UNCHANGED <<inst, aged, settle>>
  BY DEF WriteStatus, Inv, Passing
<1>2. Managed' = Managed /\ Serving' = Serving /\ Plan' = job.next /\ Plan = job.next
  BY <1>1 DEF Managed, Serving, Plan
<1> QED BY <1>1, <1>2 DEF Calm, AtWork, Awaited

LEMMA BootCalm == ASSUME Inv, Calm, NEW k \in Slots, Boot(k) PROVE Calm'
<1>1. Exists(k) /\ inst[k].state = "starting" /\ UNCHANGED <<progress, pc, job, aged, settle>>
  BY DEF Boot, Exists, NoInst, row
<1>2. /\ Managed' = Managed /\ inst'[k].state = "running"
      /\ \A l \in Slots \ {k} : inst'[l] = inst[l]
  BY <1>1, StateOnly DEF Boot
<1>3. Plan' = Plan /\ InStrategy' = InStrategy
  BY <1>1 DEF Plan, InStrategy
<1> DEFINE A == Awaited(Plan)
<1>4. Serving \ A \subseteq Serving' \ A /\ Serving' \ A \subseteq Slots
  BY <1>1, <1>2 DEF Serving, Managed
<1>5. /\ Cardinality(Serving' \ A) >= Replicas
      /\ pc = "stop" => Cardinality(Serving' \ A) > Replicas
  <2> HIDE DEF A
  <2>1. Cardinality(Serving \ A) <= Cardinality(Serving' \ A)
        /\ Cardinality(Serving \ A) \in Nat /\ Cardinality(Serving' \ A) \in Nat
        /\ Replicas \in Nat
    BY <1>4, SlotsFinite, RolloutAssumption
  <2>2. /\ Cardinality(Serving \ A) >= Replicas
        /\ pc = "stop" => Cardinality(Serving \ A) > Replicas
    BY DEF Calm, A
  <2> QED BY <2>1, <2>2
<1>6. pc = "start" => job.act.slot \in Slots \ {k}
  BY <1>1 DEF Calm, Inv, Passing, Decided, Exists
<1> QED BY <1>1, <1>2, <1>3, <1>5, <1>6 DEF Calm, AtWork, Awaited, Managed

(* No timeout strikes: what is awaited exists, and is starting or running. *)
LEMMA NotAging == ASSUME Inv, Calm, intent.strategy = "rolling", Quiet PROVE ~Age
<1> SUFFICES ASSUME Age PROVE FALSE
  OBVIOUS
<1>1. progress # NoProgress /\ progress.phase = "waiting_healthy" /\ Failing(progress.instance)
  BY NothingSpent DEF Age
<1>2. Exists(progress.instance) /\ progress.instance # 0
  BY <1>1, NotASlot DEF Inv, RowOK, Backed, UnderWay, Phases, Exists
<1>3. inst[progress.instance].state = "stopped" /\ AtWork(progress.instance)
  BY <1>1, <1>2 DEF Failing, Exists, Calm, Managed
<1>4. pc = "delete" /\ progress.instance = job.act.slot
  BY <1>3 DEF AtWork, Calm
<1>5. Spares(progress, job.act.slot)
  BY <1>4 DEF Inv, Passing, Decided
<1> QED BY <1>1, <1>4, <1>5 DEF Spares, UnderWay, Phases, Inv, RowOK, Backed

LEMMA NextCalm ==
  ASSUME Inv, Sited, Calm, intent.strategy = "rolling", Undisturbed, Quiet,
         intent'.phase = "live", [Next]_vars
  PROVE  Calm'
<1>1. CASE Step
  <2>1. ~SettleRefresh
    BY DEF SettleRefresh, Calm
  <2> QED BY <1>1, <2>1, BeginCalm, ObserveCalm, StopInstanceCalm, DeleteInstanceCalm,
       CreateInstanceCalm, StartInstanceCalm, WriteStatusCalm DEF Step
<1>2. ~PassFails /\ ~Crash /\ ~Age /\ ~EndSettle /\ \A k \in Slots : ~Break(k)
  BY NothingSpent, NotAging DEF PassFails, Crash, EndSettle, Break, Calm
<1>3. ~Delete
  <2>1. intent = [version |-> intent.version, strategy |-> intent.strategy,
                  phase |-> intent.phase]
    BY DEF Inv, RowOK, Intent
  <2> QED BY <2>1 DEF Delete
<1>4. CASE EndBackoff \/ Retarget \/ UNCHANGED vars
  BY <1>4, CalmKept DEF EndBackoff, Retarget, vars, row
<1>5. CASE \E k \in Slots : Boot(k)
  BY <1>5, BootCalm
<1> QED BY <1>1, <1>2, <1>3, <1>4, <1>5 DEF Next

(* Those that serve or are on their way. *)
Up == Serving \union Arriving

LEMMA HostsAtMost ==
  ASSUME NEW S, S \subseteq Slots
  PROVE  /\ Cardinality(HostsOf(S)) <= Cardinality(S)
         /\ Cardinality(HostsOf(S)) \in Nat
<1> DEFINE T == HostsOf(S)
           f == [k \in S |-> inst[k].host]
<1>1. IsFiniteSet(S)
  BY SlotsFinite
<1>2. f \in Surjection(S, T)
  <2>1. f \in [S -> T] /\ \A t \in T : \E k \in S : f[k] = t
    BY DEF HostsOf
  <2> HIDE DEF f, T
  <2> QED BY <2>1, Fun_IsSurj
<1> HIDE DEF f
<1>3. IsFiniteSet(T) /\ Cardinality(T) <= Cardinality(S)
  <2> HIDE DEF T
  <2> QED BY <1>1, <1>2, FS_Surjection
<1> QED BY <1>3, FS_CardinalityType

(* Only a stop and a deletion take an instance away from those that are up. *)
LEMMA UpGrows ==
  ASSUME Inv, Quiet, [Next]_vars, ~StopInstance, ~DeleteInstance
  PROVE  Serving \subseteq Serving' /\ Up \subseteq Up'
<1>1. CASE UNCHANGED inst
  BY <1>1 DEF Serving, Arriving, Up, Managed
<1>2. CASE \E k \in Slots : Boot(k)
  <2>1. PICK k \in Slots : Boot(k)
    BY <1>2
  <2>2. Exists(k) /\ inst[k].state = "starting"
    BY <2>1 DEF Boot, Exists, NoInst
  <2>3. /\ Managed' = Managed /\ inst'[k].state = "running"
        /\ \A l \in Slots \ {k} : inst'[l] = inst[l]
    BY <2>1, <2>2, StateOnly DEF Boot
  <2> QED BY <2>2, <2>3 DEF Serving, Arriving, Up, Managed
<1>3. CASE CreateInstance
  <2>1. PICK k \in Free : \E new : HostSets(k, new)
    BY <1>3, NothingSpent DEF CreateInstance
  <2>2. k \in Slots /\ inst[k] = NoInst /\ \A l \in Slots \ {k} : inst'[l] = inst[l]
    BY <2>1 DEF HostSets, Free, Inv, HostsOK
  <2> QED BY <2>2 DEF Serving, Arriving, Up, Managed
<1>4. CASE StartInstance
  <2> DEFINE k == job.act.slot
             s == IF inst[k].state = "running" THEN inst[k].state ELSE "starting"
  <2>1. Exists(k) /\ HostSets(k, [inst[k] EXCEPT !.state = s])
    BY <1>4, NothingSpent DEF StartInstance, Inv, Passing, Decided
  <2>2. /\ Managed' = Managed /\ inst'[k].state = s
        /\ \A l \in Slots \ {k} : inst'[l] = inst[l]
    <3> HIDE DEF s
    <3> QED BY <2>1, StateOnly
  <2> QED BY <2>2 DEF Serving, Arriving, Up, Managed
<1>5. \/ UNCHANGED inst
      \/ \E k \in Slots : Boot(k)
      \/ CreateInstance
      \/ StartInstance
  <2>1. CASE Step
    BY <2>1 DEF Step, Begin, SettleRefresh, Observe, WriteStatus
  <2>2. CASE PassFails \/ Crash \/ EndBackoff \/ EndSettle \/ Age \/ Retarget \/ Delete
             \/ UNCHANGED vars
    BY <2>2 DEF PassFails, Crash, EndBackoff, EndSettle, Age, Retarget, Delete, vars
  <2>3. \A k : ~Break(k)
    BY NothingSpent DEF Break
  <2> QED BY <2>1, <2>2, <2>3 DEF Next
<1> QED BY <1>1, <1>2, <1>3, <1>4, <1>5

(* The instance a pass stops is not needed. *)
LEMMA StopSpares ==
  ASSUME Inv, Sited, Quiet, intent.phase = "live", StopInstance
  PROVE  /\ Broken(Managed) = {} /\ Cardinality(HostsOf(Up)) >= Replicas
              => Cardinality(Up') >= Replicas
         /\ Calm => Cardinality(Serving') >= Replicas
<1> DEFINE k == job.act.slot
<1>1. /\ Decided /\ pc = "stop" /\ Exists(k)
      /\ HostSets(k, [inst[k] EXCEPT !.state = "stopped"])
  BY NothingSpent DEF StopInstance, Inv, Passing, Decided
<1>2. /\ Managed' = Managed /\ inst'[k].state = "stopped" /\ k \in Managed
      /\ \A l \in Slots \ {k} : inst'[l] = inst[l]
  BY <1>1, StateOnly DEF Exists, Managed
<1>3. Serving' = Serving \ {k} /\ Up' = Up \ {k}
  BY <1>2 DEF Serving, Arriving, Up, Managed
<1>4. Serving \subseteq Slots /\ Managed \subseteq Slots /\ Replicas \in Nat
  BY RolloutAssumption DEF Serving, Managed
<1>5. Cardinality(Managed) > Replicas \/ Doubled(k)
  BY <1>1 DEF Sited
<1> HIDE DEF k
<1>6. ASSUME Broken(Managed) = {}, Cardinality(HostsOf(Up)) >= Replicas
      PROVE  Cardinality(Up') >= Replicas
  <2>1. Up = Managed
    <3>1. \A l \in Managed : inst[l].state \in {"starting", "running"}
      BY <1>6 DEF Broken, Managed, Inv, HostsOK, IsInst, States
    <3> QED BY <3>1 DEF Up, Serving, Arriving
  <2>2. CASE Cardinality(Managed) > Replicas
    BY <1>3, <1>4, <2>1, <2>2, CountLess
  <2>3. CASE Doubled(k)
    <3>1. HostsOf(Managed) = HostsOf(Managed \ {k})
      BY <1>2, <2>3 DEF Doubled, HostsOf
    <3>2. /\ Cardinality(HostsOf(Managed \ {k})) <= Cardinality(Managed \ {k})
          /\ Cardinality(HostsOf(Managed \ {k})) \in Nat
          /\ Cardinality(Managed \ {k}) \in Nat
      BY <1>4, HostsAtMost, SlotsFinite
    <3>3. Cardinality(HostsOf(Managed \ {k})) >= Replicas
      BY <1>6, <2>1, <3>1
    <3>4. Cardinality(Managed \ {k}) >= Replicas
      BY <1>4, <3>2, <3>3
    <3> QED BY <1>3, <2>1, <3>4
  <2> QED BY <1>5, <2>2, <2>3
<1>7. ASSUME Calm
      PROVE  Cardinality(Serving') >= Replicas
  <2>1. Cardinality(Serving \ Awaited(Plan)) > Replicas
    BY <1>1, <1>7 DEF Calm
  <2>2. Cardinality(Serving) > Replicas
    <3>1. Serving \ Awaited(Plan) \subseteq Serving
      OBVIOUS
    <3>2. Cardinality(Serving \ Awaited(Plan)) <= Cardinality(Serving)
          /\ Cardinality(Serving \ Awaited(Plan)) \in Nat /\ Cardinality(Serving) \in Nat
      BY <1>4, <3>1, SlotsFinite
    <3> QED BY <1>4, <2>1, <3>2
  <2> QED BY <1>3, <1>4, <2>2, CountLess
<1> QED BY <1>6, <1>7

(* What is deleted after a stop does not run. *)
LEMMA DeleteSpares ==
  ASSUME Inv, Sited, DeleteInstance, job.act.type # "recreate"
  PROVE  Serving' = Serving /\ Broken(Managed) # {}
<1> DEFINE k == job.act.slot
<1>1. Decided /\ pc = "delete" /\ Exists(k)
  BY DEF DeleteInstance, Inv, Passing, Decided
<1>2. inst[k].state = "stopped" /\ k \in Managed
  BY <1>1 DEF Sited, Exists, Managed
<1>3. Broken(Managed) # {}
  BY <1>2 DEF Broken
<1>4. CASE UNCHANGED inst
  BY <1>3, <1>4 DEF Serving, Managed
<1>5. CASE HostSets(k, NoInst)
  <2>1. inst'[k] = NoInst /\ \A l \in Slots \ {k} : inst'[l] = inst[l]
    BY <1>1, <1>5 DEF HostSets, Exists, Inv, HostsOK
  <2>2. Serving' = Serving
    BY <1>2, <2>1 DEF Serving, Managed
  <2> QED BY <1>3, <2>2
<1> QED BY <1>4, <1>5 DEF DeleteInstance

LEMMA StepKeeps ==
  ASSUME Inv, Sited, Undisturbed => Calm, budget \in 0..MaxFaults,
         intent.phase = "live", [Next]_vars, budget' = budget
  PROVE  /\ Broken(Managed) = {} /\ job.act.type # "recreate"
            /\ Cardinality(HostsOf(Serving \union Arriving)) >= Replicas
              => Cardinality(Serving' \union Arriving') >= Replicas
         /\ budget = MaxFaults /\ Cardinality(Serving) >= Replicas
              => Cardinality(Serving') >= Replicas
<1>1. Quiet /\ (budget = MaxFaults => Calm)
  BY DEF Quiet, Undisturbed
<1>2. Up = Serving \union Arriving /\ Up' = Serving' \union Arriving'
  BY DEF Up
<1>3. CASE StopInstance
  BY <1>1, <1>2, <1>3, StopSpares
<1>4. CASE DeleteInstance
  <2>1. budget = MaxFaults => job.act.type # "recreate"
    BY <1>1, <1>4 DEF Calm, DeleteInstance
  <2> QED BY <1>4, <2>1, DeleteSpares
<1>5. CASE ~StopInstance /\ ~DeleteInstance
  <2>1. Serving \subseteq Serving' /\ Up \subseteq Up'
    BY <1>1, <1>5, UpGrows
  <2>2. Serving \subseteq Slots /\ Up \subseteq Slots /\ Serving' \subseteq Slots /\ Up' \subseteq Slots
    BY DEF Serving, Arriving, Up, Managed
  <2>3. /\ Cardinality(HostsOf(Up)) <= Cardinality(Up) /\ Cardinality(HostsOf(Up)) \in Nat
        /\ Cardinality(Up) \in Nat /\ Cardinality(Serving) \in Nat /\ Replicas \in Nat
    BY <2>2, HostsAtMost, SlotsFinite, RolloutAssumption
  <2>4. Cardinality(HostsOf(Up)) >= Replicas => Cardinality(Up) >= Replicas
    BY <2>3
  <2> QED BY <1>2, <2>1, <2>2, <2>3, <2>4, CountMore
<1> QED BY <1>3, <1>4, <1>5

(* At first all of the replicas asked for run. *)
LEMMA InitCalm == Init => Calm
<1> SUFFICES ASSUME Init PROVE Calm
  OBVIOUS
<1>1. PICK f \in [1..Replicas -> Hosts] :
        inst = [k \in Slots |-> IF k \in 1..Replicas
                  THEN [host |-> f[k], version |-> 0, state |-> "running"] ELSE NoInst]
  BY DEF Init
<1>2. PICK R : R = 1..Replicas
  OBVIOUS
<1>3. R \subseteq Slots /\ Replicas \in Nat
  BY <1>2, RolloutAssumption
<1>4. Cardinality(R) = Replicas
  BY <1>2, <1>3, FS_Interval
<1>5. \A k \in Slots : /\ k \in R => inst[k] # NoInst /\ inst[k].state = "running"
                       /\ k \notin R => inst[k] = NoInst
  BY <1>1, <1>2 DEF NoInst
<1>6. Managed = R /\ Serving = R
  <2>1. \A k : k \in Managed <=> k \in R
    BY <1>3, <1>5 DEF Managed
  <2>2. \A k : k \in Serving <=> k \in R
    BY <1>3, <1>5, <2>1 DEF Serving
  <2> QED BY <2>1, <2>2
<1>7. Plan = NoProgress /\ pc = "idle"
  BY DEF Init, Plan
<1>8. Serving \ Awaited(Plan) = R
  BY <1>6, <1>7, NoneAwaited
<1>9. Cardinality(Serving \ Awaited(Plan)) >= Replicas
  <2>1. Cardinality(Serving \ Awaited(Plan)) = Replicas
    BY <1>4, <1>8, Zenon
  <2> QED BY <1>3, <2>1
<1> QED BY <1>3, <1>5, <1>7, <1>9 DEF Init, Calm, Managed

(* An immediate update is left out: it stops every old replica first. *)
RollingInv ==
  /\ IsRow
  /\ intent.strategy = "rolling" =>
       Inv /\ Sited /\ budget \in 0..MaxFaults /\ (Undisturbed => Calm)

LEMMA RollingNext ==
  ASSUME MaxEdits <= 1, RollingInv, [Next]_vars
  PROVE  RollingInv'
<1>1. IsRow' /\ intent'.strategy = intent.strategy /\ (intent'.phase = "live" => intent.phase = "live")
  BY RowMoves DEF RollingInv
<1>2. ASSUME intent.strategy = "rolling"
      PROVE  /\ Inv' /\ Sited' /\ budget' \in 0..MaxFaults
             /\ Undisturbed' => Calm'
  <2>1. Inv /\ Sited /\ budget \in 0..MaxFaults /\ (Undisturbed => Calm)
    BY <1>2 DEF RollingInv
  <2>2. Inv'
    BY <1>2, <2>1, NextInv
  <2>3. Sited'
    BY <1>2, <2>1, NextSited
  <2>4. budget' \in 0..MaxFaults /\ (budget' = MaxFaults => UNCHANGED budget)
    BY <2>1, BudgetFalls
  <2>5. ASSUME Undisturbed'
        PROVE  Calm'
    <3>1. intent'.phase = "live" /\ UNCHANGED budget /\ budget' = MaxFaults
      BY <2>4, <2>5 DEF Undisturbed
    <3>2. Undisturbed /\ Quiet
      BY <1>1, <2>1, <3>1 DEF Undisturbed, Quiet
    <3> QED BY <1>2, <2>1, <3>1, <3>2, NextCalm
  <2> QED BY <2>2, <2>3, <2>4, <2>5
<1> QED BY <1>1, <1>2 DEF RollingInv

(* ServiceKept: no step of the loop leaves fewer replicas up than were      *)
(* asked for, whichever faults came before, as long as none is broken; and  *)
(* without a fault as many keep running as the intent asks for, through the *)
(* whole update.  The premise is needed: when the row is edited twice, the  *)
(* update under way makes a replacement of the newest version, takes it for *)
(* an old replica, and stops it.                                            *)
THEOREM ServiceAlwaysKept ==
  ASSUME MaxEdits <= 1
  PROVE  Spec => ServiceKept
<1>1. Init => RollingInv
  <2> SUFFICES ASSUME Init PROVE RollingInv
    OBVIOUS
  <2>1. IsRow
    BY DEF Init, IsRow
  <2>2. budget \in 0..MaxFaults
    BY RolloutAssumption DEF Init
  <2> QED BY <2>1, <2>2, InitInv, InitSited, InitCalm DEF RollingInv
<1>2. RollingInv /\ [Next]_vars => RollingInv'
  BY RollingNext
<1>3. RollingInv /\ [Next]_vars =>
        [intent.strategy = "rolling" /\ intent.phase = "live" /\ budget' = budget =>
           /\ Broken(Managed) = {} /\ job.act.type # "recreate"
              /\ Cardinality(HostsOf(Serving \union Arriving)) >= Replicas
                => Cardinality(Serving' \union Arriving') >= Replicas
           /\ budget = MaxFaults /\ Cardinality(Serving) >= Replicas
                => Cardinality(Serving') >= Replicas]_vars
  BY StepKeeps DEF RollingInv
<1> QED BY <1>1, <1>2, <1>3, PTL DEF Spec, ServiceKept

--------------------------------------------------------------------------------
(* Lists of hosts. *)

(* The ranks of the elements of a finite set of numbers are the numbers up  *)
(* to its size, so that each position of its sorted list has its element.   *)
LEMMA SortedType ==
  ASSUME NEW S, S \subseteq Nat, IsFiniteSet(S)
  PROVE  Sorted(S) \in Seq(S) /\ (S # {} => Sorted(S) # <<>>)
<1> DEFINE below(x) == {y \in S : y <= x}
           rank == [x \in S |-> Cardinality(below(x))]
<1>1. Cardinality(S) \in Nat
  BY FS_CardinalityType
<1>2. ASSUME NEW x \in S
      PROVE  IsFiniteSet(below(x)) /\ rank[x] \in 1..Cardinality(S)
  <2>1. below(x) \in SUBSET S /\ x \in below(x)
    OBVIOUS
  <2>2. /\ IsFiniteSet(below(x)) /\ Cardinality(below(x)) \in Nat
        /\ Cardinality(below(x)) <= Cardinality(S)
    BY <2>1, FS_Subset, FS_CardinalityType
  <2>3. Cardinality(below(x)) # 0
    BY <2>1, <2>2, FS_EmptySet
  <2> QED BY <1>1, <2>2, <2>3
<1>3. ASSUME NEW x \in S, NEW y \in S, x < y
      PROVE  rank[x] # rank[y]
  <2>0. x \in Nat /\ y \in Nat
    OBVIOUS
  <2>1. below(x) \in SUBSET below(y) /\ y \in below(y) /\ y \notin below(x)
    <3>1. \A z \in S : z \in Nat /\ (z <= x => z <= y)
      BY <1>3, <2>0
    <3>2. ~(y <= x) /\ y <= y
      BY <1>3, <2>0
    <3> QED BY <3>1, <3>2
  <2>2. Cardinality(below(x)) = Cardinality(below(y)) => below(x) = below(y)
    BY <1>2, <2>1, FS_Subset
  <2> QED BY <2>1, <2>2
<1>4. \A x, y \in S : rank[x] = rank[y] => x = y
  <2> SUFFICES ASSUME NEW x \in S, NEW y \in S, x # y
               PROVE  rank[x] # rank[y]
    OBVIOUS
  <2>1. x < y \/ y < x
    OBVIOUS
  <2> QED BY <1>3, <2>1
<1> HIDE DEF rank
<1>5. ASSUME NEW n \in 1..Cardinality(S)
      PROVE  \E x \in S : rank[x] = n
  <2> SUFFICES ASSUME \A x \in S : rank[x] # n PROVE FALSE
    OBVIOUS
  <2> DEFINE T == (1..Cardinality(S)) \ {n}
  <2>1. rank \in [S -> T]
    BY <1>2 DEF rank
  <2>2. IsFiniteSet(T) /\ Cardinality(T) = Cardinality(S) - 1
    <3>1. IsFiniteSet(1..Cardinality(S)) /\ Cardinality(1..Cardinality(S)) = Cardinality(S)
      BY <1>1, FS_Interval
    <3> QED BY <3>1, FS_RemoveElement
  <2> HIDE DEF T
  <2>3. Cardinality(T) < Cardinality(S)
    BY <1>1, <2>2
  <2>4. \E x, y \in S : x # y /\ rank[x] = rank[y]
    BY <2>1, <2>2, <2>3, FS_PigeonHole, Zenon
  <2> QED BY <1>4, <2>4
<1>6. \A n \in 1..Cardinality(S) : \E x \in S : Cardinality(below(x)) = n
  BY <1>5 DEF rank
<1>7. Sorted(S) \in [1..Cardinality(S) -> S]
  BY <1>6 DEF Sorted
<1>8. Sorted(S) \in Seq(S) /\ Len(Sorted(S)) = Cardinality(S)
  BY <1>1, <1>7
<1>9. S # {} => Cardinality(S) # 0
  BY FS_EmptySet
<1> QED BY <1>8, <1>9

LEMMA WithoutType ==
  ASSUME NEW q \in Seq(Hosts), NEW S
  PROVE  Without(q, S) \in Seq(Hosts)
<1> DEFINE keep == {n \in DOMAIN q : q[n] \notin S}
           kept == Sorted(keep)
<1>1. DOMAIN q = 1..Len(q) /\ Len(q) \in Nat
  OBVIOUS
<1>2. keep \subseteq Nat /\ keep \in SUBSET (1..Len(q))
  BY <1>1
<1>3. IsFiniteSet(keep)
  <2>1. IsFiniteSet(1..Len(q))
    BY <1>1, FS_Interval
  <2> QED BY <1>2, <2>1, FS_Subset
<1> HIDE DEF keep
<1>4. kept \in Seq(keep)
  BY <1>2, <1>3, SortedType
<1> HIDE DEF kept
<1>5. \A n \in DOMAIN kept : kept[n] \in DOMAIN q
  <2>1. \A n \in DOMAIN kept : kept[n] \in keep
    BY <1>4
  <2> QED BY <1>1, <1>2, <2>1
<1>6. Without(q, S) = [n \in DOMAIN kept |-> q[kept[n]]]
  BY DEF Without, kept, keep
<1>7. DOMAIN kept = 1..Len(kept) /\ Len(kept) \in Nat
  BY <1>4
<1>8. Without(q, S) \in [1..Len(kept) -> Hosts]
  BY <1>1, <1>5, <1>6, <1>7
<1> QED BY <1>7, <1>8

LEMMA TakeType ==
  ASSUME NEW q \in Seq(Hosts), NEW n \in Int, n > 0
  PROVE  Take(q, n) \in Seq(Hosts) /\ (q # <<>> => Take(q, n) # <<>>)
<1> DEFINE m == IF n < Len(q) THEN n ELSE Len(q)
<1>1. Len(q) \in Nat /\ m \in Int /\ m <= Len(q) /\ (q # <<>> => m >= 1)
  OBVIOUS
<1> HIDE DEF m
<1>2. \A i \in 1..m : q[i] \in Hosts
  BY <1>1
<1>3. /\ SubSeq(q, 1, m) \in Seq(Hosts)
      /\ Len(SubSeq(q, 1, m)) = IF 1 <= m THEN m - 1 + 1 ELSE 0
  BY <1>1, <1>2, SubSeqProperties
<1>4. q # <<>> => SubSeq(q, 1, m) # <<>>
  BY <1>1, <1>3
<1> QED BY <1>3, <1>4 DEF Take, m

(* What find_candidates returns is a list of hosts. *)
LEMMA OrderType ==
  ASSUME NEW order \in Orders(Candidates) \union {<<>>}
  PROVE  order \in Seq(Hosts)
<1>1. CASE order = <<>>
  BY <1>1
<1>2. CASE order \in Orders(Candidates)
  <2>1. Candidates \in SUBSET Hosts
    BY DEF Candidates
  <2>2. Cardinality(Candidates) \in Nat
    BY <2>1, RolloutAssumption, FS_Subset, FS_CardinalityType
  <2>3. order \in [1..Cardinality(Candidates) -> Hosts]
    BY <1>2, <2>1 DEF Orders
  <2> QED BY <2>2, <2>3
<1> QED BY <1>1, <1>2

--------------------------------------------------------------------------------
(* Types. *)

(* A replacement that is about to be created has a host. *)
Placeable(p) == p # NoProgress /\ p.phase = "creating_replacement" => p.host \in Hosts

(* What a pass knows at each place. *)
PassTypes ==
  /\ Placeable(job.progress) /\ Placeable(job.next)
  /\ pc \in {"stop", "delete", "start"} => Exists(job.act.slot)
  /\ pc = "create" => job.act.host \in Hosts
  /\ InStrategy => job.act.type # "recreate"
  /\ InStrategy /\ pc \in {"create", "start"} => job.next # NoProgress

TypeInv ==
  /\ TypeOK
  /\ intent.version + edits = MaxEdits
  /\ Placeable(progress)
  /\ pc # "idle" => PassTypes

(* An outcome of types that fit; strategic, if a strategy is in flight. *)
Typed(plan) ==
  /\ plan.act \in Act
  /\ plan.next \in Progress \union {NoProgress}
  /\ Placeable(plan.next)
  /\ plan.act.type \in {"stop", "recreate"} => Exists(plan.act.slot)
  /\ plan.act.type = "create" => plan.act.host \in Hosts

Strategic(plan) ==
  plan.act.type # "recreate" /\ (plan.act.type = "create" => plan.next # NoProgress)

LEMMA ActTypes ==
  /\ NoAct \in Act
  /\ \A k \in Slots : Stop(k) \in Act /\ Recreate(k) \in Act
  /\ \A h \in Hosts : Create(h) \in Act /\ Create(h).host = h
BY DEF Act, NoAct, Stop, Recreate, Create

LEMMA NoProgressIsNone == NoProgress \notin Progress /\ NoJob \notin Job /\ NoInst \notin Inst
BY DEF NoProgress, Progress, NoJob, Job, NoInst, Inst

LEMMA TypedFinish ==
  ASSUME NEW plan \in Finish
  PROVE  Typed(plan) /\ Strategic(plan)
BY OutcomeFields, ActTypes, ActFields DEF Finish, Typed, Strategic, Placeable

LEMMA TypedWait ==
  ASSUME NEW p \in Progress, Placeable(p), NEW plan, plan = Outcome(NoAct, p)
  PROVE  Typed(plan) /\ Strategic(plan)
BY OutcomeFields, ActTypes, ActFields DEF Typed, Strategic

LEMMA TypedStop ==
  ASSUME NEW p \in Progress, Placeable(p), NEW k, Exists(k), NEW plan, plan = Outcome(Stop(k), p)
  PROVE  Typed(plan) /\ Strategic(plan)
BY OutcomeFields, ActTypes, ActFields DEF Typed, Strategic, Exists

LEMMA TypedCreate ==
  ASSUME NEW p \in Progress, Placeable(p), NEW h \in Hosts, NEW plan, plan = Outcome(Create(h), p)
  PROVE  Typed(plan) /\ Strategic(plan)
BY OutcomeFields, ActTypes, ActFields, NoProgressIsNone DEF Typed, Strategic

(* Progress written for another phase. *)
LEMMA PhaseTypes ==
  ASSUME NEW p \in Progress, NEW phase \in {"waiting_healthy", "retiring_old", "failed"},
         NEW n, n = [p EXCEPT !.phase = phase]
  PROVE  n \in Progress /\ Placeable(n)
BY DEF Progress, Placeable

LEMMA TypedHold ==
  ASSUME NEW p \in Progress, NEW plan \in Hold(p)
  PROVE  Typed(plan) /\ Strategic(plan)
<1> DEFINE n == [p EXCEPT !.phase = "failed"]
<1>1. plan = Outcome(NoAct, n) /\ n \in Progress /\ Placeable(n)
  BY PhaseTypes DEF Hold
<1> HIDE DEF n
<1> QED BY <1>1, TypedWait

LEMMA MissingType ==
  ASSUME NEW v
  PROVE  Missing(Managed, v) \in Int
<1>1. Updated(Managed, v) \subseteq Slots
  BY DEF Updated, Managed
<1> QED BY <1>1, SlotsFinite, RolloutAssumption DEF Missing

LEMMA TypedAdvance ==
  ASSUME NEW p \in Progress, NEW order \in Seq(Hosts), NEW plan \in Advance(p, Managed, order)
  PROVE  Typed(plan) /\ Strategic(plan)
<1> DEFINE missing == Missing(Managed, p.target)
           pending == IF p.pending # <<>> THEN p.pending ELSE Take(order, missing)
           n == [p EXCEPT !.phase = "creating_replacement", !.host = Head(pending),
                          !.instance = 0, !.pending = Tail(pending)]
<1>1. CASE plan \in Finish
  BY <1>1, TypedFinish
<1>2. CASE plan \notin Finish
  <2>1. missing > 0 /\ pending # <<>> /\ plan = Outcome(Create(Head(pending)), n)
    BY <1>2, MissingType DEF Advance
  <2>2. missing \in Int /\ p.pending \in Seq(Hosts)
    BY MissingType DEF Progress
  <2> HIDE DEF missing
  <2>3. pending \in Seq(Hosts)
    BY <2>1, <2>2, TakeType
  <2> HIDE DEF pending
  <2>4. Head(pending) \in Hosts /\ Tail(pending) \in Seq(Hosts)
    BY <2>1, <2>3, HeadTailProperties
  <2>5. n \in Progress /\ Placeable(n)
    BY <2>4 DEF Progress, Placeable
  <2> HIDE DEF n
  <2> QED BY <2>1, <2>4, <2>5, TypedCreate
<1> QED BY <1>1, <1>2

LEMMA TypedRolling ==
  ASSUME NEW p \in Progress, Placeable(p), NEW order \in Seq(Hosts),
         NEW plan \in Rolling(p, Managed, order)
  PROVE  Typed(plan) /\ Strategic(plan)
<1> DEFINE old == OldOn(Managed, p.host, p.target)
<1>0. \A k \in old : Exists(k)
  BY DEF OldOn, Drifted, Managed, Exists
<1>1. CASE plan \in Finish \union Hold(p) \union Advance(p, Managed, order)
  BY <1>1, TypedFinish, TypedHold, TypedAdvance
<1>2. CASE plan = Outcome(NoAct, p)
  BY <1>2, TypedWait
<1>3. CASE plan = Outcome(NoAct, [p EXCEPT !.phase = "waiting_healthy"])
  <2>1. PICK n : n = [p EXCEPT !.phase = "waiting_healthy"]
    OBVIOUS
  <2> QED BY <1>3, <2>1, PhaseTypes, TypedWait
<1>4. CASE \E k \in old : plan = Outcome(Stop(k), [p EXCEPT !.phase = "retiring_old"])
  <2>1. PICK n : n = [p EXCEPT !.phase = "retiring_old"]
    OBVIOUS
  <2>2. n \in Progress /\ Placeable(n)
    BY <2>1, PhaseTypes
  <2>3. PICK k \in old : plan = Outcome(Stop(k), n)
    BY <1>4, <2>1
  <2> QED BY <1>0, <2>2, <2>3, TypedStop
<1>5. CASE p.phase = "creating_replacement" /\ plan = Outcome(Create(p.host), p)
  BY <1>5, NoProgressIsNone, TypedCreate DEF Placeable
<1>6. CASE p.phase = "creating_replacement"
  BY <1>3, <1>5, <1>6 DEF Rolling
<1>7. CASE p.phase = "waiting_healthy"
  BY <1>1, <1>2, <1>4, <1>7 DEF Rolling
<1>8. CASE p.phase = "retiring_old"
  BY <1>1, <1>2, <1>8 DEF Rolling
<1>9. CASE p.phase \notin Phases
  BY <1>1, <1>9 DEF Rolling, Phases
<1> QED BY <1>6, <1>7, <1>8, <1>9 DEF Phases

LEMMA TypedImmediate ==
  ASSUME NEW p \in Progress, Placeable(p), NEW order \in Seq(Hosts),
         NEW plan \in Immediate(p, Managed, order)
  PROVE  Typed(plan) /\ Strategic(plan)
<1> DEFINE old == Drifted(Managed, p.target)
           missing == Missing(Managed, p.target)
           hosts == p.pending \o Without(order, ToSet(p.pending))
           taken == [p EXCEPT !.phase = "creating_replacements", !.pending = Take(hosts, missing)]
<1>0. p.pending \in Seq(Hosts) /\ missing \in Int
  BY MissingType DEF Progress
<1>1. CASE plan \in Finish \union Hold(p)
  BY <1>1, TypedFinish, TypedHold
<1>2. CASE \E k \in old : plan = Outcome(Stop(k), p)
  <2>1. PICK k \in old : plan = Outcome(Stop(k), p)
    BY <1>2
  <2>2. Exists(k)
    BY DEF Drifted, Managed, Exists
  <2> QED BY <2>1, <2>2, TypedStop
<1>3. CASE missing > 0 /\ plan = Outcome(NoAct, taken)
  <2>1. hosts \in Seq(Hosts)
    BY <1>0, WithoutType, ConcatProperties
  <2> HIDE DEF hosts, missing
  <2>2. Take(hosts, missing) \in Seq(Hosts)
    BY <1>0, <1>3, <2>1, TakeType
  <2>3. taken \in Progress /\ Placeable(taken)
    BY <2>2 DEF Progress, Placeable
  <2> HIDE DEF taken
  <2> QED BY <1>3, <2>3, TypedWait
<1>4. CASE /\ p.pending # <<>> /\ p.phase = "creating_replacements"
           /\ plan = Outcome(Create(Head(p.pending)), [p EXCEPT !.pending = Tail(@)])
  <2>1. PICK n : n = [p EXCEPT !.pending = Tail(p.pending)]
    OBVIOUS
  <2>2. Head(p.pending) \in Hosts /\ Tail(p.pending) \in Seq(Hosts)
    BY <1>0, <1>4, HeadTailProperties
  <2>3. n \in Progress /\ Placeable(n)
    BY <1>4, <2>1, <2>2 DEF Progress, Placeable
  <2>4. plan = Outcome(Create(Head(p.pending)), n)
    BY <1>4, <2>1
  <2> QED BY <2>2, <2>3, <2>4, TypedCreate
<1>5. CASE p.phase = "stopping_old"
  <2>1. Immediate(p, Managed, order) =
          IF old # {} THEN {Outcome(Stop(k), p) : k \in old}
          ELSE IF missing <= 0 THEN Finish
          ELSE IF hosts = <<>> THEN Hold(p)
          ELSE {Outcome(NoAct, taken)}
    BY <1>5 DEF Immediate
  <2> HIDE DEF old, missing, hosts, taken
  <2>2. missing <= 0 \/ missing > 0
    BY <1>0
  <2> QED BY <1>1, <1>2, <1>3, <2>1, <2>2
<1>6. CASE p.phase = "creating_replacements"
  BY <1>1, <1>4, <1>6 DEF Immediate
<1>7. CASE p.phase \notin {"stopping_old", "creating_replacements"}
  BY <1>1, <1>7 DEF Immediate
<1> QED BY <1>5, <1>6, <1>7

(* A strategy begins where an old instance is: the first replacement takes  *)
(* a host that is in the list.                                              *)
LEMMA TypedInitiate ==
  ASSUME TypeOK, NEW i \in Intent, NEW order \in Seq(Hosts),
         NEW p, p = Initiate(i, Managed, order), p # NoProgress
  PROVE  p \in Progress /\ Placeable(p)
<1> DEFINE drifted == Drifted(Managed, i.version)
           missing == Missing(Managed, i.version)
<1>1. drifted # {} /\ missing > 0 /\ missing \in Int
  BY MissingType DEF Initiate
<1>2. CASE i.strategy = "rolling"
  <2> DEFINE on == HostsOf(drifted)
             old == Sorted(on)
             all == old \o Without(order, ToSet(old))
             hosts == Take(all, missing)
  <2>1. on \in SUBSET Hosts /\ on # {}
    <3>1. \A k \in drifted : inst[k].host \in Hosts
      BY DEF Drifted, Managed, TypeOK, Inst
    <3> QED BY <1>1, <3>1 DEF HostsOf
  <2>2. p = [Begins(i, "creating_replacement") EXCEPT !.host = Head(hosts), !.pending = Tail(hosts)]
    BY <1>2 DEF Initiate, RollingInit
  <2> HIDE DEF on
  <2>3. on \subseteq Nat /\ IsFiniteSet(on)
    BY <2>1, RolloutAssumption, FS_Subset
  <2>4. old \in Seq(on) /\ old # <<>>
    BY <2>1, <2>3, SortedType
  <2> HIDE DEF old, missing
  <2>5. old \in Seq(Hosts)
    BY <2>1, <2>4
  <2>6. Without(order, ToSet(old)) \in Seq(Hosts)
    BY WithoutType
  <2>7. all \in Seq(Hosts) /\ all # <<>>
    <3>1. all \in Seq(Hosts) /\ Len(all) = Len(old) + Len(Without(order, ToSet(old)))
      BY <2>5, <2>6, ConcatProperties
    <3>2. Len(old) > 0 /\ Len(Without(order, ToSet(old))) >= 0
      BY <2>4, <2>5, <2>6
    <3>3. Len(old) \in Nat /\ Len(Without(order, ToSet(old))) \in Nat
      BY <2>5, <2>6
    <3>4. Len(all) > 0
      BY <3>1, <3>2, <3>3
    <3> HIDE DEF all
    <3> QED BY <3>1, <3>4
  <2> HIDE DEF all
  <2>8. hosts \in Seq(Hosts) /\ hosts # <<>>
    BY <1>1, <2>7, TakeType
  <2> HIDE DEF hosts
  <2>9. Head(hosts) \in Hosts /\ Tail(hosts) \in Seq(Hosts)
    BY <2>8, HeadTailProperties
  <2> QED BY <2>2, <2>9 DEF Begins, Progress, Placeable, Intent
<1>3. CASE i.strategy # "rolling"
  <2> DEFINE hosts == Take(order, missing)
  <2>1. p = [Begins(i, "stopping_old") EXCEPT !.pending = hosts]
    BY <1>3 DEF Initiate, ImmediateInit
  <2> HIDE DEF missing
  <2>2. hosts \in Seq(Hosts)
    BY <1>1, TakeType
  <2> HIDE DEF hosts
  <2> QED BY <2>1, <2>2 DEF Begins, Progress, Placeable, Intent
<1> QED BY <1>2, <1>3

LEMMA TypedDiff ==
  ASSUME NEW i \in Intent, NEW order \in Seq(Hosts), NEW act \in Diff(i, Managed, order)
  PROVE  Typed(Outcome(act, NoProgress))
<1>1. \/ \E k \in Managed : act = Stop(k)
      \/ \E k \in Managed : act = Recreate(k)
      \/ order # <<>> /\ act = Create(Head(order))
  <2>1. Broken(Managed) \ Drifted(Managed, i.version) \subseteq Managed
        /\ Broken(Managed) \subseteq Managed
    BY DEF Broken
  <2> QED BY <2>1 DEF Diff
<1>2. order # <<>> => Head(order) \in Hosts
  BY HeadTailProperties
<1>3. Managed \subseteq Slots /\ \A k \in Managed : Exists(k)
  BY DEF Managed, Exists
<1>4. act \in Act
  BY <1>1, <1>2, <1>3, ActTypes
<1>5. /\ act.type \in {"stop", "recreate"} => Exists(act.slot)
      /\ act.type = "create" => act.host \in Hosts
  BY <1>1, <1>2, <1>3, ActTypes, ActFields
<1> QED BY <1>4, <1>5, OutcomeFields DEF Typed, Placeable

LEMMA TypedPlans ==
  ASSUME TypeInv, pc = "observe", NEW i \in Intent, NEW order \in Seq(Hosts),
         NEW plan \in Plans(i, order)
  PROVE  Typed(plan) /\ (InStrategy => Strategic(plan))
<1>1. CASE InStrategy
  <2>1. job \in Job /\ job.progress \in Progress /\ Placeable(job.progress)
    BY <1>1, NoProgressIsNone DEF InStrategy, TypeInv, TypeOK, PassTypes, Job
  <2>2. plan \in Rolling(job.progress, Managed, order) \union Immediate(job.progress, Managed, order)
    BY <1>1 DEF Plans, Continue
  <2> QED BY <2>1, <2>2, TypedRolling, TypedImmediate
<1>2. CASE ~InStrategy
  <2>1. CASE plan \in Finish
    BY <1>2, <2>1, TypedFinish
  <2>2. CASE /\ Initiate(i, Managed, order) # NoProgress
             /\ plan = Outcome(NoAct, Initiate(i, Managed, order))
    <3>1. PICK p : p = Initiate(i, Managed, order)
      OBVIOUS
    <3>2. p \in Progress /\ Placeable(p)
      BY <2>2, <3>1, TypedInitiate DEF TypeInv
    <3> QED BY <1>2, <2>2, <3>1, <3>2, TypedWait
  <2>3. CASE \E a \in Diff(i, Managed, order) : plan = Outcome(a, NoProgress)
    BY <1>2, <2>3, TypedDiff
  <2> QED BY <1>2, <2>1, <2>2, <2>3 DEF Plans
<1> QED BY <1>1, <1>2

LEMMA InitTypes == Init => TypeInv
<1> SUFFICES ASSUME Init PROVE TypeInv
  OBVIOUS
<1>1. MaxEdits \in Nat /\ MaxFaults \in Nat /\ 0 \in Versions /\ Strategies \subseteq {"rolling", "immediate"}
  BY RolloutAssumption DEF Versions
<1>2. intent \in Intent /\ intent.version = 0
  BY <1>1 DEF Init, Intent
<1>3. inst \in [Slots -> Inst \union {NoInst}]
  <2>1. PICK f \in [1..Replicas -> Hosts] :
          inst = [k \in Slots |-> IF k \in 1..Replicas
            THEN [host |-> f[k], version |-> 0, state |-> "running"] ELSE NoInst]
    BY DEF Init
  <2>2. \A k \in 1..Replicas : [host |-> f[k], version |-> 0, state |-> "running"] \in Inst
    BY <1>1 DEF Inst
  <2> QED BY <2>1, <2>2
<1>4. edits \in 0..MaxEdits /\ budget \in 0..MaxFaults /\ intent.version + edits = MaxEdits
  BY <1>1, <1>2 DEF Init
<1> QED BY <1>2, <1>3, <1>4 DEF Init, TypeInv, TypeOK, Placeable

(* The record of a pass, and what it says after one field has changed. *)
LEMMA JobTypes ==
  ASSUME TypeInv, pc # "idle"
  PROVE  /\ job \in Job /\ job # NoJob /\ PassTypes
         /\ job.intent \in Intent /\ job.act \in Act
         /\ job.progress \in Progress \union {NoProgress}
         /\ job.next \in Progress \union {NoProgress}
BY NoProgressIsNone DEF TypeInv, TypeOK, Job

LEMMA BudgetType ==
  ASSUME TypeOK, NEW kind, Spend(kind) \/ UNCHANGED budget
  PROVE  budget' \in 0..MaxFaults
<1>1. MaxFaults \in Nat /\ budget \in 0..MaxFaults
  BY RolloutAssumption DEF TypeOK
<1> QED BY <1>1 DEF Spend

LEMMA BeginTypes == ASSUME TypeInv, Begin PROVE TypeInv'
<1>1. job' \in Job
  BY ActTypes DEF Begin, TypeInv, TypeOK, Job
<1>2. /\ job'.progress = progress /\ job'.next = NoProgress /\ job'.act = NoAct
      /\ pc' = "observe" /\ Placeable(progress)
      /\ UNCHANGED <<intent, progress, aged, inst, backoff, settle, edits, budget>>
  BY DEF Begin, TypeInv
<1>3. PassTypes'
  BY <1>2, ActFields DEF PassTypes, Placeable
<1>4. TypeOK'
  BY <1>1, <1>2, NoProgressIsNone DEF TypeInv, TypeOK
<1> QED BY <1>2, <1>3, <1>4 DEF TypeInv, Placeable

LEMMA SettleRefreshTypes == ASSUME TypeInv, SettleRefresh PROVE TypeInv'
<1>0. UNCHANGED <<intent, progress, aged, inst, backoff, settle, edits, budget>> /\ pc = "observe"
  BY DEF SettleRefresh
<1>1. CASE intent.phase = "deleted"
  BY <1>0, <1>1 DEF SettleRefresh, TypeInv, TypeOK, Placeable
<1>2. CASE intent.phase # "deleted"
  <2>1. pc' = "status" /\ job' = [job EXCEPT !.some = Managed # {}]
    BY <1>2 DEF SettleRefresh
  <2>2. job \in Job /\ PassTypes
    BY <1>0, JobTypes
  <2>3. /\ job' \in Job /\ job'.progress = job.progress /\ job'.next = job.next
        /\ job'.act = job.act
    BY <2>1, <2>2 DEF Job
  <2>4. PassTypes'
    BY <2>1, <2>2, <2>3 DEF PassTypes, Placeable, InStrategy
  <2>5. TypeOK'
    BY <1>0, <2>1, <2>3, NoProgressIsNone DEF TypeInv, TypeOK
  <2> QED BY <1>0, <2>4, <2>5 DEF TypeInv, Placeable
<1> QED BY <1>1, <1>2

LEMMA ObserveTypes == ASSUME TypeInv, Observe PROVE TypeInv'
<1> DEFINE i == IF settle THEN intent ELSE job.intent
<1>1. /\ pc = "observe" /\ UNCHANGED <<intent, progress, inst, settle, edits>>
      /\ TypeOK /\ job \in Job /\ PassTypes /\ i \in Intent
  BY JobTypes DEF Observe, TypeInv, TypeOK
<1>2. PICK order, plan :
        /\ order \in Orders(Candidates) \union {<<>>}
        /\ plan \in Plans(i, order)
        /\ job' = [[job EXCEPT !.intent = i, !.some = Managed # {}]
                     EXCEPT !.act = plan.act, !.next = plan.next]
        /\ pc' = Entry(plan.act)
        /\ Spend("capacity") \/ UNCHANGED budget
        /\ backoff' \in BOOLEAN /\ aged' \in BOOLEAN
  BY DEF Observe, Plans, Spend
<1> HIDE DEF i
<1>3. Typed(plan) /\ (InStrategy => Strategic(plan))
  BY <1>1, <1>2, OrderType, TypedPlans
<1>4. /\ job' \in Job /\ job'.progress = job.progress
      /\ job'.act = plan.act /\ job'.next = plan.next
  BY <1>1, <1>2, <1>3 DEF Typed, Job
<1>5. /\ pc' \in {"status", "start", "stop", "create"}
      /\ pc' = "start" => plan.act.type = "recreate"
      /\ pc' \in {"stop", "create"} => plan.act.type = pc'
  BY <1>2, <1>3 DEF Entry, Typed, Act
<1>6. PassTypes'
  <2>1. Placeable(job.progress)' /\ Placeable(job.next)'
    BY <1>1, <1>3, <1>4 DEF PassTypes, Typed, Placeable
  <2>2. (pc' \in {"stop", "delete", "start"} => Exists(job.act.slot)')
        /\ (pc' = "create" => job'.act.host \in Hosts)
    BY <1>1, <1>3, <1>4, <1>5 DEF Typed, Exists
  <2>3. InStrategy' = InStrategy
    BY <1>4 DEF InStrategy
  <2> QED BY <1>3, <1>4, <1>5, <2>1, <2>2, <2>3 DEF PassTypes, Strategic
<1>7. TypeOK'
  BY <1>1, <1>2, <1>4, <1>5, BudgetType, NoProgressIsNone DEF TypeOK
<1> QED BY <1>1, <1>6, <1>7 DEF TypeInv, Placeable

(* A step at a host leaves the row, and of the pass at most its place.      *)
LEMMA HostStepTypes ==
  ASSUME TypeInv, pc # "idle", UNCHANGED <<intent, progress, aged, edits, job>>,
         inst' \in [Slots -> Inst \union {NoInst}], budget' \in 0..MaxFaults,
         backoff' \in BOOLEAN, settle' \in BOOLEAN, pc' \in {"delete", "status"},
         pc' = "delete" => inst'[job.act.slot] # NoInst /\ job.act.slot \in Slots
  PROVE  TypeInv'
<1>1. job \in Job /\ PassTypes /\ job # NoJob
  BY JobTypes
<1>2. PassTypes'
  BY <1>1 DEF PassTypes, Placeable, InStrategy, Exists
<1>3. TypeOK'
  BY <1>1 DEF TypeInv, TypeOK
<1> QED BY <1>2, <1>3 DEF TypeInv, Placeable

(* The state of an instance changes. *)
LEMMA StateTypes ==
  ASSUME TypeOK, NEW k, Exists(k), NEW state \in States,
         NEW x, x = [inst[k] EXCEPT !.state = state], HostSets(k, x)
  PROVE  inst' \in [Slots -> Inst \union {NoInst}] /\ inst'[k] # NoInst
<1>1. inst[k] \in Inst /\ k \in Slots
  BY DEF TypeOK, Exists
<1>2. x \in Inst
  BY <1>1 DEF Inst, States
<1>3. x # NoInst
  BY <1>2, NoProgressIsNone
<1>4. inst' = [inst EXCEPT ![k] = x]
  BY DEF HostSets
<1> QED BY <1>1, <1>2, <1>3, <1>4 DEF TypeOK

LEMMA StopInstanceTypes == ASSUME TypeInv, StopInstance PROVE TypeInv'
<1> DEFINE k == job.act.slot
           stopped == [inst[k] EXCEPT !.state = "stopped"]
<1>1. pc = "stop" /\ UNCHANGED <<intent, progress, aged, edits, job>> /\ settle' = settle
  BY DEF StopInstance, row, Fails, Proceeds
<1>2. Exists(k) /\ TypeOK
  BY <1>1, JobTypes DEF PassTypes, TypeInv
<1>3. budget' \in 0..MaxFaults
  BY <1>2, BudgetType DEF StopInstance
<1>4. /\ backoff' \in BOOLEAN /\ settle' \in BOOLEAN
      /\ pc' \in {"delete", "status"}
      /\ HostSets(k, stopped) \/ (UNCHANGED inst /\ pc' = "status")
  BY <1>1, <1>2 DEF StopInstance, Fails, Proceeds, TypeOK
<1>5. HostSets(k, stopped) => inst' \in [Slots -> Inst \union {NoInst}] /\ inst'[k] # NoInst
  BY <1>2, StateTypes DEF States
<1>6. inst' \in [Slots -> Inst \union {NoInst}] /\ (pc' = "delete" => inst'[k] # NoInst)
  BY <1>2, <1>4, <1>5 DEF TypeOK
<1> QED BY <1>1, <1>2, <1>3, <1>4, <1>6, HostStepTypes DEF Exists

LEMMA DeleteInstanceTypes == ASSUME TypeInv, DeleteInstance PROVE TypeInv'
<1>1. /\ pc = "delete" /\ UNCHANGED <<intent, progress, aged, edits, job>>
      /\ pc' = "status" /\ TypeOK
  BY DEF DeleteInstance, row, Fails, Succeeds, TypeInv
<1>2. budget' \in 0..MaxFaults /\ backoff' \in BOOLEAN /\ settle' \in BOOLEAN
  BY <1>1, BudgetType DEF DeleteInstance, Fails, Succeeds, TypeOK
<1>3. inst' \in [Slots -> Inst \union {NoInst}]
  BY <1>1 DEF DeleteInstance, HostSets, TypeOK
<1> QED BY <1>1, <1>2, <1>3, HostStepTypes

LEMMA CreateInstanceTypes == ASSUME TypeInv, CreateInstance PROVE TypeInv'
<1>1. /\ pc = "create" /\ UNCHANGED <<intent, progress, aged, edits>>
      /\ job \in Job /\ PassTypes /\ TypeOK
  BY JobTypes DEF CreateInstance, row, TypeInv
<1>2. PICK k, new :
        /\ k \in Free
        /\ new = [host |-> job.act.host, version |-> job.intent.version, state |-> "stopped"]
        /\ \/ /\ HostSets(k, new)
              /\ job' = [job EXCEPT !.act.slot = k]
              /\ pc' = "start"
              /\ UNCHANGED <<backoff, settle, budget>>
           \/ Spend("create_error") /\ (HostSets(k, new) \/ UNCHANGED inst) /\ Fails
  BY DEF CreateInstance
<1>3. new \in Inst /\ new # NoInst /\ k \in Slots
  <2>1. job.act.host \in Hosts /\ job.intent.version \in Versions
    BY <1>1 DEF PassTypes, Job, Intent
  <2>2. new \in Inst
    BY <1>2, <2>1 DEF Inst
  <2> QED BY <1>2, <2>2, NoProgressIsNone DEF Free
<1>4. HostSets(k, new) => inst' \in [Slots -> Inst \union {NoInst}] /\ inst'[k] = new
  BY <1>1, <1>3 DEF HostSets, TypeOK
<1>5. CASE pc' = "status"
  <2>1. Spend("create_error") /\ (HostSets(k, new) \/ UNCHANGED inst) /\ Fails
    BY <1>2, <1>5
  <2>2. budget' \in 0..MaxFaults
    BY <1>1, <2>1, BudgetType
  <2>3. inst' \in [Slots -> Inst \union {NoInst}]
    BY <1>1, <1>4, <2>1 DEF TypeOK
  <2>4. backoff' \in BOOLEAN /\ settle' \in BOOLEAN /\ UNCHANGED job
    BY <1>1, <2>1 DEF Fails, TypeOK
  <2> QED BY <1>1, <1>5, <2>2, <2>3, <2>4, HostStepTypes
<1>6. CASE pc' # "status"
  <2>1. /\ HostSets(k, new) /\ job' = [job EXCEPT !.act.slot = k] /\ pc' = "start"
        /\ UNCHANGED <<backoff, settle, budget>>
    BY <1>2, <1>6 DEF Fails
  <2>2. /\ job' \in Job /\ job'.progress = job.progress /\ job'.next = job.next
        /\ job'.act.slot = k /\ job'.act.type = job.act.type
    BY <1>1, <1>3, <2>1 DEF Job, Act
  <2>3. PassTypes'
    BY <1>1, <1>3, <1>4, <2>1, <2>2 DEF PassTypes, Placeable, InStrategy, Exists
  <2>4. TypeOK'
    BY <1>1, <1>4, <2>1, <2>2, NoProgressIsNone DEF TypeOK
  <2> QED BY <1>1, <2>3, <2>4 DEF TypeInv, Placeable
<1> QED BY <1>5, <1>6

LEMMA StartInstanceTypes == ASSUME TypeInv, StartInstance PROVE TypeInv'
<1> DEFINE k == job.act.slot
           restart == job.act.type = "recreate"
<1>1. /\ pc = "start" /\ UNCHANGED <<intent, progress, aged, edits>>
      /\ job \in Job /\ PassTypes /\ TypeOK /\ Exists(k)
  BY JobTypes DEF StartInstance, row, TypeInv, PassTypes
<1>2. PICK started :
        /\ started = [inst[k] EXCEPT !.state = IF @ = "running" THEN @ ELSE "starting"]
        /\ \/ /\ HostSets(k, started)
              /\ UNCHANGED budget
              /\ pc' = "status"
              /\ backoff' = FALSE
              /\ settle' = (settle \/ (~restart /\ ~InStrategy))
              /\ job' = IF restart THEN job
                        ELSE IF InStrategy THEN [job EXCEPT !.next.instance = k]
                        ELSE [job EXCEPT !.some = TRUE]
           \/ /\ Spend("create_error")
              /\ HostSets(k, started) \/ UNCHANGED inst
              /\ IF restart THEN Proceeds("delete") ELSE Fails
  BY DEF StartInstance
<1>3. HostSets(k, started) => inst' \in [Slots -> Inst \union {NoInst}] /\ inst'[k] # NoInst
  <2>1. PICK s : s = IF inst[k].state = "running" THEN "running" ELSE "starting"
    OBVIOUS
  <2>2. started = [inst[k] EXCEPT !.state = s]
    BY <1>2, <2>1
  <2> QED BY <1>1, <2>1, <2>2, StateTypes DEF States
<1>4. HostSets(k, started) \/ UNCHANGED inst
  BY <1>2
<1>5. inst' \in [Slots -> Inst \union {NoInst}] /\ inst'[k] # NoInst /\ k \in Slots
  BY <1>1, <1>3, <1>4 DEF TypeOK, Exists
<1>6. budget' \in 0..MaxFaults
  BY <1>1, <1>2, BudgetType
<1>7. /\ backoff' \in BOOLEAN /\ settle' \in BOOLEAN /\ pc' \in {"delete", "status"}
      /\ pc' = "delete" => job' = job
  BY <1>1, <1>2 DEF Proceeds, Fails, TypeOK
<1>8. CASE job' = job
  BY <1>1, <1>5, <1>6, <1>7, <1>8, HostStepTypes
<1>9. CASE job' # job
  <2>1. pc' = "status" /\ ~restart
        /\ job' = IF InStrategy THEN [job EXCEPT !.next.instance = k] ELSE [job EXCEPT !.some = TRUE]
    BY <1>2, <1>9 DEF Proceeds, Fails
  <2>2. job' \in Job /\ job'.progress = job.progress /\ job'.act = job.act /\ Placeable(job'.next)
    <3>1. CASE InStrategy
      <4>1. job.next \in Progress /\ Placeable(job.next)
        BY <1>1, <3>1 DEF PassTypes, Job
      <4>2. PICK n : n = [job.next EXCEPT !.instance = k]
        OBVIOUS
      <4>3. n \in Progress /\ Placeable(n)
        BY <1>5, <4>1, <4>2, NoProgressIsNone DEF Progress, Placeable
      <4>4. job' = [job EXCEPT !.next = n]
        BY <2>1, <3>1, <4>2
      <4> QED BY <1>1, <4>3, <4>4 DEF Job
    <3>2. CASE ~InStrategy
      <4>1. job' = [job EXCEPT !.some = TRUE]
        BY <2>1, <3>2
      <4>2. job' \in Job /\ job'.progress = job.progress /\ job'.act = job.act
            /\ job'.next = job.next
        BY <1>1, <4>1 DEF Job
      <4> QED BY <1>1, <4>2 DEF PassTypes
    <3> QED BY <3>1, <3>2
  <2>3. PassTypes'
    BY <1>1, <2>1, <2>2 DEF PassTypes, Placeable, InStrategy
  <2>4. TypeOK'
    BY <1>1, <1>5, <1>6, <1>7, <2>1, <2>2, NoProgressIsNone DEF TypeOK
  <2> QED BY <1>1, <2>3, <2>4 DEF TypeInv, Placeable
<1> QED BY <1>8, <1>9

LEMMA WriteStatusTypes == ASSUME TypeInv, WriteStatus PROVE TypeInv'
<1>1. /\ pc = "status" /\ pc' = "idle" /\ job' = NoJob
      /\ UNCHANGED <<aged, inst, backoff, settle, edits, budget>>
      /\ job.next \in Progress \union {NoProgress} /\ Placeable(job.next)
  BY JobTypes DEF WriteStatus, PassTypes
<1>2. intent' \in Intent /\ intent'.version = intent.version
  BY DEF WriteStatus, TypeInv, TypeOK, Intent
<1>3. progress' \in {progress, job.next}
  BY DEF WriteStatus
<1>4. progress' \in Progress \union {NoProgress} /\ Placeable(progress')
  BY <1>1, <1>3 DEF TypeInv, TypeOK
<1>5. TypeOK'
  BY <1>1, <1>2, <1>4 DEF TypeInv, TypeOK
<1> QED BY <1>1, <1>2, <1>4, <1>5 DEF TypeInv, Placeable

(* Passes that end early, timers, and edits of the row. *)
LEMMA ForgetTypes ==
  ASSUME TypeInv, Forget, UNCHANGED <<intent, progress, aged, inst, edits>>,
         budget' \in 0..MaxFaults, backoff' \in BOOLEAN, settle' \in BOOLEAN
  PROVE  TypeInv'
BY DEF Forget, TypeInv, TypeOK, Placeable

(* What does not touch the pass and makes no instance disappear. *)
LEMMA AsideTypes ==
  ASSUME TypeInv, TypeOK', UNCHANGED <<progress, pc, job>>,
         intent'.version + edits' = MaxEdits,
         \A k : Exists(k) => inst'[k] # NoInst
  PROVE  TypeInv'
<1>1. pc # "idle" => PassTypes'
  BY JobTypes DEF PassTypes, Placeable, InStrategy, Exists
<1> QED BY <1>1 DEF TypeInv, Placeable

LEMMA AsideSteps ==
  ASSUME TypeInv,
         EndBackoff \/ EndSettle \/ Age \/ Retarget \/ Delete \/ \E k \in Slots : Boot(k) \/ Break(k)
  PROVE  TypeInv'
<1>0. TypeOK /\ intent.version + edits = MaxEdits /\ MaxEdits \in Nat
  BY RolloutAssumption DEF TypeInv
<1>1. CASE EndBackoff \/ EndSettle
  <2>1. TypeOK' /\ UNCHANGED <<intent, progress, inst, pc, job, edits>>
    BY <1>0, <1>1 DEF EndBackoff, EndSettle, row, TypeOK
  <2> QED BY <1>0, <2>1, AsideTypes DEF Exists
<1>2. CASE Age
  <2>1. UNCHANGED <<intent, progress, inst, pc, job, backoff, settle, edits>> /\ aged' = TRUE
    BY <1>2 DEF Age, row
  <2>2. budget' \in 0..MaxFaults
    BY <1>0, <1>2, BudgetType DEF Age
  <2>3. TypeOK'
    BY <1>0, <2>1, <2>2 DEF TypeOK
  <2> QED BY <1>0, <2>1, <2>3, AsideTypes DEF Exists
<1>3. CASE Retarget
  <2>1. /\ edits' = edits - 1 /\ intent' = [intent EXCEPT !.version = @ + 1] /\ edits > 0
        /\ UNCHANGED <<progress, aged, inst, pc, job, backoff, settle, budget>>
    BY <1>3 DEF Retarget
  <2>2. intent.version \in Nat /\ edits \in Nat
    BY <1>0 DEF TypeOK, Intent, Versions
  <2>3. intent.version + 1 \in Versions /\ edits - 1 \in 0..MaxEdits
    BY <1>0, <2>1, <2>2 DEF Versions
  <2>4. intent' \in Intent /\ intent'.version = intent.version + 1
    BY <1>0, <2>1, <2>3 DEF TypeOK, Intent
  <2>5. TypeOK'
    BY <1>0, <2>1, <2>3, <2>4 DEF TypeOK
  <2>6. intent'.version + edits' = MaxEdits
    BY <1>0, <2>1, <2>2, <2>4
  <2> QED BY <2>1, <2>5, <2>6, AsideTypes DEF Exists
<1>4. CASE Delete
  <2>1. intent' \in Intent /\ intent'.version = intent.version
    BY <1>0, <1>4 DEF Delete, TypeOK, Intent
  <2>2. UNCHANGED <<progress, aged, inst, pc, job, backoff, settle, edits, budget>>
    BY <1>4 DEF Delete
  <2>3. TypeOK'
    BY <1>0, <2>1, <2>2 DEF TypeOK
  <2> QED BY <1>0, <2>1, <2>2, <2>3, AsideTypes DEF Exists
<1>5. ASSUME NEW k \in Slots, Boot(k) \/ Break(k)
      PROVE  TypeInv'
  <2>1. UNCHANGED <<intent, progress, aged, pc, job, backoff, settle, edits>>
    BY <1>5 DEF Boot, Break, row
  <2>2. budget' \in 0..MaxFaults
    BY <1>0, <1>5, BudgetType DEF Boot, Break
  <2>3. PICK s, x : /\ s \in {"running", "failed"}
                   /\ x = [inst[k] EXCEPT !.state = s]
                   /\ HostSets(k, x)
    BY <1>5 DEF Boot, Break
  <2>4. Exists(k)
    <3>1. inst[k].state # "absent"
      BY <1>5 DEF Boot, Break
    <3> QED BY <3>1 DEF Exists, NoInst
  <2>5. inst' \in [Slots -> Inst \union {NoInst}] /\ inst'[k] # NoInst
    BY <1>0, <2>3, <2>4, StateTypes DEF States
  <2>6. TypeOK'
    BY <1>0, <2>1, <2>2, <2>5 DEF TypeOK
  <2>7. \A l : Exists(l) => inst'[l] # NoInst
    BY <1>0, <2>3, <2>5 DEF Exists, HostSets, TypeOK
  <2> QED BY <1>0, <2>1, <2>6, <2>7, AsideTypes
<1> QED BY <1>1, <1>2, <1>3, <1>4, <1>5

(* Whatever fails in a pass of _reconcile_one and whatever its strategy      *)
(* plans, the row keeps a StrategyProgress that the next pass can continue, *)
(* with hosts there are, a pass acts on instances there are, and its        *)
(* version never runs ahead of the edits.                                   *)
THEOREM TypeCorrect == Spec => []TypeOK
<1>1. TypeInv /\ [Next]_vars => TypeInv'
  <2> SUFFICES ASSUME TypeInv, [Next]_vars PROVE TypeInv'
    OBVIOUS
  <2>1. CASE Step
    BY <2>1, BeginTypes, SettleRefreshTypes, ObserveTypes, StopInstanceTypes, DeleteInstanceTypes,
       CreateInstanceTypes, StartInstanceTypes, WriteStatusTypes DEF Step
  <2>2. CASE PassFails \/ Crash
    <3>1. /\ Forget /\ UNCHANGED <<intent, progress, aged, inst, edits>>
          /\ backoff' \in BOOLEAN /\ settle' \in BOOLEAN
      BY <2>2 DEF PassFails, Crash, row, TypeInv, TypeOK
    <3>2. budget' \in 0..MaxFaults
      BY <2>2, BudgetType DEF PassFails, Crash, TypeInv
    <3> QED BY <3>1, <3>2, ForgetTypes
  <2>3. CASE EndBackoff \/ EndSettle \/ Age \/ Retarget \/ Delete
             \/ \E k \in Slots : Boot(k) \/ Break(k)
    BY <2>3, AsideSteps
  <2>4. CASE UNCHANGED vars
    <3>1. TypeOK' /\ UNCHANGED <<progress, pc, job, intent, edits, inst>>
      BY <2>4 DEF vars, TypeInv, TypeOK
    <3> QED BY <3>1, AsideTypes DEF Exists, TypeInv
  <2> QED BY <2>1, <2>2, <2>3, <2>4 DEF Next
<1>2. TypeInv => TypeOK
  BY DEF TypeInv
<1> QED BY <1>1, <1>2, InitTypes, PTL DEF Spec
================================================================================
