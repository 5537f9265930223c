--------------------------- MODULE DisplacementProofs ---------------------------
(***************************************************************************)
(* What holds of displacement for any number of hosts, workloads and       *)
(* movers of every kind at once, and under every fault.                    *)
(***************************************************************************)
EXTENDS Displacement, FiniteSetTheorems, TLAPS

--------------------------------------------------------------------------------
(* Types, and what a mover or a plan knows at each place. *)

Places ==
  Migrating \union {"idle", "scan", "reserve", "store", "held", "free", "drop", "evict", "done"}

HostTypes ==
  /\ inst \in [Slots -> Inst \union {NoInst}]
  /\ cache \in [Hosts -> SUBSET Entry]

(* A plan names what it acts on. *)
Orders(w) ==
  /\ plan[w].type \in {"stop", "recreate"} => plan[w].slot \in Slots
  /\ plan[w].type = "create" => plan[w].host \in Hosts

OwnerTypes ==
  /\ plan \in [Loads -> Act]
  /\ rest \subseteq Loads
  /\ \A w \in Loads : Orders(w)

(* So does a mover; until it has come to a host, its lists are empty. *)
Aims(m) ==
  /\ pc[m] = "idle" => move[m] = NoMove
  /\ pc[m] \in Migrating \union {"evict"} => move[m].slot \in Slots
  /\ pc[m] \in Migrating => move[m].source \in Hosts /\ move[m].target \in Hosts
  /\ pc[m] \in {"stop", "disown", "forget", "create"} => move[m].load \in Loads
  /\ pc[m] \in {"reserve", "store"} => move[m].at \in Hosts
  /\ pc[m] \in Migrating /\ Kind[m] = "reservation" => move[m].at \in Hosts
  /\ move[m].at = 0 => move[m].todo = {} /\ move[m].one = 0

MoverTypes ==
  /\ pc \in [Movers -> Places]
  /\ move \in [Movers -> Move]
  /\ \A m \in Movers : Aims(m)

LeaseTypes ==
  /\ lease \in [Movers -> Hosts \union {0}]
  /\ tracked \in [Movers -> Hosts \union {0}]

TypeInv ==
  HostTypes /\ OwnerTypes /\ MoverTypes /\ LeaseTypes /\ budget \in 0..MaxFaults

LEMMA ZeroIsNobody == 0 \notin Hosts /\ 0 \notin Slots
BY DisplacementAssumption

LEMMA ConstantTypes ==
  /\ NoMove \in Move /\ NoAct \in Act
  /\ NoMove.slot = 0 /\ NoMove.at = 0 /\ NoMove.one = 0 /\ NoMove.todo = {}
  /\ NoAct.type = "none" /\ NoAct.slot = 0
BY DEF NoMove, Move, NoAct, Act

LEMMA SpendTypes ==
  ASSUME TypeInv, NEW kind, Spend(kind)
  PROVE  budget' \in 0..MaxFaults /\ budget' # MaxFaults
BY DisplacementAssumption DEF Spend, TypeInv

LEMMA ActualTypes ==
  ASSUME HostTypes, NEW h \in Hosts
  PROVE  Actual(h) \subseteq Entry
BY DEF HostTypes, Actual, Listed, On, Entry, Inst

LEMMA HostSetsTypes ==
  ASSUME HostTypes, NEW k \in Slots, NEW v \in Inst \union {NoInst}, HostSets(k, v)
  PROVE  /\ inst' \in [Slots -> Inst \union {NoInst}]
         /\ inst'[k] = v
         /\ \A j \in Slots \ {k} : inst'[j] = inst[j]
BY DEF HostSets, HostTypes

LEMMA NoInstIsNone == NoInst \notin Inst
BY DEF NoInst, Inst

LEMMA ChangedTypes ==
  ASSUME HostTypes, NEW k \in Slots, inst[k] # NoInst
  PROVE  /\ inst[k] \in Inst
         /\ \A s \in {"stopped", "running"} :
              /\ [inst[k] EXCEPT !.state = s] \in Inst
              /\ [inst[k] EXCEPT !.state = s].load = inst[k].load
              /\ [inst[k] EXCEPT !.state = s].host = inst[k].host
              /\ [inst[k] EXCEPT !.state = s].owned = inst[k].owned
              /\ [inst[k] EXCEPT !.state = s].state = s
         /\ [inst[k] EXCEPT !.owned = FALSE] \in Inst
         /\ [inst[k] EXCEPT !.owned = FALSE].load = inst[k].load
         /\ [inst[k] EXCEPT !.owned = FALSE].host = inst[k].host
         /\ [inst[k] EXCEPT !.owned = FALSE].state = inst[k].state
         /\ [inst[k] EXCEPT !.owned = FALSE].owned = FALSE
BY DEF HostTypes, Inst

LEMMA InitTypeInv == Init => TypeInv
<1> SUFFICES ASSUME Init PROVE TypeInv
  OBVIOUS
<1>1. inst \in [Slots -> Inst \union {NoInst}]
  BY DEF Init
<1>2. \A h \in Hosts : Actual(h) \subseteq Entry
  BY <1>1 DEF Actual, Listed, On, Entry, Inst
<1>3. budget \in 0..MaxFaults
  BY DisplacementAssumption DEF Init
<1>4. HostTypes /\ LeaseTypes
  BY <1>1, <1>2 DEF Init, HostTypes, LeaseTypes
<1>5. OwnerTypes
  BY ConstantTypes DEF Init, OwnerTypes, Orders
<1>6. MoverTypes
  BY ConstantTypes DEF Init, MoverTypes, Aims, Migrating, Places
<1> QED BY <1>3, <1>4, <1>5, <1>6 DEF TypeInv

(* A step of one mover. *)
LEMMA GotoTypes ==
  ASSUME TypeInv, NEW m \in Movers, NEW place \in Places, Goto(m, place)
  PROVE  /\ pc' \in [Movers -> Places]
         /\ pc'[m] = place
         /\ \A n \in Movers \ {m} : pc'[n] = pc[n]
BY DEF Goto, TypeInv, MoverTypes

LEMMA MovesTypes ==
  ASSUME TypeInv, NEW m \in Movers, NEW place \in Places, Goto(m, place),
         NEW v \in Move, move' = [move EXCEPT ![m] = v], Aims(m)'
  PROVE  MoverTypes' /\ move'[m] = v /\ pc'[m] = place
<1>1. move' \in [Movers -> Move] /\ move'[m] = v /\ \A n \in Movers \ {m} : move'[n] = move[n]
  BY DEF TypeInv, MoverTypes
<1> QED BY <1>1, GotoTypes DEF MoverTypes, Aims, TypeInv

LEMMA PcTypes ==
  ASSUME TypeInv, NEW m \in Movers, NEW place \in Places, Goto(m, place), UNCHANGED move,
         Aims(m)'
  PROVE  MoverTypes'
BY GotoTypes DEF MoverTypes, Aims, TypeInv

LEMMA FinishTypes ==
  ASSUME TypeInv, NEW m \in Movers, Finish(m)
  PROVE  MoverTypes' /\ pc'[m] = "done" /\ move'[m] = NoMove
<1>1. move'[m] = NoMove /\ pc'[m] = "done" /\ "done" \in Places
  BY GotoTypes DEF Finish, TypeInv, MoverTypes, Places
<1>2. Aims(m)'
  BY <1>1, ConstantTypes DEF Aims, Migrating
<1> QED BY <1>1, <1>2, MovesTypes, ConstantTypes DEF Finish

(* What a reservation goes back to its scan with. *)
Back(m) == [NoMove EXCEPT !.at = move[m].at, !.todo = move[m].todo,
                          !.one = move[m].one, !.to = move[m].to]

LEMMA BackTypes ==
  ASSUME TypeInv, NEW m \in Movers
  PROVE  /\ Back(m) \in Move /\ Back(m).at = move[m].at /\ Back(m).todo = move[m].todo
         /\ Back(m).one = move[m].one
<1>1. move[m] \in Move
  BY DEF TypeInv, MoverTypes
<1> QED BY <1>1 DEF Back, NoMove, Move

LEMMA LeaveTypes ==
  ASSUME TypeInv, NEW m \in Movers, Leave(m)
  PROVE  /\ MoverTypes'
         /\ \/ pc'[m] = "scan" /\ move'[m] = Back(m) /\ Kind[m] = "reservation"
            \/ pc'[m] = "done" /\ move'[m] = NoMove
<1>1. CASE Kind[m] = "reservation"
  <2>1. Goto(m, "scan") /\ move' = [move EXCEPT ![m] = Back(m)] /\ "scan" \in Places
    BY <1>1 DEF Leave, Back, Places
  <2>2. pc'[m] = "scan" /\ move'[m] = Back(m)
    BY <2>1, GotoTypes DEF TypeInv, MoverTypes
  <2>3. Aims(m)'
    BY <2>2, BackTypes DEF Aims, Migrating, TypeInv, MoverTypes
  <2> QED BY <1>1, <2>1, <2>2, <2>3, BackTypes, MovesTypes
<1>2. CASE Kind[m] # "reservation"
  BY <1>2, FinishTypes DEF Leave, Finish
<1> QED BY <1>1, <1>2

--------------------------------------------------------------------------------
(* Each action keeps the types. *)

LEMMA SurveyTypes == ASSUME TypeInv, NEW m \in Movers, Survey(m) PROVE TypeInv'
<1> USE DEF Survey
<1>1. HostTypes' /\ OwnerTypes' /\ LeaseTypes'
  BY DEF TypeInv, HostTypes, OwnerTypes, Orders, LeaseTypes, owner, leases
<1>2. CASE Fit(m) /\ move' = [move EXCEPT ![m].load = inst[move[m].slot].load,
                                          ![m].owned = inst[move[m].slot].owned]
           /\ Goto(m, "stop") /\ UNCHANGED budget
  <2> DEFINE k == move[m].slot
             v == [move[m] EXCEPT !.load = inst[k].load, !.owned = inst[k].owned]
  <2>1. k \in Slots /\ move[m] \in Move /\ move[m].source \in Hosts /\ move[m].target \in Hosts
    BY DEF TypeInv, MoverTypes, Aims, Migrating
  <2>2. inst[k] \in Inst
    BY <2>1, <1>2, ChangedTypes DEF Fit, TypeInv
  <2>3. /\ v \in Move /\ v.slot = k /\ v.source \in Hosts /\ v.target \in Hosts
        /\ v.load \in Loads /\ v.at = move[m].at /\ v.todo = move[m].todo /\ v.one = move[m].one
    BY <2>1, <2>2 DEF Move, Inst
  <2>4. move' = [move EXCEPT ![m] = v]
    BY <1>2 DEF TypeInv, MoverTypes
  <2> HIDE DEF v
  <2>5. move'[m] = v /\ pc'[m] = "stop" /\ "stop" \in Places
    BY <2>4, <1>2, GotoTypes DEF TypeInv, MoverTypes, Places, Migrating
  <2>6. Aims(m)'
    BY <2>5, <2>3, <2>1 DEF Aims, Migrating, TypeInv, MoverTypes
  <2> QED BY <1>1, <1>2, <2>3, <2>4, <2>5, <2>6, MovesTypes DEF TypeInv
<1>3. CASE (Fit(m) => Spend("host_error")) /\ (~Fit(m) => UNCHANGED budget) /\ Leave(m)
  BY <1>1, <1>3, LeaveTypes, SpendTypes DEF TypeInv
<1> QED BY <1>2, <1>3

(* A mover goes on with the migration it is at. *)
LEMMA OnwardTypes ==
  ASSUME TypeInv, NEW m \in Movers, NEW place \in {"disown", "forget", "create"},
         pc[m] \in {"stop", "disown", "forget"}, Goto(m, place), UNCHANGED move
  PROVE  MoverTypes'
<1>1. place \in Places /\ pc'[m] = place /\ move'[m] = move[m]
  BY GotoTypes DEF Places, Migrating
<1>2. Aims(m)'
  BY <1>1 DEF Aims, Migrating, TypeInv, MoverTypes
<1> QED BY <1>1, <1>2, PcTypes

LEMMA StopSourceTypes == ASSUME TypeInv, NEW m \in Movers, StopSource(m) PROVE TypeInv'
<1> DEFINE k == move[m].slot
<1>1. k \in Slots /\ pc[m] = "stop"
  BY DEF StopSource, TypeInv, MoverTypes, Aims, Migrating
<1>2. UNCHANGED <<cache, plan, rest, lease, tracked>>
  BY DEF StopSource, owner, leases
<1>3. MoverTypes' /\ budget' \in 0..MaxFaults
  BY <1>1, OnwardTypes, LeaveTypes, SpendTypes DEF StopSource, TypeInv
<1>4. inst' \in [Slots -> Inst \union {NoInst}]
  <2>1. CASE UNCHANGED inst
    BY <2>1 DEF TypeInv, HostTypes
  <2>2. CASE inst[k] # NoInst /\ HostSets(k, [inst[k] EXCEPT !.state = "stopped"])
    <3>1. [inst[k] EXCEPT !.state = "stopped"] \in Inst
      BY <1>1, <2>2, ChangedTypes DEF TypeInv
    <3> QED BY <1>1, <2>2, <3>1, HostSetsTypes DEF TypeInv
  <2> QED BY <2>1, <2>2 DEF StopSource
<1> QED BY <1>2, <1>3, <1>4 DEF TypeInv, HostTypes, OwnerTypes, Orders, LeaseTypes

LEMMA DisownTypes == ASSUME TypeInv, NEW m \in Movers, Disown(m) PROVE TypeInv'
<1> DEFINE k == move[m].slot
<1>1. k \in Slots /\ pc[m] = "disown"
  BY DEF Disown, TypeInv, MoverTypes, Aims, Migrating
<1>2. UNCHANGED <<cache, plan, rest, lease, tracked>>
  BY DEF Disown, owner, leases
<1>3. MoverTypes' /\ budget' \in 0..MaxFaults
  BY <1>1, OnwardTypes, LeaveTypes, SpendTypes DEF Disown, TypeInv
<1>4. inst' \in [Slots -> Inst \union {NoInst}]
  <2>1. CASE UNCHANGED inst
    BY <2>1 DEF TypeInv, HostTypes
  <2>2. CASE inst[k] # NoInst /\ HostSets(k, [inst[k] EXCEPT !.owned = FALSE])
    <3>1. [inst[k] EXCEPT !.owned = FALSE] \in Inst
      BY <1>1, <2>2, ChangedTypes DEF TypeInv
    <3> QED BY <1>1, <2>2, <3>1, HostSetsTypes DEF TypeInv
  <2> QED BY <2>1, <2>2 DEF Disown
<1> QED BY <1>2, <1>3, <1>4 DEF TypeInv, HostTypes, OwnerTypes, Orders, LeaseTypes

LEMMA ForgetTypes == ASSUME TypeInv, NEW m \in Movers, Forget(m) PROVE TypeInv'
<1> DEFINE h == move[m].source
           k == move[m].slot
<1>1. pc[m] = "forget" /\ h \in Hosts
  BY DEF Forget, TypeInv, MoverTypes, Aims, Migrating
<1>2. UNCHANGED <<inst, plan, rest, lease, tracked>>
  BY DEF Forget, owner, leases
<1>3. MoverTypes' /\ budget' \in 0..MaxFaults
  BY <1>1, OnwardTypes, LeaveTypes, SpendTypes DEF Forget, TypeInv
<1>4. cache' \in [Hosts -> SUBSET Entry]
  <2>1. {IF e.slot = k THEN [e EXCEPT !.owned = FALSE] ELSE e : e \in cache[h]} \subseteq Entry
    <3>1. cache[h] \subseteq Entry
      BY <1>1 DEF TypeInv, HostTypes
    <3>2. \A e \in Entry : [e EXCEPT !.owned = FALSE] \in Entry
      BY DEF Entry
    <3> QED BY <3>1, <3>2
  <2> QED BY <2>1, <1>1 DEF Forget, TypeInv, HostTypes
<1> QED BY <1>2, <1>3, <1>4 DEF TypeInv, HostTypes, OwnerTypes, Orders, LeaseTypes

LEMMA CreateTargetTypes == ASSUME TypeInv, NEW m \in Movers, CreateTarget(m) PROVE TypeInv'
<1> DEFINE new == [host |-> move[m].target, load |-> move[m].load,
                   owned |-> move[m].owned, state |-> "stopped"]
<1>1. pc[m] = "create" /\ move[m] \in Move /\ new \in Inst
  <2>1. /\ pc[m] = "create" /\ move[m].target \in Hosts /\ move[m].load \in Loads
        /\ move[m] \in Move
    BY DEF CreateTarget, TypeInv, MoverTypes, Aims, Migrating
  <2> QED BY <2>1 DEF Inst, Move
<1>2. UNCHANGED <<cache, plan, rest, lease, tracked>>
  BY DEF CreateTarget, owner, leases
<1>3. PICK k \in Slots :
        /\ HostSets(k, new) \/ UNCHANGED inst
        /\ UNCHANGED budget \/ Spend("host_error")
        /\ \/ Leave(m)
           \/ /\ Kind[m] = "reservation" /\ Goto(m, "reserve")
              /\ move' = [move EXCEPT ![m] = [NoMove EXCEPT !.at = move[m].at]]
  BY DEF CreateTarget
<1>4. inst' \in [Slots -> Inst \union {NoInst}] /\ budget' \in 0..MaxFaults
  BY <1>1, <1>3, HostSetsTypes, SpendTypes DEF TypeInv, HostTypes
<1>5. MoverTypes'
  <2>1. CASE Kind[m] = "reservation" /\ Goto(m, "reserve")
             /\ move' = [move EXCEPT ![m] = [NoMove EXCEPT !.at = move[m].at]]
    <3> DEFINE v == [NoMove EXCEPT !.at = move[m].at]
    <3>1. move[m].at \in Hosts
      BY <1>1, <2>1 DEF TypeInv, MoverTypes, Aims, Migrating
    <3>2. v \in Move /\ v.at = move[m].at
      BY <3>1 DEF NoMove, Move
    <3>3. move' = [move EXCEPT ![m] = v]
      BY <2>1
    <3> HIDE DEF v
    <3>4. move'[m] = v /\ pc'[m] = "reserve" /\ "reserve" \in Places
      BY <3>3, <2>1, GotoTypes DEF TypeInv, MoverTypes, Places
    <3>5. Aims(m)'
      BY <3>4, <3>1, <3>2, ZeroIsNobody DEF Aims, Migrating
    <3> QED BY <3>2, <3>3, <3>4, <3>5, <2>1, MovesTypes
  <2> QED BY <2>1, <1>3, LeaveTypes
<1> QED BY <1>2, <1>4, <1>5 DEF TypeInv, HostTypes, OwnerTypes, Orders, LeaseTypes

LEMMA BeginTypes == ASSUME TypeInv, NEW m \in Movers, BeginReservation(m) PROVE TypeInv'
<1>1. pc[m] = "idle" /\ move[m] = NoMove
  BY DEF BeginReservation, TypeInv, MoverTypes, Aims
<1>2. UNCHANGED <<inst, cache, plan, rest, lease, tracked, budget>>
  BY DEF BeginReservation, owner, leases
<1>3. MoverTypes'
  <2>1. CASE Goto(m, "scan") /\ UNCHANGED move
    <3>1. pc'[m] = "scan" /\ "scan" \in Places /\ move'[m] = NoMove
      BY <2>1, <1>1, GotoTypes DEF Places
    <3>2. Aims(m)'
      BY <3>1, ConstantTypes DEF Aims, Migrating
    <3> QED BY <2>1, <3>1, <3>2, PcTypes
  <2>2. ASSUME NEW h \in Hosts, Goto(m, "reserve"), move' = [move EXCEPT ![m].at = h]
        PROVE  MoverTypes'
    <3> DEFINE v == [move[m] EXCEPT !.at = h]
    <3>1. v \in Move /\ v.at = h
      <4>1. move[m] \in Move
        BY DEF TypeInv, MoverTypes
      <4> QED BY <4>1 DEF Move
    <3>2. move' = [move EXCEPT ![m] = v]
      BY <2>2 DEF TypeInv, MoverTypes
    <3> HIDE DEF v
    <3>3. move'[m] = v /\ pc'[m] = "reserve" /\ "reserve" \in Places
      BY <3>2, <2>2, GotoTypes DEF TypeInv, MoverTypes, Places
    <3>4. Aims(m)'
      BY <3>1, <3>3, ZeroIsNobody DEF Aims, Migrating
    <3> QED BY <3>1, <3>2, <3>3, <3>4, <2>2, MovesTypes
  <2> QED BY <2>1, <2>2 DEF BeginReservation, Fullest, Fitting
<1> QED BY <1>2, <1>3 DEF TypeInv, HostTypes, OwnerTypes, Orders, LeaseTypes

LEMMA LowestIn == ASSUME NEW S PROVE Lowest(S) \subseteq S
BY DEF Lowest

LEMMA ScanTypes == ASSUME TypeInv, NEW m \in Movers, Scan(m) PROVE TypeInv'
<1> DEFINE v == move[m]
<1>1. pc[m] = "scan" /\ v \in Move /\ (v.at = 0 => v.todo = {} /\ v.one = 0)
  BY DEF Scan, TypeInv, MoverTypes, Aims
<1>2. UNCHANGED <<inst, cache, plan, rest, lease, tracked, budget>>
  BY DEF Scan, owner, leases
<1>3. MoverTypes'
  <2>1. ASSUME NEW h \in Hosts, v.one # 0, Goto(m, "survey"),
               move' = [move EXCEPT ![m] =
                 [v EXCEPT !.slot = v.one, !.source = v.at, !.target = h, !.to = h]]
        PROVE  MoverTypes'
    <3> DEFINE w == [v EXCEPT !.slot = v.one, !.source = v.at, !.target = h, !.to = h]
    <3>1. v.at \in Hosts /\ v.one \in Slots
      BY <1>1, <2>1 DEF Move
    <3>2. /\ w \in Move /\ w.slot = v.one /\ w.source = v.at /\ w.target = h
          /\ w.at = v.at /\ w.todo = v.todo /\ w.one = v.one
      BY <1>1, <3>1 DEF Move
    <3>3. move' = [move EXCEPT ![m] = w]
      BY <2>1
    <3> HIDE DEF w
    <3>4. move'[m] = w /\ pc'[m] = "survey" /\ "survey" \in Places
      BY <3>3, <2>1, GotoTypes DEF TypeInv, MoverTypes, Places, Migrating
    <3>5. Aims(m)'
      BY <3>1, <3>2, <3>4, ZeroIsNobody DEF Aims, Migrating
    <3> QED BY <3>2, <3>3, <3>4, <3>5, <2>1, MovesTypes
  <2>2. ASSUME NEW e \in v.todo, UNCHANGED pc,
               move' = [move EXCEPT ![m] = [v EXCEPT !.one = e.slot, !.to = 0, !.todo = @ \ {e}]]
        PROVE  MoverTypes'
    <3> DEFINE w == [v EXCEPT !.one = e.slot, !.to = 0, !.todo = @ \ {e}]
    <3>1. e.slot \in Slots /\ v.at # 0
      BY <1>1, <2>2 DEF Move, Entry
    <3>2. w \in Move /\ w.at = v.at
      BY <1>1, <3>1 DEF Move
    <3>3. move' = [move EXCEPT ![m] = w]
      BY <2>2
    <3> HIDE DEF w
    <3>4. /\ move'[m] = w /\ pc' = pc /\ move' \in [Movers -> Move]
          /\ \A n \in Movers \ {m} : move'[n] = move[n]
      BY <3>2, <3>3, <2>2 DEF TypeInv, MoverTypes
    <3>5. Aims(m)'
      BY <1>1, <3>1, <3>2, <3>4 DEF Aims, Migrating
    <3> QED BY <3>4, <3>5 DEF TypeInv, MoverTypes, Aims
  <2>3. ASSUME NEW h \in Hosts, UNCHANGED pc,
               move' = [move EXCEPT ![m] =
                 [NoMove EXCEPT !.at = h, !.todo = Displaceable(h, Claim[m])]]
        PROVE  MoverTypes'
    <3> DEFINE w == [NoMove EXCEPT !.at = h, !.todo = Displaceable(h, Claim[m])]
    <3>1. Displaceable(h, Claim[m]) \subseteq Entry
      BY DEF Displaceable, TypeInv, HostTypes
    <3>2. w \in Move /\ w.at = h
      BY <3>1 DEF Move, NoMove
    <3>3. move' = [move EXCEPT ![m] = w]
      BY <2>3
    <3> HIDE DEF w
    <3>4. /\ move'[m] = w /\ pc' = pc /\ move' \in [Movers -> Move]
          /\ \A n \in Movers \ {m} : move'[n] = move[n]
      BY <3>2, <3>3, <2>3 DEF TypeInv, MoverTypes
    <3>5. Aims(m)'
      BY <1>1, <3>2, <3>4, ZeroIsNobody DEF Aims, Migrating
    <3> QED BY <3>4, <3>5 DEF TypeInv, MoverTypes, Aims
  <2>4. CASE Finish(m)
    BY <2>4, FinishTypes
  <2> QED BY <2>1, <2>2, <2>3, <2>4, LowestIn DEF Scan, Foremost
<1> QED BY <1>2, <1>3 DEF TypeInv, HostTypes, OwnerTypes, Orders, LeaseTypes

(* The steps of a reservation that hold the lease. *)
LEMMA LeasingTypes ==
  ASSUME TypeInv, NEW m \in Movers,
         HostReserves(m) \/ StoreReservation(m) \/ Release(m) \/ HostReleases(m)
           \/ DropReservation(m) \/ Expire(m)
  PROVE  TypeInv'
<1> USE DEF HostReserves, StoreReservation, Release, HostReleases, DropReservation, Expire
<1>1. UNCHANGED <<inst, cache, plan, rest>>
  BY DEF owner
<1>2. budget' \in 0..MaxFaults
  BY SpendTypes DEF TypeInv
<1>3. LeaseTypes'
  <2>1. move[m].at \in Hosts \union {0} /\ (pc[m] \in {"reserve", "store"} => move[m].at \in Hosts)
    BY DEF TypeInv, MoverTypes, Aims, Move
  <2> QED BY <2>1 DEF LeaseTypes, TypeInv, leases
<1>4. MoverTypes'
  <2>1. CASE Goto(m, "store") /\ UNCHANGED move /\ pc[m] = "reserve"
    <3>1. pc'[m] = "store" /\ move'[m] = move[m] /\ "store" \in Places
      BY <2>1, GotoTypes DEF Places
    <3>2. Aims(m)'
      BY <2>1, <3>1 DEF Aims, Migrating, TypeInv, MoverTypes
    <3> QED BY <2>1, <3>1, <3>2, PcTypes
  <2>2. ASSUME NEW place \in {"free", "drop", "done"}, Goto(m, place), UNCHANGED move
        PROVE  MoverTypes'
    <3>1. pc'[m] = place /\ move'[m] = move[m] /\ place \in Places
      BY <2>2, GotoTypes DEF Places
    <3>2. Aims(m)'
      BY <3>1 DEF Aims, Migrating, TypeInv, MoverTypes
    <3> QED BY <2>2, <3>1, <3>2, PcTypes
  <2>3. CASE Goto(m, "held") /\ move' = [move EXCEPT ![m] = NoMove]
    <3>1. pc'[m] = "held" /\ move'[m] = NoMove /\ "held" \in Places
      BY <2>3, GotoTypes DEF Places, TypeInv, MoverTypes
    <3>2. Aims(m)'
      BY <3>1, ConstantTypes DEF Aims, Migrating
    <3> QED BY <2>3, <3>1, <3>2, MovesTypes, ConstantTypes
  <2>4. CASE UNCHANGED <<pc, move>>
    BY <2>4 DEF TypeInv, MoverTypes, Aims
  <2> QED BY <2>1, <2>2, <2>3, <2>4, FinishTypes
<1> QED BY <1>1, <1>2, <1>3, <1>4 DEF TypeInv, HostTypes, OwnerTypes, Orders

LEMMA DisplaceTypes == ASSUME TypeInv, NEW m \in Movers, Displace(m) PROVE TypeInv'
<1>1. pc[m] = "idle" /\ move[m] = NoMove /\ Kind[m] = "displacement"
  BY DEF Displace, TypeInv, MoverTypes, Aims
<1>2. UNCHANGED <<inst, cache, plan, lease, tracked, budget>>
  BY DEF Displace, leases
<1>3. PICK h \in Hosts, e \in UNION {cache[g] : g \in Hosts} :
        /\ e \in Lowest(Displaceable(h, Claim[m]))
        /\ rest' = IF e.owned THEN rest \union {e.load} ELSE rest
        /\ \/ \E t \in Hosts :
                /\ move' = [move EXCEPT ![m] =
                     [@ EXCEPT !.slot = e.slot, !.source = h, !.target = t]]
                /\ Goto(m, "survey")
           \/ Goto(m, "evict") /\ move' = [move EXCEPT ![m].slot = e.slot]
           \/ Finish(m)
  BY DEF Displace, Fullest, Lowest, Displaceable
<1>4. e \in Entry
  BY <1>3, LowestIn DEF Displaceable, TypeInv, HostTypes
<1>5. OwnerTypes'
  BY <1>2, <1>3, <1>4 DEF TypeInv, OwnerTypes, Orders, Entry
<1>6. MoverTypes'
  <2>1. ASSUME NEW t \in Hosts, Goto(m, "survey"),
               move' = [move EXCEPT ![m] =
                 [@ EXCEPT !.slot = e.slot, !.source = h, !.target = t]]
        PROVE  MoverTypes'
    <3> DEFINE w == [move[m] EXCEPT !.slot = e.slot, !.source = h, !.target = t]
    <3>1. move[m] \in Move /\ move[m].at = 0 /\ move[m].todo = {} /\ move[m].one = 0
      BY <1>1, ConstantTypes
    <3>2. /\ w \in Move /\ w.slot \in Slots /\ w.source = h /\ w.target = t
          /\ w.at = 0 /\ w.todo = {} /\ w.one = 0
      BY <3>1, <1>4 DEF Move, Entry
    <3>3. move' = [move EXCEPT ![m] = w]
      BY <2>1 DEF TypeInv, MoverTypes
    <3> HIDE DEF w
    <3>4. move'[m] = w /\ pc'[m] = "survey" /\ "survey" \in Places
      BY <3>3, <2>1, GotoTypes DEF TypeInv, MoverTypes, Places, Migrating
    <3>5. Aims(m)'
      BY <1>1, <3>2, <3>4 DEF Aims, Migrating
    <3> QED BY <3>2, <3>3, <3>4, <3>5, <2>1, MovesTypes
  <2>2. CASE Goto(m, "evict") /\ move' = [move EXCEPT ![m].slot = e.slot]
    <3> DEFINE w == [move[m] EXCEPT !.slot = e.slot]
    <3>1. move[m] \in Move /\ move[m].at = 0 /\ move[m].todo = {} /\ move[m].one = 0
      BY <1>1, ConstantTypes
    <3>2. w \in Move /\ w.slot \in Slots /\ w.at = 0 /\ w.todo = {} /\ w.one = 0
      BY <3>1, <1>4 DEF Move, Entry
    <3>3. move' = [move EXCEPT ![m] = w]
      BY <2>2 DEF TypeInv, MoverTypes
    <3> HIDE DEF w
    <3>4. move'[m] = w /\ pc'[m] = "evict" /\ "evict" \in Places
      BY <3>3, <2>2, GotoTypes DEF TypeInv, MoverTypes, Places
    <3>5. Aims(m)'
      BY <1>1, <3>2, <3>4 DEF Aims, Migrating
    <3> QED BY <3>2, <3>3, <3>4, <3>5, <2>2, MovesTypes
  <2> QED BY <2>1, <2>2, <1>3, FinishTypes
<1> QED BY <1>2, <1>5, <1>6 DEF TypeInv, HostTypes, LeaseTypes

LEMMA RequestTypes == ASSUME TypeInv, NEW m \in Movers, Request(m) PROVE TypeInv'
<1>1. pc[m] = "idle" /\ move[m] = NoMove /\ Kind[m] = "operator"
  BY DEF Request, TypeInv, MoverTypes, Aims
<1>2. UNCHANGED <<inst, cache, plan, rest, lease, tracked, budget>>
  BY DEF Request, leases, owner
<1>3. PICK h \in Hosts, k \in Slots, t \in Hosts :
        move' = [move EXCEPT ![m] = [@ EXCEPT !.slot = k, !.source = h, !.target = t]]
  BY DEF Request, On
<1>4. MoverTypes'
  <2> DEFINE w == [move[m] EXCEPT !.slot = k, !.source = h, !.target = t]
  <2>1. move[m] \in Move /\ move[m].at = 0 /\ move[m].todo = {} /\ move[m].one = 0
    BY <1>1, ConstantTypes
  <2>2. /\ w \in Move /\ w.slot \in Slots /\ w.source = h /\ w.target = t
        /\ w.at = 0 /\ w.todo = {} /\ w.one = 0
    BY <2>1 DEF Move
  <2>3. move' = [move EXCEPT ![m] = w] /\ Goto(m, "survey")
    BY <1>3 DEF TypeInv, MoverTypes, Request
  <2> HIDE DEF w
  <2>4. move'[m] = w /\ pc'[m] = "survey" /\ "survey" \in Places
    BY <2>3, GotoTypes DEF TypeInv, MoverTypes, Places, Migrating
  <2>5. Aims(m)'
    BY <1>1, <2>2, <2>4 DEF Aims, Migrating
  <2> QED BY <2>2, <2>3, <2>4, <2>5, MovesTypes
<1> QED BY <1>2, <1>4 DEF TypeInv, HostTypes, OwnerTypes, Orders, LeaseTypes

LEMMA EvictTypes == ASSUME TypeInv, NEW m \in Movers, Evict(m) PROVE TypeInv'
<1> DEFINE k == move[m].slot
<1>1. k \in Slots
  BY DEF Evict, TypeInv, MoverTypes, Aims
<1>2. UNCHANGED <<cache, plan, rest, lease, tracked>>
  BY DEF Evict, owner, leases
<1>3. MoverTypes' /\ budget' \in 0..MaxFaults
  BY FinishTypes, SpendTypes DEF Evict, TypeInv
<1>4. inst' \in [Slots -> Inst \union {NoInst}]
  <2>1. CASE UNCHANGED inst
    BY <2>1 DEF TypeInv, HostTypes
  <2>2. CASE inst[k] # NoInst /\ HostSets(k, [inst[k] EXCEPT !.state = "stopped"])
    <3>1. [inst[k] EXCEPT !.state = "stopped"] \in Inst
      BY <1>1, <2>2, ChangedTypes DEF TypeInv
    <3> QED BY <1>1, <2>2, <3>1, HostSetsTypes DEF TypeInv
  <2>3. CASE HostSets(k, NoInst)
    BY <1>1, <2>3, HostSetsTypes DEF TypeInv
  <2> QED BY <2>1, <2>2, <2>3 DEF Evict
<1> QED BY <1>2, <1>3, <1>4 DEF TypeInv, HostTypes, OwnerTypes, Orders, LeaseTypes

LEMMA TimeoutTypes == ASSUME TypeInv, NEW m \in Movers, Timeout(m) PROVE TypeInv'
BY FinishTypes, SpendTypes
   DEF Timeout, owner, leases, TypeInv, HostTypes, OwnerTypes, Orders, LeaseTypes

LEMMA CrashTypes == ASSUME TypeInv, Crash PROVE TypeInv'
<1>1. UNCHANGED <<inst, cache, lease, tracked>> /\ budget' \in 0..MaxFaults
  BY SpendTypes DEF Crash, leases
<1>2. OwnerTypes'
  BY ConstantTypes DEF Crash, OwnerTypes, Orders
<1>3. MoverTypes'
  BY ConstantTypes DEF Crash, MoverTypes, Aims, Migrating, Places, TypeInv
<1> QED BY <1>1, <1>2, <1>3 DEF TypeInv, HostTypes, LeaseTypes

(* What a pass plans and does. *)
LEMMA PlanTypes ==
  ASSUME TypeInv, NEW w \in Loads, NEW act \in Act, Plan(w, act),
         act.type \in {"stop", "recreate"} => act.slot \in Slots,
         act.type = "create" => act.host \in Hosts,
         rest' \subseteq Loads
  PROVE  OwnerTypes'
<1>1. plan' \in [Loads -> Act] /\ plan'[w] = act /\ \A x \in Loads \ {w} : plan'[x] = plan[x]
  BY DEF Plan, TypeInv, OwnerTypes
<1> QED BY <1>1 DEF TypeInv, OwnerTypes, Orders

LEMMA DecideTypes == ASSUME TypeInv, NEW w \in Loads, Decide(w) PROVE TypeInv'
<1>1. UNCHANGED <<inst, cache, rest, pc, move, lease, tracked, budget>>
  BY DEF Decide, leases
<1>2. OwnerTypes'
  <2>1. \A e \in Managed(w) : e.slot \in Slots
    BY DEF Managed, TypeInv, HostTypes, Entry
  <2>2. ASSUME NEW e \in Managed(w), NEW type \in {"stop", "recreate"},
               Plan(w, [NoAct EXCEPT !.type = type, !.slot = e.slot])
        PROVE  OwnerTypes'
    <3> DEFINE act == [NoAct EXCEPT !.type = type, !.slot = e.slot]
    <3>1. act \in Act /\ act.slot \in Slots /\ act.type # "create"
      BY <2>1, <2>2 DEF Act, NoAct
    <3> HIDE DEF act
    <3> QED BY <2>2, <3>1, <1>1, PlanTypes DEF act, TypeInv, OwnerTypes
  <2>3. ASSUME NEW h \in Hosts, Plan(w, [NoAct EXCEPT !.type = "create", !.host = h])
        PROVE  OwnerTypes'
    <3> DEFINE act == [NoAct EXCEPT !.type = "create", !.host = h]
    <3>1. act \in Act /\ act.host \in Hosts /\ act.type = "create"
      BY DEF Act, NoAct
    <3> HIDE DEF act
    <3> QED BY <2>3, <3>1, <1>1, PlanTypes DEF act, TypeInv, OwnerTypes
  <2>4. \/ \E e \in Managed(w) : Plan(w, [NoAct EXCEPT !.type = "stop", !.slot = e.slot])
        \/ \E e \in Managed(w) : Plan(w, [NoAct EXCEPT !.type = "recreate", !.slot = e.slot])
        \/ \E h \in Hosts : Plan(w, [NoAct EXCEPT !.type = "create", !.host = h])
    BY DEF Decide, Fullest, Fitting
  <2> QED BY <2>2, <2>3, <2>4
<1> QED BY <1>1, <1>2 DEF TypeInv, HostTypes, MoverTypes, Aims, LeaseTypes

LEMMA ActedTypes ==
  ASSUME TypeInv, NEW w \in Loads, Acted(w)
  PROVE  OwnerTypes' /\ UNCHANGED <<cache, pc, move, lease, tracked>>
<1>1. Plan(w, NoAct) /\ rest' \subseteq Loads
  BY DEF Acted, TypeInv, OwnerTypes
<1> QED BY <1>1, PlanTypes, ConstantTypes DEF Acted, leases

LEMMA StopSurplusTypes == ASSUME TypeInv, NEW w \in Loads, StopSurplus(w) PROVE TypeInv'
<1> DEFINE k == plan[w].slot
<1>1. k \in Slots
  BY DEF StopSurplus, TypeInv, OwnerTypes, Orders
<1>2. OwnerTypes' /\ UNCHANGED <<cache, pc, move, lease, tracked>> /\ budget' \in 0..MaxFaults
  BY ActedTypes, SpendTypes DEF StopSurplus, TypeInv
<1>3. inst' \in [Slots -> Inst \union {NoInst}]
  <2>1. CASE UNCHANGED inst
    BY <2>1 DEF TypeInv, HostTypes
  <2>2. CASE inst[k] # NoInst /\ HostSets(k, [inst[k] EXCEPT !.state = "stopped"])
    <3>1. [inst[k] EXCEPT !.state = "stopped"] \in Inst
      BY <1>1, <2>2, ChangedTypes DEF TypeInv
    <3> QED BY <1>1, <2>2, <3>1, HostSetsTypes DEF TypeInv
  <2>3. CASE HostSets(k, NoInst)
    BY <1>1, <2>3, HostSetsTypes DEF TypeInv
  <2> QED BY <2>1, <2>2, <2>3 DEF StopSurplus
<1> QED BY <1>2, <1>3 DEF TypeInv, HostTypes, MoverTypes, Aims, LeaseTypes

LEMMA RestartTypes == ASSUME TypeInv, NEW w \in Loads, Restart(w) PROVE TypeInv'
<1> DEFINE k == plan[w].slot
<1>1. k \in Slots
  BY DEF Restart, TypeInv, OwnerTypes, Orders
<1>2. OwnerTypes' /\ UNCHANGED <<cache, pc, move, lease, tracked>> /\ budget' \in 0..MaxFaults
  BY ActedTypes, SpendTypes DEF Restart, TypeInv
<1>3. inst' \in [Slots -> Inst \union {NoInst}]
  <2>1. CASE UNCHANGED inst
    BY <2>1 DEF TypeInv, HostTypes
  <2>2. CASE inst[k] # NoInst /\ HostSets(k, [inst[k] EXCEPT !.state = "running"])
    <3>1. [inst[k] EXCEPT !.state = "running"] \in Inst
      BY <1>1, <2>2, ChangedTypes DEF TypeInv
    <3> QED BY <1>1, <2>2, <3>1, HostSetsTypes DEF TypeInv
  <2>3. CASE HostSets(k, NoInst)
    BY <1>1, <2>3, HostSetsTypes DEF TypeInv
  <2> QED BY <2>1, <2>2, <2>3 DEF Restart
<1> QED BY <1>2, <1>3 DEF TypeInv, HostTypes, MoverTypes, Aims, LeaseTypes

(* What Place makes. *)
New(w, s) == [host |-> plan[w].host, load |-> w, owned |-> TRUE, state |-> s]

LEMMA PlaceMakes ==
  ASSUME NEW w \in Loads, Place(w)
  PROVE  \E k \in Slots : Fresh(k) /\ (\/ HostSets(k, New(w, "stopped"))
                                       \/ HostSets(k, New(w, "running"))
                                       \/ UNCHANGED inst)
BY DEF Place, New

LEMMA PlaceTypes == ASSUME TypeInv, NEW w \in Loads, Place(w) PROVE TypeInv'
<1>1. plan[w].host \in Hosts
  BY DEF Place, TypeInv, OwnerTypes, Orders
<1>2. OwnerTypes' /\ UNCHANGED <<cache, pc, move, lease, tracked>> /\ budget' \in 0..MaxFaults
  BY ActedTypes, SpendTypes DEF Place, TypeInv
<1>3. New(w, "stopped") \in Inst /\ New(w, "running") \in Inst
  BY <1>1 DEF New, Inst
<1>4. inst' \in [Slots -> Inst \union {NoInst}]
  BY <1>3, PlaceMakes, HostSetsTypes DEF TypeInv, HostTypes
<1> QED BY <1>2, <1>4 DEF TypeInv, HostTypes, MoverTypes, Aims, LeaseTypes

LEMMA EndRestTypes == ASSUME TypeInv, NEW w \in Loads, EndRest(w) PROVE TypeInv'
BY DEF EndRest, leases, TypeInv, HostTypes, OwnerTypes, Orders, MoverTypes, Aims, LeaseTypes

LEMMA PushTypes == ASSUME TypeInv, NEW h \in Hosts, Push(h) PROVE TypeInv'
<1>1. cache' \in [Hosts -> SUBSET Entry]
  BY ActualTypes DEF Push, TypeInv, HostTypes
<1> QED BY <1>1 DEF Push, owner, leases, TypeInv, HostTypes, OwnerTypes, Orders, MoverTypes,
                    Aims, LeaseTypes

LEMMA NextTypeInv == TypeInv /\ [Next]_vars => TypeInv'
<1> SUFFICES ASSUME TypeInv, [Next]_vars PROVE TypeInv'
  OBVIOUS
<1>1. ASSUME NEW m \in Movers, Start(m) PROVE TypeInv'
  BY <1>1, BeginTypes, DisplaceTypes, RequestTypes DEF Start
<1>2. ASSUME NEW m \in Movers, Step(m) PROVE TypeInv'
  BY <1>2, SurveyTypes, StopSourceTypes, DisownTypes, ForgetTypes, CreateTargetTypes, ScanTypes,
     LeasingTypes, EvictTypes DEF Step
<1>3. ASSUME NEW m \in Movers, Release(m) \/ Expire(m) \/ Timeout(m) PROVE TypeInv'
  BY <1>3, LeasingTypes, TimeoutTypes
<1>4. ASSUME NEW w \in Loads, Pass(w) \/ EndRest(w) PROVE TypeInv'
  BY <1>4, DecideTypes, StopSurplusTypes, RestartTypes, PlaceTypes, EndRestTypes DEF Pass
<1>5. ASSUME NEW h \in Hosts, Push(h) PROVE TypeInv'
  BY <1>5, PushTypes
<1>6. CASE UNCHANGED vars
  BY <1>6 DEF vars, owner, leases, TypeInv, HostTypes, OwnerTypes, Orders, MoverTypes, Aims,
              LeaseTypes
<1> QED BY <1>1, <1>2, <1>3, <1>4, <1>5, <1>6, CrashTypes DEF Next

LEMMA TypesHold == Spec => []TypeInv
BY InitTypeInv, NextTypeInv, PTL DEF Spec

(* Whatever the hosts, the movers and the faults: what control, the hosts   *)
(* and Redis hold of a displacement is of its type.                         *)
THEOREM TypeCorrect == Spec => []TypeOK
<1>1. TypeInv => TypeOK
  BY DEF TypeInv, HostTypes, OwnerTypes, MoverTypes, LeaseTypes, Places, TypeOK
<1> QED BY <1>1, TypesHold, PTL

--------------------------------------------------------------------------------
(* No reservation is forgotten. *)

(* Undisturbed, the host's lease and Redis differ only while one is being   *)
(* recorded or given back.                                                  *)
Recorded(m) ==
  /\ lease[m] # 0 => tracked[m] = lease[m] \/ pc[m] = "store"
  /\ pc[m] = "store" => lease[m] \in {0, move[m].at}
  /\ pc[m] = "drop" => lease[m] = 0

LeaseInv == budget = MaxFaults => \A m \in Movers : Recorded(m)

(* What a step that is not about m's lease leaves of it. *)
Aside(m) ==
  /\ lease'[m] = lease[m] /\ tracked'[m] = tracked[m]
  /\ \/ pc'[m] = pc[m] /\ move'[m] = move[m]
     \/ pc[m] # "store" /\ pc'[m] \notin {"store", "drop"}

Untouched(m) ==
  pc'[m] = pc[m] /\ move'[m] = move[m] /\ lease'[m] = lease[m] /\ tracked'[m] = tracked[m]

LEMMA AsideKeeps == ASSUME NEW m, Recorded(m), Aside(m) PROVE Recorded(m)'
BY DEF Recorded, Aside

(* Faults take from the budget and nothing adds to it. *)
LEMMA BudgetFalls ==
  ASSUME TypeInv, [Next]_vars
  PROVE  budget' = budget \/ budget' < budget
<1> USE DEF Spend
<1>1. budget \in Int
  BY DisplacementAssumption DEF TypeInv
<1>2. ASSUME NEW m \in Movers, Start(m) PROVE budget' = budget
  BY <1>2 DEF Start, BeginReservation, Displace, Request
<1>3. ASSUME NEW m \in Movers, Step(m) PROVE budget' = budget \/ budget' = budget - 1
  BY <1>3 DEF Step, Survey, StopSource, Disown, Forget, CreateTarget, Scan, HostReserves,
              StoreReservation, HostReleases, DropReservation, Evict
<1>4. ASSUME NEW m \in Movers, Release(m) \/ Expire(m) \/ Timeout(m)
      PROVE  budget' = budget \/ budget' = budget - 1
  BY <1>4 DEF Release, Expire, Timeout
<1>5. ASSUME NEW w \in Loads, Pass(w) \/ EndRest(w)
      PROVE  budget' = budget \/ budget' = budget - 1
  BY <1>5 DEF Pass, EndRest, Decide, StopSurplus, Restart, Place
<1>6. ASSUME NEW h \in Hosts, Push(h) PROVE budget' = budget
  BY <1>6 DEF Push
<1>7. UNCHANGED vars => budget' = budget
  BY DEF vars
<1>8. Crash => budget' = budget - 1
  BY DEF Crash
<1>9. budget' = budget \/ budget' = budget - 1
  <2> HIDE DEF Spend
  <2> QED BY <1>2, <1>3, <1>4, <1>5, <1>6, <1>7, <1>8 DEF Next
<1> QED BY <1>1, <1>9

LEMMA OthersUntouched ==
  ASSUME TypeInv, NEW m \in Movers, NEW n \in Movers \ {m},
         Start(m) \/ Step(m) \/ Release(m) \/ Expire(m) \/ Timeout(m)
  PROVE  Untouched(n)
<1>1. /\ pc \in [Movers -> Places] /\ move \in [Movers -> Move]
      /\ lease \in [Movers -> Hosts \union {0}] /\ tracked \in [Movers -> Hosts \union {0}]
  BY DEF TypeInv, MoverTypes, LeaseTypes
<1>2. pc'[n] = pc[n]
  <2>1. (\E place : Goto(m, place)) \/ UNCHANGED pc
    BY DEF Step, Start, Release, Expire, Timeout, Leave, Finish, BeginReservation, Displace,
           Request, Survey,
           StopSource, Disown, Forget, CreateTarget, Scan, HostReserves, StoreReservation,
           HostReleases, DropReservation, Evict
  <2> QED BY <2>1, <1>1 DEF Goto
<1>3. move'[n] = move[n]
  <2>1. (\E v : move' = [move EXCEPT ![m] = v]) \/ UNCHANGED move
    <3>1. Leave(m) \/ Finish(m) => \E v : move' = [move EXCEPT ![m] = v]
      BY DEF Leave, Finish
    <3> QED BY <3>1, <1>1
         DEF Step, Start, Release, Expire, Timeout, BeginReservation, Displace, Request, Survey,
             StopSource, Disown, Forget, CreateTarget, Scan, HostReserves, StoreReservation,
             HostReleases, DropReservation, Evict
  <2> QED BY <2>1, <1>1
<1>4. lease'[n] = lease[n] /\ tracked'[n] = tracked[n]
  <2>1. (\E h : lease' = [lease EXCEPT ![m] = h]) \/ UNCHANGED lease
    BY DEF Step, Start, Release, Expire, Timeout, BeginReservation, Displace, Request,
           Survey, leases, Finish,
           StopSource, Disown, Forget, CreateTarget, Scan, HostReserves, StoreReservation,
           HostReleases, DropReservation, Evict
  <2>2. (\E h : tracked' = [tracked EXCEPT ![m] = h]) \/ UNCHANGED tracked
    BY DEF Step, Start, Release, Expire, Timeout, BeginReservation, Displace, Request,
           Survey, leases, Finish,
           StopSource, Disown, Forget, CreateTarget, Scan, HostReserves, StoreReservation,
           HostReleases, DropReservation, Evict
  <2> QED BY <2>1, <2>2, <1>1
<1> QED BY <1>2, <1>3, <1>4 DEF Untouched

(* The mover's own step, undisturbed. *)
LEMMA StepRecorded ==
  ASSUME TypeInv, NEW m \in Movers, Recorded(m), budget = MaxFaults, budget' = MaxFaults,
         Step(m) \/ Start(m) \/ Release(m) \/ Expire(m) \/ Timeout(m)
  PROVE  Recorded(m)'
<1>1. /\ pc \in [Movers -> Places] /\ move \in [Movers -> Move]
      /\ lease \in [Movers -> Hosts \union {0}] /\ tracked \in [Movers -> Hosts \union {0}]
  BY DEF TypeInv, MoverTypes, LeaseTypes
<1>2. \A kind : ~Spend(kind)
  BY DisplacementAssumption DEF Spend, TypeInv
<1>3. \A place \in Places : Goto(m, place) => pc'[m] = place
  BY GotoTypes
<1>4. {"scan", "reserve", "store", "held", "free", "drop", "done", "survey", "evict", "stop",
       "disown", "forget", "create"} \subseteq Places
  BY DEF Places, Migrating
<1>5. Leave(m) \/ Finish(m) => pc'[m] \in {"scan", "done"}
  BY LeaveTypes, FinishTypes
<1>6. CASE /\ UNCHANGED leases
           /\ pc[m] # "store" /\ pc'[m] \notin {"store", "drop"}
  BY <1>6, AsideKeeps DEF Aside, leases
<1>7. CASE Start(m)
  BY <1>3, <1>4, <1>5, <1>6, <1>7 DEF Start, BeginReservation, Displace, Request
<1>8. CASE Scan(m)
  BY <1>3, <1>4, <1>5, <1>6, <1>8 DEF Scan
<1>9. CASE Survey(m) \/ StopSource(m) \/ Disown(m) \/ Forget(m) \/ CreateTarget(m) \/ Evict(m)
  BY <1>3, <1>4, <1>5, <1>6, <1>9
     DEF Survey, StopSource, Disown, Forget, CreateTarget, Evict
<1>10. CASE Release(m)
  BY <1>3, <1>4, <1>6, <1>10 DEF Release
<1>11. CASE Expire(m)
  BY <1>1, <1>11 DEF Expire, Recorded
<1>12. CASE Timeout(m)
  BY <1>2, <1>12 DEF Timeout
<1>13. CASE HostReserves(m)
  <2>1. CASE lease' = [lease EXCEPT ![m] = move[m].at] /\ Goto(m, "store") /\ UNCHANGED move
    BY <1>1, <1>3, <1>4, <2>1 DEF Recorded
  <2>2. CASE Finish(m) /\ UNCHANGED lease
    BY <1>5, <1>6, <2>2, <1>13 DEF HostReserves, leases
  <2> QED BY <1>2, <1>13, <2>1, <2>2 DEF HostReserves
<1>14. CASE StoreReservation(m)
  <2>1. tracked'[m] = move[m].at /\ pc'[m] = "held" /\ lease' = lease
    BY <1>1, <1>2, <1>3, <1>4, <1>14 DEF StoreReservation
  <2> QED BY <2>1, <1>14 DEF Recorded, StoreReservation
<1>15. CASE HostReleases(m)
  BY <1>1, <1>2, <1>3, <1>4, <1>15 DEF HostReleases, Recorded
<1>16. CASE DropReservation(m)
  BY <1>1, <1>2, <1>3, <1>4, <1>16 DEF DropReservation, Recorded
<1> QED BY <1>7, <1>8, <1>9, <1>10, <1>11, <1>12, <1>13, <1>14, <1>15, <1>16 DEF Step

LEMMA NextLeaseInv == TypeInv /\ LeaseInv /\ [Next]_vars => LeaseInv'
<1> SUFFICES ASSUME TypeInv, LeaseInv, [Next]_vars, budget' = MaxFaults, NEW n \in Movers
             PROVE  Recorded(n)'
  BY DEF LeaseInv
<1>1. budget = MaxFaults /\ Recorded(n)
  BY BudgetFalls, DisplacementAssumption DEF TypeInv, LeaseInv
<1>2. ASSUME NEW m \in Movers, Start(m) \/ Step(m) \/ Release(m) \/ Expire(m) \/ Timeout(m)
      PROVE  Recorded(n)'
  <2>1. CASE n = m
    BY <1>1, <1>2, <2>1, StepRecorded
  <2>2. CASE n # m
    <3>1. Untouched(n)
      BY <1>2, <2>2, OthersUntouched
    <3> QED BY <1>1, <3>1, AsideKeeps DEF Untouched, Aside
  <2> QED BY <2>1, <2>2
<1>3. CASE UNCHANGED <<pc, move, leases>>
  BY <1>1, <1>3, AsideKeeps DEF Aside, leases
<1>4. ASSUME NEW w \in Loads, Pass(w) \/ EndRest(w) PROVE Recorded(n)'
  BY <1>3, <1>4 DEF Pass, Decide, StopSurplus, Restart, Place, Acted, EndRest
<1>5. ASSUME NEW h \in Hosts, Push(h) PROVE Recorded(n)'
  BY <1>3, <1>5 DEF Push
<1>6. CASE UNCHANGED vars
  BY <1>3, <1>6 DEF vars, leases
<1>7. ~Crash
  BY <1>1, DisplacementAssumption DEF Crash, Spend
<1> QED BY <1>2, <1>4, <1>5, <1>6, <1>7 DEF Next

(* Until something fails, a lease that a host holds is known to control or  *)
(* is about to be, however requests, releases and expiries interleave.      *)
THEOREM LeasesKnown == Spec => []LeaseKnown
<1>1. Init => LeaseInv
  <2> SUFFICES ASSUME Init, NEW m \in Movers PROVE Recorded(m)
    BY DEF LeaseInv
  <2> QED BY DEF Init, Recorded
<1>2. LeaseInv => LeaseKnown
  BY DEF LeaseInv, Recorded, LeaseKnown
<1> QED BY <1>1, <1>2, TypesHold, NextLeaseInv, PTL DEF Spec

--------------------------------------------------------------------------------
(* Only a less important workload gives way. *)

(* An identifier that somebody remembers keeps its workload and its host and *)
(* is not owned once more, or is gone.                                       *)
Same(k) ==
  inst'[k] # NoInst
    => /\ inst[k] # NoInst /\ inst'[k].load = inst[k].load /\ inst'[k].host = inst[k].host
       /\ inst'[k].owned => inst[k].owned

LEMMA FreshIsForgotten ==
  ASSUME NEW k, Fresh(k)
  PROVE  k \in Slots /\ inst[k] = NoInst /\ k \notin Remembered
BY DEF Fresh

LEMMA HostSetsSame ==
  ASSUME HostTypes, NEW k \in Slots, NEW v \in Inst \union {NoInst}, HostSets(k, v),
         \/ v = NoInst
         \/ k \notin Remembered
         \/ /\ inst[k] # NoInst /\ v.load = inst[k].load /\ v.host = inst[k].host
            /\ v.owned => inst[k].owned
  PROVE  \A j \in Slots : j \in Remembered => Same(j)
BY HostSetsTypes DEF Same

LEMMA GoneSame ==
  ASSUME HostTypes, NEW k \in Slots, HostSets(k, NoInst)
  PROVE  \A j \in Slots : j \in Remembered => Same(j)
BY HostSetsTypes DEF Same

LEMMA NewSame ==
  ASSUME HostTypes, NEW k \in Slots, NEW v \in Inst, HostSets(k, v), k \notin Remembered
  PROVE  \A j \in Slots : j \in Remembered => Same(j)
BY HostSetsTypes DEF Same

LEMMA StopSame ==
  ASSUME HostTypes, NEW k \in Slots, inst[k] # NoInst, NEW s \in {"stopped", "running"},
         HostSets(k, [inst[k] EXCEPT !.state = s])
  PROVE  \A j \in Slots : j \in Remembered => Same(j)
<1>1. PICK v : v = [inst[k] EXCEPT !.state = s]
  OBVIOUS
<1>2. v \in Inst /\ v.load = inst[k].load /\ v.host = inst[k].host /\ HostSets(k, v)
      /\ (v.owned => inst[k].owned)
  BY <1>1, ChangedTypes
<1> QED BY <1>2, HostSetsSame

LEMMA DisownSame ==
  ASSUME HostTypes, NEW k \in Slots, inst[k] # NoInst,
         HostSets(k, [inst[k] EXCEPT !.owned = FALSE])
  PROVE  \A j \in Slots : j \in Remembered => Same(j)
<1>1. PICK v : v = [inst[k] EXCEPT !.owned = FALSE]
  OBVIOUS
<1>2. v \in Inst /\ v.load = inst[k].load /\ v.host = inst[k].host /\ HostSets(k, v)
      /\ (v.owned => inst[k].owned)
  BY <1>1, ChangedTypes
<1> QED BY <1>2, HostSetsSame

LEMMA NextSame ==
  ASSUME TypeInv, [Next]_vars
  PROVE  \A j \in Slots : j \in Remembered => Same(j)
<1> DEFINE Goal == \A j \in Slots : j \in Remembered => Same(j)
<1>0. HostTypes
  BY DEF TypeInv
<1>1. CASE UNCHANGED inst
  BY <1>1 DEF Same
<1>2. ASSUME NEW m \in Movers, Start(m) PROVE Goal
  BY <1>1, <1>2 DEF Start, BeginReservation, Displace, Request
<1>3. ASSUME NEW m \in Movers, StopSource(m) \/ Disown(m) \/ Evict(m) PROVE Goal
  <2> DEFINE k == move[m].slot
  <2>1. k \in Slots
    BY <1>3 DEF StopSource, Disown, Evict, TypeInv, MoverTypes, Aims, Migrating
  <2>2. CASE HostSets(k, NoInst)
    BY <1>0, <2>1, <2>2, GoneSame
  <2>3. CASE inst[k] # NoInst /\ HostSets(k, [inst[k] EXCEPT !.state = "stopped"])
    BY <1>0, <2>1, <2>3, StopSame
  <2>4. CASE inst[k] # NoInst /\ HostSets(k, [inst[k] EXCEPT !.owned = FALSE])
    BY <1>0, <2>1, <2>4, DisownSame
  <2> QED BY <1>1, <1>3, <2>2, <2>3, <2>4 DEF StopSource, Disown, Evict
<1>4. ASSUME NEW m \in Movers, CreateTarget(m) PROVE Goal
  <2> DEFINE new == [host |-> move[m].target, load |-> move[m].load,
                     owned |-> move[m].owned, state |-> "stopped"]
  <2>1. new \in Inst
    <3>1. move[m].target \in Hosts /\ move[m].load \in Loads /\ move[m] \in Move
      BY <1>4 DEF CreateTarget, TypeInv, MoverTypes, Aims, Migrating
    <3> QED BY <3>1 DEF Inst, Move
  <2>2. PICK k \in Slots : Fresh(k) /\ (HostSets(k, new) \/ UNCHANGED inst)
    BY <1>4 DEF CreateTarget
  <2>3. k \notin Remembered
    BY <2>2, FreshIsForgotten
  <2> HIDE DEF new
  <2>4. CASE HostSets(k, new)
    BY <1>0, <2>1, <2>3, <2>4, NewSame
  <2> QED BY <1>1, <2>2, <2>4
<1>5. ASSUME NEW m \in Movers, Step(m) PROVE Goal
  BY <1>1, <1>3, <1>4, <1>5
     DEF Step, Survey, Forget, Scan, HostReserves, StoreReservation, HostReleases, DropReservation
<1>6. ASSUME NEW m \in Movers, Release(m) \/ Expire(m) \/ Timeout(m) PROVE Goal
  BY <1>1, <1>6 DEF Release, Expire, Timeout
<1>7. ASSUME NEW w \in Loads, StopSurplus(w) \/ Restart(w) PROVE Goal
  <2> DEFINE k == plan[w].slot
  <2>1. k \in Slots
    BY <1>7 DEF StopSurplus, Restart, TypeInv, OwnerTypes, Orders
  <2>2. CASE HostSets(k, NoInst)
    BY <1>0, <2>1, <2>2, GoneSame
  <2>3. ASSUME NEW s \in {"stopped", "running"}, inst[k] # NoInst,
               HostSets(k, [inst[k] EXCEPT !.state = s])
        PROVE  Goal
    BY <1>0, <2>1, <2>3, StopSame
  <2> QED BY <1>1, <1>7, <2>2, <2>3 DEF StopSurplus, Restart
<1>8. ASSUME NEW w \in Loads, Place(w) PROVE Goal
  <2>1. New(w, "stopped") \in Inst /\ New(w, "running") \in Inst
    BY <1>8 DEF New, Inst, Place, TypeInv, OwnerTypes, Orders
  <2>2. PICK k \in Slots : Fresh(k) /\ (\/ HostSets(k, New(w, "stopped"))
                                        \/ HostSets(k, New(w, "running"))
                                        \/ UNCHANGED inst)
    BY <1>8, PlaceMakes
  <2>3. k \notin Remembered
    BY <2>2, FreshIsForgotten
  <2>4. CASE HostSets(k, New(w, "stopped"))
    BY <1>0, <2>1, <2>3, <2>4, NewSame
  <2>5. CASE HostSets(k, New(w, "running"))
    BY <1>0, <2>1, <2>3, <2>5, NewSame
  <2> QED BY <1>1, <2>2, <2>4, <2>5
<1>9. ASSUME NEW w \in Loads, Pass(w) \/ EndRest(w) PROVE Goal
  BY <1>1, <1>7, <1>8, <1>9 DEF Pass, Decide, EndRest
<1>10. ASSUME NEW h \in Hosts, Push(h) PROVE Goal
  BY <1>1, <1>10 DEF Push
<1>11. Crash => Goal
  BY <1>1 DEF Crash
<1>12. UNCHANGED vars => Goal
  BY <1>1 DEF vars
<1> HIDE DEF Goal
<1>13. Goal
  BY <1>2, <1>5, <1>6, <1>9, <1>10, <1>11, <1>12 DEF Next
<1> QED BY <1>13 DEF Goal

(* What the cache and a list of displaceable instances say of an instance   *)
(* that is still there is true; what they list for m may give way to it, as *)
(* may the instance it is at.                                               *)
True(e) == inst[e.slot] # NoInst => inst[e.slot].load = e.load

Moved(m) == {k \in Slots : \/ k = move[m].one
                           \/ k = move[m].slot /\ pc[m] \in Migrating \union {"evict"}}

Yields(m) ==
  /\ \A e \in move[m].todo : True(e) /\ Lower(e.load, Claim[m])
  /\ Kind[m] # "operator" =>
       \A k \in Moved(m) : inst[k] # NoInst => Lower(inst[k].load, Claim[m])

YieldInv ==
  /\ \A h \in Hosts : \A e \in cache[h] : True(e)
  /\ \A m \in Movers : Yields(m)

LEMMA AllRemembered ==
  ASSUME TypeInv
  PROVE  /\ \A h \in Hosts : \A e \in cache[h] : e.slot \in Slots /\ e.slot \in Remembered
         /\ \A m \in Movers : \A e \in move[m].todo : e.slot \in Slots /\ e.slot \in Remembered
         /\ \A m \in Movers : Moved(m) \subseteq Remembered
         /\ \A w \in Loads : plan[w].slot \in Remembered
<1>1. cache \in [Hosts -> SUBSET Entry] /\ move \in [Movers -> Move]
  BY DEF TypeInv, HostTypes, MoverTypes
<1>2. \A h \in Hosts : \A e \in cache[h] : e.slot \in Slots
  BY <1>1 DEF Entry
<1>3. \A m \in Movers : \A e \in move[m].todo : e.slot \in Slots
  BY <1>1 DEF Entry, Move
<1>4. \A h \in Hosts : \A e \in cache[h] : e.slot \in Remembered
  BY DEF Remembered
<1>5. \A m \in Movers : \A e \in move[m].todo : e.slot \in Remembered
  BY DEF Remembered
<1>6. \A m \in Movers : move[m].slot \in Remembered /\ move[m].one \in Remembered
  BY DEF Remembered
<1>7. \A w \in Loads : plan[w].slot \in Remembered
  BY DEF Remembered
<1>8. \A m \in Movers : Moved(m) \subseteq Remembered
  BY <1>6 DEF Moved
<1> QED BY <1>2, <1>3, <1>4, <1>5, <1>7, <1>8

(* m goes on with the instance it is at, or leaves it. *)
Kept(m) ==
  /\ move'[m].todo \subseteq move[m].todo
  /\ Moved(m)' \subseteq Moved(m)

LEMMA KeptYields ==
  ASSUME TypeInv, [Next]_vars, NEW m \in Movers, Yields(m), Kept(m)
  PROVE  Yields(m)'
<1>1. \A k \in Slots : k \in Remembered => Same(k)
  BY NextSame
<1>2. \A e \in move[m].todo : e.slot \in Slots /\ e.slot \in Remembered
  BY AllRemembered
<1>3. \A k \in Moved(m) : k \in Slots /\ k \in Remembered
  BY AllRemembered DEF Moved
<1>4. \A e \in move'[m].todo : True(e)' /\ Lower(e.load, Claim[m])
  BY <1>1, <1>2 DEF Kept, Yields, Same, True
<1>5. ASSUME Kind[m] # "operator", NEW k \in Moved(m)', inst'[k] # NoInst
      PROVE  Lower(inst'[k].load, Claim[m])
  BY <1>1, <1>3, <1>5 DEF Kept, Yields, Same
<1> QED BY <1>4, <1>5 DEF Yields, Lower

LEMMA OwnYields ==
  ASSUME TypeInv, YieldInv, NEW m \in Movers,
         Start(m) \/ Step(m) \/ Release(m) \/ Expire(m) \/ Timeout(m)
  PROVE  Yields(m)'
<1>1. pc \in [Movers -> Places] /\ move \in [Movers -> Move] /\ Yields(m)
  BY DEF TypeInv, MoverTypes, YieldInv
<1>2. [Next]_vars
  BY DEF Next
<1>3. CASE Kept(m)
  BY <1>1, <1>2, <1>3, KeptYields
<1>4. \A place \in Places : Goto(m, place) => pc'[m] = place
  BY GotoTypes
<1>5. {"scan", "reserve", "store", "held", "free", "drop", "done", "survey", "evict", "stop",
       "disown", "forget", "create"} \subseteq Places
  BY DEF Places, Migrating
<1>6. CASE Leave(m) \/ Finish(m)
  <2>1. /\ pc'[m] \in {"scan", "done"}
        /\ move'[m].todo \in {{}, move[m].todo} /\ move'[m].one \in {0, move[m].one}
    BY <1>6, LeaveTypes, FinishTypes, BackTypes, ConstantTypes
  <2>2. Kept(m)
    BY <2>1, ZeroIsNobody DEF Kept, Moved, Migrating
  <2> QED BY <1>3, <2>2
<1>7. CASE UNCHANGED move /\ (pc'[m] = pc[m] \/ pc[m] \in Migrating
                               \/ pc'[m] \notin Migrating \union {"evict"})
  BY <1>3, <1>7 DEF Kept, Moved
<1>8. CASE BeginReservation(m)
  <2>1. pc'[m] \in {"scan", "reserve"}
    BY <1>4, <1>5, <1>8 DEF BeginReservation
  <2>2. move'[m].todo = move[m].todo /\ move'[m].one = move[m].one
    BY <1>1, <1>8 DEF BeginReservation, Move
  <2> QED BY <1>3, <2>1, <2>2 DEF Kept, Moved, Migrating
<1>9. CASE Displace(m)
  <2>1. PICK h \in Hosts, e \in UNION {cache[g] : g \in Hosts} :
          /\ e \in Lowest(Displaceable(h, Claim[m]))
          /\ \/ \E t \in Hosts : move' = [move EXCEPT ![m] =
                  [@ EXCEPT !.slot = e.slot, !.source = h, !.target = t]]
             \/ move' = [move EXCEPT ![m].slot = e.slot]
             \/ Finish(m)
    BY <1>9 DEF Displace, Fullest, Lowest, Displaceable
  <2>2. UNCHANGED inst /\ move[m] = NoMove
    BY <1>9 DEF Displace, TypeInv, MoverTypes, Aims
  <2>3. e \in cache[h] /\ Lower(e.load, Claim[m]) /\ True(e)
    BY <2>1, LowestIn DEF Displaceable, YieldInv
  <2>4. CASE ~Finish(m)
    <3>1. move'[m].slot = e.slot /\ move'[m].todo = move[m].todo /\ move'[m].one = move[m].one
      BY <1>1, <2>1, <2>4 DEF Move
    <3>2. move'[m].todo = {} /\ move'[m].one = 0
      BY <2>2, <3>1, ConstantTypes
    <3>3. \A k \in Moved(m)' : k = e.slot
      BY <3>1, <3>2, ZeroIsNobody DEF Moved
    <3>4. \A k \in Moved(m)' : inst'[k] # NoInst => Lower(inst'[k].load, Claim[m])
      BY <2>2, <2>3, <3>3 DEF True
    <3> QED BY <3>2, <3>4 DEF Yields, Lower
  <2> QED BY <1>6, <2>4
<1>10. CASE Request(m)
  <2>1. Kind[m] = "operator" /\ move[m] = NoMove
    BY <1>10 DEF Request, TypeInv, MoverTypes, Aims
  <2>2. move'[m].todo = move[m].todo
    BY <1>1, <1>10 DEF Request, Move
  <2> QED BY <2>1, <2>2, ConstantTypes DEF Yields
<1>11. CASE Survey(m) /\ ~Leave(m)
  <2>1. /\ move' = [move EXCEPT ![m].load = inst[move[m].slot].load,
                                ![m].owned = inst[move[m].slot].owned]
        /\ pc[m] = "survey" /\ pc'[m] = "stop"
    BY <1>4, <1>5, <1>11 DEF Survey
  <2>2. /\ move'[m].todo = move[m].todo /\ move'[m].one = move[m].one
        /\ move'[m].slot = move[m].slot
    BY <1>1, <2>1 DEF Move
  <2> QED BY <1>3, <2>1, <2>2 DEF Kept, Moved, Migrating
<1>12. CASE CreateTarget(m) /\ ~Leave(m)
  <2>1. move' = [move EXCEPT ![m] = [NoMove EXCEPT !.at = move[m].at]] /\ pc'[m] = "reserve"
    BY <1>4, <1>5, <1>12 DEF CreateTarget
  <2>2. move'[m].todo = {} /\ move'[m].one = 0
    BY <1>1, <2>1 DEF NoMove
  <2> QED BY <1>3, <2>1, <2>2, ZeroIsNobody DEF Kept, Moved, Migrating
<1>13. CASE Scan(m) /\ ~Finish(m)
  <2>1. UNCHANGED inst /\ pc[m] = "scan" /\ move[m] \in Move
    BY <1>1, <1>13 DEF Scan
  <2>2. ASSUME NEW h \in Hosts, move' = [move EXCEPT ![m] = [move[m] EXCEPT
                 !.slot = move[m].one, !.source = move[m].at, !.target = h, !.to = h]]
        PROVE  Yields(m)'
    <3>1. /\ move'[m].todo = move[m].todo /\ move'[m].one = move[m].one
          /\ move'[m].slot = move[m].one
      BY <1>1, <2>1, <2>2 DEF Move
    <3>2. \A k \in Moved(m)' : k \in Slots /\ k = move[m].one
      BY <3>1 DEF Moved
    <3>3. Kept(m)
      BY <3>1, <3>2 DEF Kept, Moved
    <3> QED BY <1>3, <3>3
  <2>3. ASSUME NEW e \in move[m].todo, UNCHANGED pc, move' = [move EXCEPT ![m] =
                 [move[m] EXCEPT !.one = e.slot, !.to = 0, !.todo = @ \ {e}]]
        PROVE  Yields(m)'
    <3>1. move'[m].todo = move[m].todo \ {e} /\ move'[m].one = e.slot
      BY <1>1, <2>1, <2>3 DEF Move
    <3>2. \A k \in Moved(m)' : k = e.slot
      BY <2>1, <2>3, <3>1 DEF Moved, Migrating
    <3>3. True(e) /\ Lower(e.load, Claim[m])
      BY <1>1, <2>3 DEF Yields
    <3>4. \A k \in Moved(m)' : inst'[k] # NoInst => Lower(inst'[k].load, Claim[m])
      BY <2>1, <3>2, <3>3 DEF True
    <3> QED BY <1>1, <2>1, <3>1, <3>4 DEF Yields, Lower, True
  <2>4. ASSUME NEW h \in Hosts, UNCHANGED pc, move' = [move EXCEPT ![m] =
                 [NoMove EXCEPT !.at = h, !.todo = Displaceable(h, Claim[m])]]
        PROVE  Yields(m)'
    <3>1. move'[m].todo = Displaceable(h, Claim[m]) /\ move'[m].one = 0
      BY <1>1, <2>4 DEF NoMove
    <3>2. Moved(m)' = {}
      BY <2>1, <2>4, <3>1, ZeroIsNobody DEF Moved, Migrating
    <3> QED BY <2>1, <3>1, <3>2 DEF Yields, Lower, True, Displaceable, YieldInv
  <2> QED BY <1>13, <2>2, <2>3, <2>4, LowestIn DEF Scan, Foremost
<1>14. CASE StopSource(m) \/ Disown(m) \/ Forget(m) \/ Evict(m) \/ Timeout(m)
  BY <1>6, <1>7, <1>14 DEF StopSource, Disown, Forget, Evict, Timeout, Migrating
<1>15. CASE HostReserves(m) \/ StoreReservation(m) \/ HostReleases(m) \/ DropReservation(m)
              \/ Release(m) \/ Expire(m)
  <2>1. CASE StoreReservation(m) /\ ~Finish(m)
    <3>1. move' = [move EXCEPT ![m] = NoMove] /\ pc'[m] = "held"
      BY <1>4, <1>5, <2>1 DEF StoreReservation
    <3>2. move'[m].todo = {} /\ move'[m].one = 0
      BY <1>1, <3>1, ConstantTypes
    <3> QED BY <1>3, <3>1, <3>2, ZeroIsNobody DEF Kept, Moved, Migrating
  <2>2. CASE ~StoreReservation(m)
    <3>1. \/ Finish(m)
          \/ UNCHANGED move /\ (pc'[m] = pc[m] \/ pc'[m] \in {"store", "free", "drop", "done"})
      BY <1>4, <1>5, <1>15, <2>2
         DEF HostReserves, HostReleases, DropReservation, Release, Expire
    <3> QED BY <1>6, <1>7, <3>1 DEF Migrating
  <2> QED BY <1>6, <1>15, <2>1, <2>2
<1> QED BY <1>6, <1>8, <1>9, <1>10, <1>11, <1>12, <1>13, <1>14, <1>15 DEF Start, Step

LEMMA CacheYields ==
  ASSUME TypeInv, YieldInv, [Next]_vars
  PROVE  (\A h \in Hosts : \A e \in cache[h] : True(e))'
<1>1. \A h \in Hosts : \A e \in cache[h] : True(e)'
  BY NextSame, AllRemembered DEF YieldInv, True, Same
<1>2. CASE UNCHANGED cache
  BY <1>1, <1>2 DEF True
<1>3. ASSUME NEW h \in Hosts, Push(h)
      PROVE  (\A g \in Hosts : \A e \in cache[g] : True(e))'
  <2>1. cache'[h] = Actual(h) /\ inst' = inst
    BY <1>3 DEF Push, TypeInv, HostTypes
  <2>2. \A g \in Hosts \ {h} : cache'[g] = cache[g]
    BY <1>3 DEF Push, TypeInv, HostTypes
  <2>3. \A e \in Actual(h) : True(e)
    BY DEF Actual, Listed, True
  <2> QED BY <1>1, <2>1, <2>2, <2>3 DEF True
<1>4. ASSUME NEW m \in Movers, Forget(m)
      PROVE  (\A g \in Hosts : \A e \in cache[g] : True(e))'
  <2> DEFINE h == move[m].source
             k == move[m].slot
  <2>1. UNCHANGED cache \/ cache' = [cache EXCEPT ![h] =
           {IF e.slot = k THEN [e EXCEPT !.owned = FALSE] ELSE e : e \in @}]
    BY <1>4 DEF Forget
  <2>2. h \in Hosts /\ inst' = inst /\ cache \in [Hosts -> SUBSET Entry]
    BY <1>4 DEF Forget, TypeInv, HostTypes, MoverTypes, Aims, Migrating
  <2>3. \A e \in Entry : /\ [e EXCEPT !.owned = FALSE].slot = e.slot
                         /\ [e EXCEPT !.owned = FALSE].load = e.load
    BY DEF Entry
  <2>4. \A g \in Hosts : \A e \in cache'[g] :
           \E f \in cache[g] : e.slot = f.slot /\ e.load = f.load
    <3>1. \A e \in cache'[h] : \E f \in cache[h] : e.slot = f.slot /\ e.load = f.load
      <4>1. SUFFICES ASSUME cache' # cache, NEW e \in cache'[h]
                     PROVE  \E f \in cache[h] : e.slot = f.slot /\ e.load = f.load
        BY <2>2
      <4>2. cache'[h] = {IF f.slot = k THEN [f EXCEPT !.owned = FALSE] ELSE f : f \in cache[h]}
        BY <2>1, <2>2, <4>1
      <4>3. PICK f \in cache[h] : e = IF f.slot = k THEN [f EXCEPT !.owned = FALSE] ELSE f
        BY <4>1, <4>2
      <4>4. f \in Entry
        BY <2>2
      <4> QED BY <2>3, <4>3, <4>4
    <3>2. \A g \in Hosts \ {h} : cache'[g] = cache[g]
      BY <2>1, <2>2
    <3> QED BY <3>1, <3>2
  <2> QED BY <1>1, <2>2, <2>4 DEF True
<1>5. ASSUME NEW m \in Movers, Start(m) \/ Step(m) \/ Release(m) \/ Expire(m) \/ Timeout(m),
             ~Forget(m)
      PROVE  UNCHANGED cache
  BY <1>5 DEF Start, Step, Release, Expire, Timeout, BeginReservation, Displace, Request, Survey,
              StopSource, Disown, CreateTarget, Scan, HostReserves, StoreReservation,
              HostReleases, DropReservation, Evict
<1>6. ASSUME NEW w \in Loads, Pass(w) \/ EndRest(w) PROVE UNCHANGED cache
  BY <1>6 DEF Pass, EndRest, Decide, StopSurplus, Restart, Place, Acted
<1>7. Crash \/ UNCHANGED vars => UNCHANGED cache
  BY DEF Crash, vars
<1> QED BY <1>2, <1>3, <1>4, <1>5, <1>6, <1>7 DEF Next

LEMMA NextYieldInv == TypeInv /\ YieldInv /\ [Next]_vars => YieldInv'
<1> SUFFICES ASSUME TypeInv, YieldInv, [Next]_vars PROVE YieldInv'
  OBVIOUS
<1> SUFFICES ASSUME NEW n \in Movers PROVE Yields(n)'
  BY CacheYields DEF YieldInv
<1>1. Yields(n)
  BY DEF YieldInv
<1>2. CASE pc'[n] = pc[n] /\ move'[n] = move[n]
  <2>1. Kept(n)
    BY <1>2 DEF Kept, Moved
  <2> QED BY <1>1, <2>1, KeptYields
<1>3. ASSUME NEW m \in Movers, Start(m) \/ Step(m) \/ Release(m) \/ Expire(m) \/ Timeout(m)
      PROVE  Yields(n)'
  <2>1. CASE n = m
    BY <1>3, <2>1, OwnYields
  <2>2. CASE n # m
    BY <1>2, <1>3, <2>2, OthersUntouched DEF Untouched
  <2> QED BY <2>1, <2>2
<1>4. ASSUME NEW w \in Loads, Pass(w) \/ EndRest(w) PROVE Yields(n)'
  BY <1>2, <1>4 DEF Pass, Decide, StopSurplus, Restart, Place, Acted, EndRest
<1>5. ASSUME NEW h \in Hosts, Push(h) PROVE Yields(n)'
  BY <1>2, <1>5 DEF Push
<1>6. UNCHANGED vars => Yields(n)'
  BY <1>2 DEF vars
<1>7. Crash => Yields(n)'
  <2> SUFFICES ASSUME Crash PROVE Yields(n)'
    OBVIOUS
  <2>1. move'[n] = NoMove /\ pc'[n] \in {"idle", "held", "done"}
    BY DEF Crash
  <2>2. Kept(n)
    BY <2>1, ConstantTypes, ZeroIsNobody DEF Kept, Moved, Migrating
  <2> QED BY <1>1, <2>2, KeptYields
<1> QED BY <1>3, <1>4, <1>5, <1>6, <1>7 DEF Next

LEMMA InitYieldInv == Init => YieldInv
<1> SUFFICES ASSUME Init PROVE YieldInv
  OBVIOUS
<1>1. \A h \in Hosts : \A e \in cache[h] : True(e)
  <2>1. \A h \in Hosts : \A e \in Actual(h) : True(e)
    BY DEF Actual, Listed, True
  <2>2. \A h \in Hosts : cache[h] = Actual(h)
    BY DEF Init
  <2> QED BY <2>1, <2>2
<1>2. \A m \in Movers : move[m].todo = {} /\ Moved(m) = {}
  BY ConstantTypes, ZeroIsNobody DEF Init, Moved, Migrating
<1> QED BY <1>1, <1>2 DEF YieldInv, Yields

(* A reservation or a pass stops and evicts the instances of less important *)
(* workloads only, whatever was created, stopped and disowned since it read *)
(* the cache: the identifiers in its lists stay with their workloads.       *)
THEOREM OnlyLowerMoved == Spec => OnlyLower
<1>1. ASSUME TypeInv, TypeInv', YieldInv, [Next]_vars,
             NEW m \in Movers, pc[m] \in {"stop", "evict"}, pc'[m] # pc[m],
             move[m].slot \in Slots, inst[move[m].slot] # inst'[move[m].slot],
             Kind[m] # "operator"
      PROVE  Lower(inst[move[m].slot].load, Claim[m])
  <2>1. move[m].slot \in Remembered /\ move[m].slot \in Moved(m)
    BY <1>1, AllRemembered DEF Moved, Migrating
  <2>2. inst[move[m].slot] # NoInst
    BY <1>1, <2>1, NextSame DEF Same
  <2> QED BY <1>1, <2>1, <2>2 DEF YieldInv, Yields
<1>2. TypeInv /\ TypeInv' /\ YieldInv /\ [Next]_vars
        => [\A m \in Movers : \A k \in Slots :
              /\ pc[m] \in {"stop", "evict"} /\ pc'[m] # pc[m] /\ move[m].slot = k
              /\ inst[k] # inst'[k]
              => Kind[m] = "operator" \/ Lower(inst[k].load, Claim[m])]_vars
  BY <1>1
<1> QED BY <1>2, InitYieldInv, TypesHold, NextYieldInv, PTL DEF Spec, OnlyLower

--------------------------------------------------------------------------------
(* No workload is served twice. *)

Serving(w) == {k \in Owned(w) : inst[k].state = "running"}

(* Undisturbed: at most one instance serves w, and a pass that looks at the *)
(* cache sees it; a pass that is to start one has found none; what it takes *)
(* for broken is w's; and a migration forgets a source that it disowned.    *)
Served(w) ==
  /\ \A j, k \in Serving(w) : j = k
  /\ \A k \in Serving(w) : w \in rest \/ Listed(k) \in cache[inst[k].host]
  /\ plan[w].type \in {"create", "recreate"} => Serving(w) = {}
  /\ plan[w].type = "recreate" /\ inst[plan[w].slot] # NoInst => inst[plan[w].slot].load = w

Disowned(m) ==
  pc[m] = "forget" /\ inst[move[m].slot] # NoInst => ~inst[move[m].slot].owned

ServeInv ==
  budget = MaxFaults =>
    (\A w \in Loads : Served(w)) /\ (\A m \in Movers : Disowned(m))

(* Nothing starts to serve w, and what does goes on as it is. *)
Steady(w) == \A k \in Serving(w)' : k \in Serving(w) /\ inst'[k] = inst[k]

LEMMA ServingIs ==
  ASSUME NEW w, NEW k
  PROVE  k \in Serving(w) <=> /\ k \in Slots /\ inst[k] # NoInst
                              /\ inst[k].load = w /\ inst[k].owned /\ inst[k].state = "running"
BY DEF Serving, Owned, Copies

LEMMA ServingIsNext ==
  ASSUME NEW w, NEW k
  PROVE  k \in Serving(w)' <=> /\ k \in Slots /\ inst'[k] # NoInst
                               /\ inst'[k].load = w /\ inst'[k].owned /\ inst'[k].state = "running"
BY DEF Serving, Owned, Copies

LEMMA SameSteady == ASSUME UNCHANGED inst, NEW w PROVE Steady(w)
BY ServingIs, ServingIsNext DEF Steady

LEMMA GoneSteady ==
  ASSUME HostTypes, NEW k \in Slots, HostSets(k, NoInst), NEW w
  PROVE  Steady(w)
BY HostSetsTypes, ServingIs, ServingIsNext DEF Steady

LEMMA SetsSteady ==
  ASSUME HostTypes, NEW k \in Slots, NEW v \in Inst, HostSets(k, v), NEW w,
         v.state = "stopped" \/ ~v.owned \/ v.load # w
  PROVE  Steady(w)
<1>1. inst'[k] = v /\ \A j \in Slots \ {k} : inst'[j] = inst[j]
  BY HostSetsTypes
<1> QED BY <1>1, ServingIs, ServingIsNext DEF Steady

LEMMA StopSteady ==
  ASSUME HostTypes, NEW k \in Slots, inst[k] # NoInst, NEW w,
         HostSets(k, [inst[k] EXCEPT !.state = "stopped"])
  PROVE  Steady(w)
<1>1. PICK v : v = [inst[k] EXCEPT !.state = "stopped"]
  OBVIOUS
<1>2. v \in Inst /\ v.state = "stopped" /\ HostSets(k, v)
  BY <1>1, ChangedTypes
<1> QED BY <1>2, SetsSteady

LEMMA DisownSteady ==
  ASSUME HostTypes, NEW k \in Slots, inst[k] # NoInst, NEW w,
         HostSets(k, [inst[k] EXCEPT !.owned = FALSE])
  PROVE  Steady(w)
<1>1. PICK v : v = [inst[k] EXCEPT !.owned = FALSE]
  OBVIOUS
<1>2. v \in Inst /\ ~v.owned /\ HostSets(k, v)
  BY <1>1, ChangedTypes
<1> QED BY <1>2, SetsSteady

LEMMA MoverSteady ==
  ASSUME TypeInv, NEW w, NEW m \in Movers,
         Start(m) \/ Step(m) \/ Release(m) \/ Expire(m) \/ Timeout(m)
  PROVE  Steady(w)
<1>0. HostTypes
  BY DEF TypeInv
<1>1. UNCHANGED inst => Steady(w)
  BY SameSteady
<1>2. CASE StopSource(m) \/ Disown(m) \/ Evict(m)
  <2> DEFINE k == move[m].slot
  <2>1. k \in Slots
    BY <1>2 DEF StopSource, Disown, Evict, TypeInv, MoverTypes, Aims, Migrating
  <2>2. HostSets(k, NoInst) => Steady(w)
    BY <1>0, <2>1, GoneSteady
  <2>3. inst[k] # NoInst /\ HostSets(k, [inst[k] EXCEPT !.state = "stopped"]) => Steady(w)
    BY <1>0, <2>1, StopSteady
  <2>4. inst[k] # NoInst /\ HostSets(k, [inst[k] EXCEPT !.owned = FALSE]) => Steady(w)
    BY <1>0, <2>1, DisownSteady
  <2> QED BY <1>1, <1>2, <2>2, <2>3, <2>4 DEF StopSource, Disown, Evict
<1>3. CASE CreateTarget(m)
  <2> DEFINE new == [host |-> move[m].target, load |-> move[m].load,
                     owned |-> move[m].owned, state |-> "stopped"]
  <2>1. new \in Inst /\ new.state = "stopped"
    <3>1. move[m].target \in Hosts /\ move[m].load \in Loads /\ move[m] \in Move
      BY <1>3 DEF CreateTarget, TypeInv, MoverTypes, Aims, Migrating
    <3> QED BY <3>1 DEF Inst, Move
  <2>2. PICK k \in Slots : HostSets(k, new) \/ UNCHANGED inst
    BY <1>3 DEF CreateTarget
  <2> HIDE DEF new
  <2>3. HostSets(k, new) => Steady(w)
    BY <1>0, <2>1, SetsSteady
  <2> QED BY <1>1, <2>2, <2>3
<1>4. CASE ~(StopSource(m) \/ Disown(m) \/ Evict(m) \/ CreateTarget(m))
  BY <1>1, <1>4
     DEF Start, Step, Release, Expire, Timeout, BeginReservation, Displace, Request,
         Survey, Forget, Scan, HostReserves, StoreReservation, HostReleases, DropReservation
<1> QED BY <1>2, <1>3, <1>4

(* A pass over another workload. *)
LEMMA OtherPassSteady ==
  ASSUME TypeInv, NEW w \in Loads, NEW x \in Loads, Pass(x), Served(x), x # w \/ StopSurplus(x)
  PROVE  Steady(w)
<1>0. HostTypes
  BY DEF TypeInv
<1>1. UNCHANGED inst => Steady(w)
  BY SameSteady
<1> DEFINE k == plan[x].slot
<1>2. CASE StopSurplus(x)
  <2>1. k \in Slots
    BY <1>2 DEF StopSurplus, TypeInv, OwnerTypes, Orders
  <2>2. HostSets(k, NoInst) => Steady(w)
    BY <1>0, <2>1, GoneSteady
  <2>3. inst[k] # NoInst /\ HostSets(k, [inst[k] EXCEPT !.state = "stopped"]) => Steady(w)
    BY <1>0, <2>1, StopSteady
  <2> QED BY <1>1, <1>2, <2>2, <2>3 DEF StopSurplus
<1>3. CASE Restart(x) /\ x # w
  <2>1. k \in Slots /\ (inst[k] # NoInst => inst[k].load = x)
    BY <1>3 DEF Restart, TypeInv, OwnerTypes, Orders, Served
  <2>2. HostSets(k, NoInst) => Steady(w)
    BY <1>0, <2>1, GoneSteady
  <2>3. ASSUME inst[k] # NoInst, HostSets(k, [inst[k] EXCEPT !.state = "running"])
        PROVE  Steady(w)
    <3>1. PICK v : v = [inst[k] EXCEPT !.state = "running"]
      OBVIOUS
    <3>2. v \in Inst /\ v.load = inst[k].load /\ HostSets(k, v)
      BY <1>0, <2>1, <2>3, <3>1, ChangedTypes
    <3> QED BY <1>0, <1>3, <2>1, <2>3, <3>2, SetsSteady
  <2> QED BY <1>1, <1>3, <2>2, <2>3 DEF Restart
<1>4. CASE Place(x) /\ x # w
  <2>1. \A s \in {"stopped", "running"} : New(x, s) \in Inst /\ New(x, s).load = x
    BY <1>4 DEF New, Inst, Place, TypeInv, OwnerTypes, Orders
  <2>2. PICK j \in Slots : \/ HostSets(j, New(x, "stopped"))
                           \/ HostSets(j, New(x, "running"))
                           \/ UNCHANGED inst
    BY <1>4, PlaceMakes
  <2>3. ASSUME NEW s \in {"stopped", "running"}, HostSets(j, New(x, s)) PROVE Steady(w)
    <3>1. PICK v : v = New(x, s)
      OBVIOUS
    <3> QED BY <1>0, <1>4, <2>1, <2>3, <3>1, SetsSteady
  <2> QED BY <1>1, <2>2, <2>3
<1>5. CASE Decide(x)
  BY <1>1, <1>5 DEF Decide
<1> QED BY <1>2, <1>3, <1>4, <1>5 DEF Pass

(* The cache goes on to show what serves w. *)
LEMMA StillShown ==
  ASSUME TypeInv, NEW w \in Loads, NEW k \in Serving(w), inst'[k] = inst[k],
         Listed(k) \in cache[inst[k].host], [Next]_vars, \A m \in Movers : Disowned(m)
  PROVE  Listed(k)' \in cache'[inst'[k].host]
<1> DEFINE h == inst[k].host
<1>1. /\ k \in Slots /\ inst[k] # NoInst /\ inst[k].load = w
      /\ inst[k].owned /\ inst[k].state = "running"
  BY ServingIs
<1>2. Listed(k)' = Listed(k) /\ Listed(k).slot = k
  BY DEF Listed
<1>3. h \in Hosts
  BY <1>1, ChangedTypes DEF Inst, TypeInv
<1>4. CASE UNCHANGED cache
  BY <1>2, <1>4
<1>5. ASSUME NEW g \in Hosts, Push(g) PROVE Listed(k) \in cache'[h]
  <2>1. Listed(k) \in Actual(h)
    BY <1>1 DEF Actual, On
  <2> QED BY <1>3, <1>5, <2>1 DEF Push, TypeInv, HostTypes
<1>6. ASSUME NEW m \in Movers, Forget(m) PROVE Listed(k) \in cache'[h]
  <2>1. k # move[m].slot
    BY <1>1, <1>6 DEF Forget, Disowned
  <2>2. UNCHANGED cache \/ cache' = [cache EXCEPT ![move[m].source] =
           {IF e.slot = move[m].slot THEN [e EXCEPT !.owned = FALSE] ELSE e : e \in @}]
    BY <1>6 DEF Forget
  <2>3. CASE move[m].source = h /\ ~UNCHANGED cache
    <3>1. cache'[h] = {IF e.slot = move[m].slot THEN [e EXCEPT !.owned = FALSE] ELSE e :
                         e \in cache[h]}
      BY <1>3, <2>2, <2>3 DEF TypeInv, HostTypes
    <3> QED BY <1>2, <2>1, <3>1
  <2> QED BY <1>3, <2>2, <2>3 DEF TypeInv, HostTypes
<1>7. ASSUME NEW m \in Movers, Start(m) \/ Step(m) \/ Release(m) \/ Expire(m) \/ Timeout(m),
             ~Forget(m)
      PROVE  UNCHANGED cache
  BY <1>7 DEF Start, Step, Release, Expire, Timeout, BeginReservation, Displace, Request, Survey,
              StopSource, Disown, CreateTarget, Scan, HostReserves, StoreReservation,
              HostReleases, DropReservation, Evict
<1>8. ASSUME NEW x \in Loads, Pass(x) \/ EndRest(x) PROVE UNCHANGED cache
  BY <1>8 DEF Pass, EndRest, Decide, StopSurplus, Restart, Place, Acted
<1>9. Crash \/ UNCHANGED vars => UNCHANGED cache
  BY DEF Crash, vars
<1>10. Listed(k) \in cache'[h]
  BY <1>2, <1>4, <1>5, <1>6, <1>7, <1>8, <1>9 DEF Next
<1> QED BY <1>2, <1>10

LEMMA PlanKept ==
  ASSUME TypeInv, NEW w \in Loads, [Next]_vars, ~Crash, ~Pass(w)
  PROVE  plan'[w] = plan[w] /\ (w \in rest => w \in rest' \/ EndRest(w))
<1>1. plan \in [Loads -> Act]
  BY DEF TypeInv, OwnerTypes
<1>2. ASSUME NEW m \in Movers, Start(m) \/ Step(m) \/ Release(m) \/ Expire(m) \/ Timeout(m)
      PROVE  UNCHANGED plan /\ rest \subseteq rest'
  BY <1>2 DEF Start, Step, Release, Expire, Timeout, BeginReservation, Displace, Request, Survey,
              StopSource, Disown, Forget, CreateTarget, Scan, HostReserves, StoreReservation,
              HostReleases, DropReservation, Evict, owner
<1>3. ASSUME NEW x \in Loads, Pass(x) PROVE plan'[w] = plan[w] /\ rest \subseteq rest'
  <2>1. (\E act : Plan(x, act)) /\ rest \subseteq rest'
    BY <1>3 DEF Pass, Decide, StopSurplus, Restart, Place, Acted
  <2>2. x # w
    BY <1>3
  <2> QED BY <1>1, <2>1, <2>2 DEF Plan
<1>4. ASSUME NEW x \in Loads, EndRest(x) PROVE UNCHANGED plan /\ rest' = rest \ {x}
  BY <1>4 DEF EndRest
<1>5. ASSUME NEW h \in Hosts, Push(h) PROVE UNCHANGED plan /\ UNCHANGED rest
  BY <1>5 DEF Push, owner
<1>6. UNCHANGED vars => UNCHANGED plan /\ UNCHANGED rest
  BY DEF vars
<1> QED BY <1>2, <1>3, <1>4, <1>5, <1>6 DEF Next

(* What serves w when it has rested is in the cache. *)
LEMMA RestShows ==
  ASSUME TypeInv, NEW w \in Loads, EndRest(w), NEW k \in Serving(w)
  PROVE  Listed(k) \in cache[inst[k].host]
<1>1. k \in Slots /\ inst[k] # NoInst /\ inst[k].load = w
  BY ServingIs
<1>2. inst[k].host \in Hosts
  BY <1>1, ChangedTypes DEF Inst, TypeInv
<1>3. Listed(k) \in Actual(inst[k].host) /\ Listed(k).load = w
  BY <1>1 DEF Actual, On, Listed
<1> QED BY <1>2, <1>3 DEF EndRest

(* No step of another makes w be served anew, nor undoes what is known of it. *)
LEMMA OtherServed ==
  ASSUME TypeInv, [Next]_vars, ~Crash, NEW w \in Loads, Served(w), Steady(w), ~Pass(w),
         \A m \in Movers : Disowned(m)
  PROVE  Served(w)'
<1>1. plan'[w] = plan[w] /\ (w \in rest => w \in rest' \/ EndRest(w))
  BY PlanKept
<1>2. \A j, k \in Serving(w)' : j = k
  BY DEF Steady, Served
<1>3. ASSUME NEW k \in Serving(w)' PROVE w \in rest' \/ Listed(k)' \in cache'[inst'[k].host]
  <2>1. k \in Serving(w) /\ inst'[k] = inst[k]
    BY <1>3 DEF Steady
  <2>2. CASE Listed(k) \in cache[inst[k].host]
    BY <2>1, <2>2, StillShown
  <2>3. CASE w \in rest
    BY <1>1, <2>1, <2>2, <2>3, RestShows
  <2> QED BY <2>1, <2>2, <2>3 DEF Served
<1>4. plan'[w].type \in {"create", "recreate"} => Serving(w)' = {}
  BY <1>1 DEF Served, Steady
<1>5. ASSUME plan'[w].type = "recreate", inst'[plan'[w].slot] # NoInst
      PROVE  inst'[plan'[w].slot].load = w
  <2>1. plan[w].slot \in Slots /\ plan[w].slot \in Remembered
    BY <1>1, <1>5, AllRemembered DEF TypeInv, OwnerTypes, Orders
  <2> QED BY <1>1, <1>5, <2>1, NextSame DEF Same, Served
<1> QED BY <1>2, <1>3, <1>4, <1>5 DEF Served

LEMMA EntryFinite == IsFiniteSet(Entry)
<1> DEFINE P == (Slots \X Loads) \X (BOOLEAN \X {"stopped", "running"})
           f == [p \in P |-> [slot |-> p[1][1], load |-> p[1][2],
                              owned |-> p[2][1], state |-> p[2][2]]]
<1>1. IsFiniteSet(BOOLEAN) /\ IsFiniteSet({"stopped", "running"})
  <2>1. IsFiniteSet({FALSE} \union {TRUE}) /\ IsFiniteSet({"stopped"} \union {"running"})
    BY FS_Singleton, FS_Union
  <2> QED BY <2>1
<1>2. IsFiniteSet(P)
  BY <1>1, DisplacementAssumption, FS_Product
<1>3. ASSUME NEW e \in Entry PROVE \E p \in P : f[p] = e
  <2>1. /\ e.slot \in Slots /\ e.load \in Loads /\ e.owned \in BOOLEAN
        /\ e.state \in {"stopped", "running"}
        /\ e = [slot |-> e.slot, load |-> e.load, owned |-> e.owned, state |-> e.state]
    BY <1>3 DEF Entry
  <2> DEFINE q == <<<<e.slot, e.load>>, <<e.owned, e.state>>>>
  <2>2. q \in P /\ q[1][1] = e.slot /\ q[1][2] = e.load /\ q[2][1] = e.owned /\ q[2][2] = e.state
    BY <2>1
  <2>3. f[q] = [slot |-> e.slot, load |-> e.load, owned |-> e.owned, state |-> e.state]
    BY <2>2
  <2> QED BY <2>1, <2>2, <2>3
<1>4. f \in [P -> Entry]
  <2>1. \A p \in P : f[p] \in Entry
    BY DEF Entry
  <2> QED BY <2>1
<1>5. f \in Surjection(P, Entry)
  <2> HIDE DEF f, P
  <2> QED BY <1>3, <1>4 DEF Surjection
<1> QED
  <2> HIDE DEF f, P
  <2> QED BY <1>2, <1>5, FS_Surjection

(* A pass that finds no instance or only a broken one is right that nothing serves w. *)
LEMMA DecideServed ==
  ASSUME TypeInv, YieldInv, NEW w \in Loads, Decide(w), Served(w)
  PROVE  Served(w)'
<1>1. UNCHANGED <<inst, cache, rest>> /\ w \notin rest /\ plan \in [Loads -> Act]
  BY DEF Decide, TypeInv, OwnerTypes
<1>2. Serving(w)' = Serving(w)
  BY <1>1, ServingIs, ServingIsNext
<1>3. \A k \in Serving(w)' : Listed(k)' \in cache'[inst'[k].host]
  BY <1>1, <1>2 DEF Served, Listed
<1>4. \A k \in Serving(w) : \E e \in Managed(w) : e.state = "running"
  <2> SUFFICES ASSUME NEW k \in Serving(w) PROVE \E e \in Managed(w) : e.state = "running"
    OBVIOUS
  <2>1. /\ k \in Slots /\ inst[k] # NoInst /\ inst[k].load = w
        /\ inst[k].owned /\ inst[k].state = "running"
    BY ServingIs
  <2>2. inst[k].host \in Hosts
    BY <2>1, ChangedTypes DEF Inst, TypeInv
  <2>3. Listed(k) \in cache[inst[k].host]
    BY <1>1 DEF Served
  <2>4. Listed(k).load = w /\ Listed(k).owned /\ Listed(k).state = "running"
    BY <2>1 DEF Listed
  <2> QED BY <2>2, <2>3, <2>4 DEF Managed
<1>5. ASSUME NEW e \in Managed(w), Plan(w, [NoAct EXCEPT !.type = "stop", !.slot = e.slot])
      PROVE  Served(w)'
  <2>1. plan'[w].type = "stop"
    BY <1>1, <1>5 DEF Plan, NoAct
  <2> QED BY <1>2, <1>3, <2>1 DEF Served
<1>6. ASSUME NEW e \in Managed(w), e.state = "stopped", Cardinality(Managed(w)) = 1,
             Plan(w, [NoAct EXCEPT !.type = "recreate", !.slot = e.slot])
      PROVE  Served(w)'
  <2>1. plan'[w].type = "recreate" /\ plan'[w].slot = e.slot
    BY <1>1, <1>6 DEF Plan, NoAct
  <2>2. IsFiniteSet(Managed(w))
    <3>1. Managed(w) \subseteq Entry
      BY DEF Managed, TypeInv, HostTypes
    <3> QED BY <3>1, EntryFinite, FS_Subset
  <2>3. \A d \in Managed(w) : d = e
    BY <1>6, <2>2, FS_Singleton
  <2>4. Serving(w) = {}
    BY <1>4, <1>6, <2>3
  <2>5. inst[e.slot] # NoInst => inst[e.slot].load = w
    BY <1>6 DEF Managed, YieldInv, True
  <2> QED BY <1>1, <1>2, <2>1, <2>4, <2>5 DEF Served
<1>7. ASSUME Managed(w) = {}, NEW h, Plan(w, [NoAct EXCEPT !.type = "create", !.host = h])
      PROVE  Served(w)'
  <2>1. plan'[w].type = "create"
    BY <1>1, <1>7 DEF Plan, NoAct
  <2> QED BY <1>2, <1>4, <1>7, <2>1 DEF Served
<1> QED BY <1>5, <1>6, <1>7 DEF Decide

LEMMA PassServed ==
  ASSUME TypeInv, YieldInv, [Next]_vars, NEW w \in Loads, Pass(w), Served(w),
         \A kind : ~Spend(kind)
  PROVE  Served(w)'
<1>0. HostTypes
  BY DEF TypeInv
<1>1. CASE Decide(w)
  BY <1>1, DecideServed
<1>2. CASE ~Decide(w)
  <2>1. Acted(w)
    BY <1>2 DEF Pass, StopSurplus, Restart, Place
  <2>2. w \in rest' /\ plan'[w].type = "none"
    BY <2>1, ConstantTypes DEF Acted, Plan, TypeInv, OwnerTypes
  <2>3. \A j, k \in Serving(w)' : j = k
    <3>1. CASE StopSurplus(w)
      <4>1. Steady(w)
        BY <3>1, OtherPassSteady DEF Pass
      <4> QED BY <4>1 DEF Steady, Served
    <3>2. ASSUME NEW k \in Slots, NEW v \in Inst, HostSets(k, v), Serving(w) = {}
          PROVE  Serving(w)' \subseteq {k}
      <4>1. \A j \in Slots \ {k} : inst'[j] = inst[j]
        BY <1>0, <3>2, HostSetsTypes
      <4> QED BY <3>2, <4>1, ServingIs, ServingIsNext
    <3>3. CASE Restart(w)
      <4> DEFINE k == plan[w].slot
      <4>1. k \in Slots /\ Serving(w) = {}
        BY <3>3 DEF Restart, TypeInv, OwnerTypes, Orders, Served
      <4>2. CASE HostSets(k, NoInst)
        <5>1. Steady(w)
          BY <1>0, <4>1, <4>2, GoneSteady
        <5> QED BY <4>1, <5>1 DEF Steady
      <4>3. CASE inst[k] # NoInst /\ HostSets(k, [inst[k] EXCEPT !.state = "running"])
        <5>1. PICK v : v = [inst[k] EXCEPT !.state = "running"]
          OBVIOUS
        <5>2. v \in Inst /\ HostSets(k, v)
          BY <1>0, <4>1, <4>3, <5>1, ChangedTypes
        <5>3. Serving(w)' \subseteq {k}
          BY <3>2, <4>1, <5>2
        <5> QED BY <5>3
      <4> QED BY <3>3, <4>2, <4>3 DEF Restart
    <3>4. CASE Place(w)
      <4>1. \A s \in {"stopped", "running"} : New(w, s) \in Inst
        BY <3>4 DEF New, Inst, Place, TypeInv, OwnerTypes, Orders
      <4>2. PICK j \in Slots : \/ HostSets(j, New(w, "stopped"))
                               \/ HostSets(j, New(w, "running"))
                               \/ UNCHANGED inst
        BY <3>4, PlaceMakes
      <4>3. Serving(w) = {}
        BY <3>4 DEF Place, Served
      <4>4. ASSUME NEW s \in {"stopped", "running"}, HostSets(j, New(w, s))
            PROVE  Serving(w)' \subseteq {j}
        <5>1. PICK v : v = New(w, s)
          OBVIOUS
        <5> QED BY <3>2, <4>1, <4>3, <4>4, <5>1
      <4>5. UNCHANGED inst => Serving(w)' = {}
        BY <4>3, SameSteady DEF Steady
      <4> QED BY <4>2, <4>4, <4>5
    <3> QED BY <1>2, <3>1, <3>3, <3>4 DEF Pass
  <2> QED BY <2>2, <2>3 DEF Served
<1> QED BY <1>1, <1>2

LEMMA NextDisowned ==
  ASSUME TypeInv, [Next]_vars, \A kind : ~Spend(kind), NEW m \in Movers, Disowned(m)
  PROVE  Disowned(m)'
<1>1. CASE pc'[m] # "forget"
  BY <1>1 DEF Disowned
<1>2. CASE pc'[m] = pc[m] /\ move'[m] = move[m] /\ pc[m] = "forget"
  <2>1. move[m].slot \in Slots /\ move[m].slot \in Remembered
    BY <1>2, AllRemembered DEF TypeInv, MoverTypes, Aims, Migrating, Moved
  <2> QED BY <1>2, <2>1, NextSame DEF Same, Disowned
<1>3. CASE pc'[m] = "forget" /\ ~(pc'[m] = pc[m] /\ move'[m] = move[m])
  <2>1. \A place \in Places : Goto(m, place) => pc'[m] = place
    BY GotoTypes
  <2>2. {"scan", "reserve", "store", "held", "free", "drop", "done", "survey", "evict", "stop",
         "disown", "forget", "create"} \subseteq Places
    BY DEF Places, Migrating
  <2>3. ~Leave(m) /\ ~Finish(m)
    BY <1>3, LeaveTypes, FinishTypes
  <2>4. \A place \in Places \ {"forget"} : ~Goto(m, place)
    BY <1>3, <2>1
  <2>5. ~(UNCHANGED <<pc, move>>)
    BY <1>3
  <2>6. ASSUME NEW n \in Movers, Start(n) \/ Step(n) \/ Release(n) \/ Expire(n) \/ Timeout(n)
        PROVE  n = m
    BY <1>3, <2>6, OthersUntouched DEF Untouched
  <2>7. ~Start(m) /\ ~Release(m) /\ ~Expire(m) /\ ~Timeout(m)
    BY <1>3, <2>2, <2>3, <2>4
       DEF Start, Release, Expire, Timeout, BeginReservation, Displace, Request
  <2>8. Step(m)
    <3>1. \A w \in Loads : ~Pass(w) /\ ~EndRest(w)
      BY <2>5 DEF Pass, Decide, StopSurplus, Restart, Place, Acted, EndRest
    <3>2. \A h \in Hosts : ~Push(h)
      BY <2>5 DEF Push
    <3>3. ~Crash /\ ~UNCHANGED vars
      BY <2>5 DEF Crash, vars
    <3> QED BY <2>6, <2>7, <3>1, <3>2, <3>3 DEF Next
  <2>9. ~Scan(m)
    <3> SUFFICES ASSUME Scan(m) PROVE FALSE
      OBVIOUS
    <3>1. pc[m] = "scan" /\ pc'[m] \in {"scan", "survey", "done"}
      BY <1>3, <2>1, <2>2, <2>3 DEF Scan
    <3> QED BY <1>3, <3>1
  <2>10. Disown(m)
    BY <2>2, <2>3, <2>4, <2>8, <2>9
       DEF Step, Survey, StopSource, Forget, CreateTarget, HostReserves, StoreReservation,
           HostReleases, DropReservation, Evict
  <2> DEFINE k == move[m].slot
  <2>11. /\ inst[k] # NoInst /\ HostSets(k, [inst[k] EXCEPT !.owned = FALSE])
         /\ UNCHANGED move /\ k \in Slots
    BY <2>3, <2>10 DEF Disown, TypeInv, MoverTypes, Aims, Migrating
  <2>12. PICK v : v = [inst[k] EXCEPT !.owned = FALSE]
    OBVIOUS
  <2>13. v \in Inst /\ ~v.owned /\ HostSets(k, v)
    BY <2>11, <2>12, ChangedTypes DEF TypeInv
  <2>14. inst'[k] = v /\ move'[m].slot = k
    BY <2>11, <2>13, HostSetsTypes DEF TypeInv
  <2> QED BY <2>13, <2>14 DEF Disowned
<1> QED BY <1>1, <1>2, <1>3

LEMMA NextServeInv == TypeInv /\ YieldInv /\ ServeInv /\ [Next]_vars => ServeInv'
<1> SUFFICES ASSUME TypeInv, YieldInv, ServeInv, [Next]_vars, budget' = MaxFaults
             PROVE  (\A w \in Loads : Served(w)') /\ (\A m \in Movers : Disowned(m)')
  BY DEF ServeInv
<1>1. budget = MaxFaults
  BY BudgetFalls, DisplacementAssumption DEF TypeInv
<1>2. \A kind : ~Spend(kind)
  BY <1>1, DisplacementAssumption DEF Spend
<1>3. (\A w \in Loads : Served(w)) /\ (\A m \in Movers : Disowned(m))
  BY <1>1 DEF ServeInv
<1>4. ~Crash
  BY <1>2 DEF Crash
<1>5. ASSUME NEW w \in Loads PROVE Served(w)'
  <2>1. CASE Pass(w)
    BY <1>2, <1>3, <2>1, PassServed
  <2>2. CASE ~Pass(w)
    <3>1. ASSUME NEW m \in Movers, Start(m) \/ Step(m) \/ Release(m) \/ Expire(m) \/ Timeout(m)
          PROVE  Steady(w)
      BY <3>1, MoverSteady
    <3>2. ASSUME NEW x \in Loads, Pass(x) \/ EndRest(x) PROVE Steady(w)
      <4>1. EndRest(x) => UNCHANGED inst
        BY DEF EndRest
      <4>2. Pass(x) => x # w
        BY <2>2
      <4> QED BY <1>3, <3>2, <4>1, <4>2, SameSteady, OtherPassSteady
    <3>3. ASSUME NEW h \in Hosts, Push(h) PROVE Steady(w)
      BY <3>3, SameSteady DEF Push
    <3>4. UNCHANGED vars => Steady(w)
      BY SameSteady DEF vars
    <3>5. Steady(w)
      BY <1>4, <3>1, <3>2, <3>3, <3>4 DEF Next
    <3> QED BY <1>3, <1>4, <2>2, <3>5, OtherServed
  <2> QED BY <2>1, <2>2
<1>6. ASSUME NEW m \in Movers PROVE Disowned(m)'
  BY <1>2, <1>3, NextDisowned
<1> QED BY <1>5, <1>6

(* A finite set as a sequence, see SequencesExt: every element once. *)
LEMMA SetToSeqListsOnce ==
  ASSUME NEW S, IsFiniteSet(S)
  PROVE  /\ Cardinality(S) \in Nat
         /\ SetToSeq(S) \in [1..Cardinality(S) -> S]
         /\ \A i, j \in 1..Cardinality(S) : SetToSeq(S)[i] = SetToSeq(S)[j] => i = j
<1>1. Cardinality(S) \in Nat /\ ExistsBijection(1..Cardinality(S), S)
  BY FS_CardinalityType
<1>2. PICK g \in Bijection(1..Cardinality(S), S) : TRUE
  BY <1>1 DEF ExistsBijection
<1>3. g \in [1..Cardinality(S) -> S] /\ IsInjective(g)
  BY <1>2 DEF Bijection, Injection
<1>4. SetToSeq(S) \in [1..Cardinality(S) -> S] /\ IsInjective(SetToSeq(S))
  BY <1>3 DEF SetToSeq
<1> QED BY <1>1, <1>4 DEF IsInjective

(* The instances that Init names: one owned one for each workload. *)
LEMMA InitOwned ==
  ASSUME Init, NEW j \in Slots, NEW k \in Slots, inst[j] # NoInst, inst[k] # NoInst,
         inst[j].owned, inst[k].owned, inst[j].load = inst[k].load
  PROVE  j = k
<1>1. PICK f \in [Loads -> Hosts], left \in [Loads -> SUBSET Hosts] :
        LET replicas == {<<w, f[w], TRUE>> : w \in Loads}
            copies == UNION {{<<w, h, FALSE>> : h \in left[w]} : w \in Loads}
            name == SetToSeq(replicas) \o SetToSeq(copies) IN
        inst = [i \in Slots |-> IF i \in DOMAIN name
             THEN [load |-> name[i][1], host |-> name[i][2], owned |-> name[i][3],
                   state |-> IF name[i][3] THEN "running" ELSE "stopped"]
             ELSE NoInst]
  BY DEF Init
<1>0. f \in [Loads -> Hosts] /\ left \in [Loads -> SUBSET Hosts]
  BY <1>1
<1> DEFINE replicas == {<<w, f[w], TRUE>> : w \in Loads}
           copies == UNION {{<<w, h, FALSE>> : h \in left[w]} : w \in Loads}
           a == SetToSeq(replicas)
           b == SetToSeq(copies)
           name == a \o b
<1>2. IsFiniteSet(replicas)
  <2> DEFINE g == [w \in Loads |-> <<w, f[w], TRUE>>]
  <2>1. g \in [Loads -> replicas] /\ \A r \in replicas : \E w \in Loads : g[w] = r
    OBVIOUS
  <2> HIDE DEF g, replicas
  <2>2. g \in Surjection(Loads, replicas)
    BY <2>1 DEF Surjection
  <2> QED BY <2>2, DisplacementAssumption, FS_Surjection
<1>3. IsFiniteSet(copies)
  <2> DEFINE P == Loads \X Hosts
             all == {<<p[1], p[2], FALSE>> : p \in P}
             g == [p \in P |-> <<p[1], p[2], FALSE>>]
  <2>1. IsFiniteSet(P)
    BY DisplacementAssumption, FS_Product
  <2>2. g \in [P -> all] /\ \A r \in all : \E p \in P : g[p] = r
    OBVIOUS
  <2>3. copies \subseteq all
    <3>1. ASSUME NEW r \in copies PROVE r \in all
      <4>1. PICK w \in Loads : r \in {<<w, h, FALSE>> : h \in left[w]}
        OBVIOUS
      <4>2. PICK h \in left[w] : r = <<w, h, FALSE>>
        BY <4>1
      <4>3. <<w, h>> \in P /\ <<w, h>>[1] = w /\ <<w, h>>[2] = h
        BY <1>0
      <4> QED BY <4>2, <4>3
    <3> QED BY <3>1
  <2> HIDE DEF g, all, P, copies
  <2>4. g \in Surjection(P, all)
    BY <2>2 DEF Surjection
  <2> QED BY <2>1, <2>3, <2>4, FS_Surjection, FS_Subset
<1>4. ASSUME NEW r \in replicas PROVE r = <<r[1], f[r[1]], TRUE>>
  <2>1. PICK w \in Loads : r = <<w, f[w], TRUE>>
    OBVIOUS
  <2>2. r[1] = w
    BY <2>1
  <2> QED BY <2>1, <2>2
<1>5. ASSUME NEW r \in copies PROVE r[3] = FALSE
  <2>1. PICK w \in Loads : r \in {<<w, h, FALSE>> : h \in left[w]}
    OBVIOUS
  <2>2. PICK h \in left[w] : r = <<w, h, FALSE>>
    BY <2>1
  <2> QED BY <2>2
<1>6. inst = [i \in Slots |-> IF i \in DOMAIN name
             THEN [load |-> name[i][1], host |-> name[i][2], owned |-> name[i][3],
                   state |-> IF name[i][3] THEN "running" ELSE "stopped"]
             ELSE NoInst]
  BY <1>1
<1>7. /\ Cardinality(replicas) \in Nat /\ Cardinality(copies) \in Nat
      /\ a \in [1..Cardinality(replicas) -> replicas] /\ b \in [1..Cardinality(copies) -> copies]
      /\ \A i, l \in 1..Cardinality(replicas) : a[i] = a[l] => i = l
  BY <1>2, <1>3, SetToSeqListsOnce
<1> HIDE DEF a, b, replicas, copies
<1>8. \A i \in DOMAIN name :
        \/ i \in 1..Cardinality(replicas) /\ name[i] = a[i]
        \/ name[i] \in copies
  BY <1>7
<1>9. ASSUME NEW i \in Slots, inst[i] # NoInst, inst[i].owned
      PROVE  /\ i \in 1..Cardinality(replicas) /\ a[i] \in replicas
             /\ inst[i].load = a[i][1]
  <2> HIDE DEF name
  <2>1. i \in DOMAIN name /\ inst[i].owned = name[i][3] /\ inst[i].load = name[i][1]
    BY <1>6, <1>9
  <2> QED BY <1>5, <1>7, <1>8, <1>9, <2>1
<1>10. a[j] = a[k]
  <2>1. a[j] \in replicas /\ a[k] \in replicas /\ a[j][1] = a[k][1]
    BY <1>9
  <2>2. a[j] = <<a[j][1], f[a[j][1]], TRUE>> /\ a[k] = <<a[k][1], f[a[k][1]], TRUE>>
    BY <1>4, <2>1
  <2> QED BY <2>1, <2>2
<1> QED BY <1>7, <1>9, <1>10

LEMMA InitServeInv == Init => ServeInv
<1> SUFFICES ASSUME Init PROVE (\A w \in Loads : Served(w)) /\ (\A m \in Movers : Disowned(m))
  BY DEF ServeInv
<1>1. ASSUME NEW w \in Loads PROVE Served(w)
  <2>1. \A j, k \in Serving(w) : j = k
    BY InitOwned, ServingIs
  <2>2. ASSUME NEW k \in Serving(w) PROVE Listed(k) \in cache[inst[k].host]
    <3>1. k \in Slots /\ inst[k] # NoInst
      BY ServingIs
    <3>2. inst[k].host \in Hosts
      BY <3>1, InitTypeInv, ChangedTypes DEF Inst, TypeInv
    <3>3. Listed(k) \in Actual(inst[k].host)
      BY <3>1 DEF Actual, On
    <3>4. cache[inst[k].host] = Actual(inst[k].host)
      BY <3>2 DEF Init
    <3> QED BY <3>3, <3>4
  <2>3. plan[w].type = "none"
    BY ConstantTypes DEF Init
  <2> QED BY <2>1, <2>2, <2>3 DEF Served
<1>2. ASSUME NEW m \in Movers PROVE Disowned(m)
  BY DEF Init, Disowned
<1> QED BY <1>1, <1>2

(* Undisturbed, a workload on the move has one running instance at most,    *)
(* whatever the movers and the passes over it do at the same time.          *)
THEOREM ServedOnce == Spec => []NeverTwice
<1>1. ServeInv => NeverTwice
  <2> SUFFICES ASSUME ServeInv, budget = MaxFaults, NEW w \in Loads
               PROVE  Cardinality({k \in Owned(w) : inst[k].state = "running"}) <= 1
    BY DEF NeverTwice
  <2>1. \A j, k \in Serving(w) : j = k
    BY DEF ServeInv, Served
  <2>2. CASE Serving(w) = {}
    BY <2>2, FS_EmptySet DEF Serving
  <2>3. ASSUME NEW k \in Serving(w) PROVE Cardinality(Serving(w)) = 1
    <3>1. Serving(w) = {k}
      BY <2>1, <2>3
    <3> QED BY <3>1, FS_Singleton
  <2> QED BY <2>2, <2>3 DEF Serving
<1>2. Init => YieldInv
  BY InitYieldInv
<1> QED BY <1>1, <1>2, InitServeInv, TypesHold, NextYieldInv, NextServeInv, PTL DEF Spec
================================================================================
