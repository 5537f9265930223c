---------------------------- MODULE ReconcilerProofs ----------------------------
(***************************************************************************)
(* Proofs about the intent table and about the reconciliation loop over    *)
(* it, for any number of replicas, intents, clients, hosts and instances   *)
(* and any combination of faults. First the table (IntentStore): the       *)
(* inductive invariant StoreInv says what an open transaction knows about  *)
(* the row it is going to write. Then the loop (Reconciler), of which      *)
(* every step is one of the table or leaves it alone.                      *)
(***************************************************************************)
EXTENDS Reconciler, FiniteSetTheorems, TLAPS

Pending(c) == txn[c] # NoTxn

(* A row to be updated exists; a row to be inserted does not, and nobody   *)
(* else is about to write it.                                              *)
Grounded ==
  \A c \in Clients : Pending(c) =>
    IF txn[c].op = "create"
    THEN /\ rows[txn[c].intent] = NoRow
         /\ \A d \in Clients : d # c /\ Pending(d) => txn[d].intent # txn[c].intent
    ELSE rows[txn[c].intent] # NoRow

(* When transactions do not overlap, what one has read is still so. *)
Serial ==
  ~Overlap =>
    /\ \A c, d \in Clients : Pending(c) /\ Pending(d) => c = d
    /\ \A c \in Clients : Pending(c) =>
         IF txn[c].op = "create"
         THEN \A j \in Intents : Active(j) => rows[j].alias # txn[c].row.alias
         ELSE txn[c].row = rows[txn[c].intent]

StoreInv == StoreTypeOK /\ Grounded /\ Serial /\ (~Overlap => OneActivePerAlias)

LEMMA EmptyIsNotARecord == NoRow \notin Row /\ NoTxn \notin Txn
BY DEF NoRow, Row, Phases, NoTxn, Txn

LEMMA StoreInitInv == StoreInit => StoreInv
BY DEF StoreInit, StoreInv, StoreTypeOK, Grounded, Serial, OneActivePerAlias, Pending, Active

(* Opening a transaction writes no row. *)
LEMMA CheckAliasInv ==
  ASSUME StoreInv, NEW c \in Clients, NEW i \in Intents, NEW a \in Aliases,
         NEW n \in ReplicaCounts, CheckAlias(c, i, a, n)
  PROVE  StoreInv'
<1> DEFINE t == [op |-> "create", intent |-> i, row |-> NewRow(a, n),
                 phase |-> "pending", orphan |-> FALSE]
<1>1. rows' = rows /\ txn' = [txn EXCEPT ![c] = t] /\ txn[c] = NoTxn
  BY DEF CheckAlias, MayOpen, Open
<1>2. t \in Txn /\ t # NoTxn
  <2>1. NewRow(a, n) \in Row /\ "pending" \in Phases
    BY DEF NewRow, Row, Phases
  <2>2. t \in Txn
    BY <2>1 DEF Txn
  <2> QED BY <2>2, EmptyIsNotARecord
<1>3. StoreTypeOK'
  BY <1>1, <1>2 DEF StoreInv, StoreTypeOK
<1>4. /\ txn'[c] = t
      /\ \A d \in Clients : d # c => txn'[d] = txn[d]
  BY <1>1 DEF StoreInv, StoreTypeOK
<1>5. Grounded'
  BY <1>1, <1>2, <1>4 DEF StoreInv, Grounded, Pending, CheckAlias
<1>6. Serial'
  BY <1>1, <1>2, <1>4 DEF StoreInv, Serial, Pending, CheckAlias, Active, NewRow, MayOpen
<1>7. (~Overlap => OneActivePerAlias)'
  BY <1>1 DEF StoreInv, OneActivePerAlias, Active
<1> QED BY <1>3, <1>5, <1>6, <1>7 DEF StoreInv

LEMMA ReadInv ==
  ASSUME StoreInv, NEW c \in Clients, NEW i \in Intents, NEW p \in Phases,
         NEW orphan \in BOOLEAN, NEW op \in {"delete", "status"},
         MayOpen(c), Active(i), Open(c, op, i, rows[i], p, orphan), rows' = rows
  PROVE  StoreInv'
<1> DEFINE t == [op |-> op, intent |-> i, row |-> rows[i], phase |-> p, orphan |-> orphan]
<1>1. txn' = [txn EXCEPT ![c] = t] /\ txn[c] = NoTxn
  BY DEF MayOpen, Open
<1>2. t \in Txn /\ t # NoTxn
  BY EmptyIsNotARecord DEF Txn, Active, StoreInv, StoreTypeOK
<1>3. StoreTypeOK'
  BY <1>1, <1>2 DEF StoreInv, StoreTypeOK
<1>4. /\ txn'[c] = t
      /\ \A d \in Clients : d # c => txn'[d] = txn[d]
  BY <1>1 DEF StoreInv, StoreTypeOK
<1>5. Grounded'
  BY <1>1, <1>2, <1>4 DEF StoreInv, Grounded, Pending, Active
<1>6. Serial'
  BY <1>1, <1>2, <1>4 DEF StoreInv, Serial, Pending, Active, MayOpen
<1>7. (~Overlap => OneActivePerAlias)'
  BY DEF StoreInv, OneActivePerAlias, Active
<1> QED BY <1>3, <1>5, <1>6, <1>7 DEF StoreInv

(* Closing one transaction, the others still know what they knew. *)
LEMMA InsertIntentInv ==
  ASSUME StoreInv, NEW c \in Clients, InsertIntent(c)
  PROVE  StoreInv'
<1> DEFINE t == txn[c]  i == txn[c].intent
<1>1. /\ t \in Txn /\ t.op = "create" /\ Pending(c)
      /\ i \in Intents /\ t.row \in Row
  BY DEF InsertIntent, StoreInv, StoreTypeOK, Txn, NoTxn, Pending
<1>2. /\ rows' = [rows EXCEPT ![i] = t.row]
      /\ txn' = [txn EXCEPT ![c] = NoTxn]
  BY DEF InsertIntent, Close
<1>3. StoreTypeOK'
  BY <1>1, <1>2 DEF StoreInv, StoreTypeOK
<1>4. /\ txn'[c] = NoTxn /\ rows'[i] = t.row
      /\ \A d \in Clients : d # c => txn'[d] = txn[d]
      /\ \A j \in Intents : j # i => rows'[j] = rows[j]
  BY <1>1, <1>2 DEF StoreInv, StoreTypeOK
<1>5. \A d \in Clients : Pending(d)' => Pending(d) /\ txn'[d] = txn[d] /\ txn[d].intent # i
  BY <1>1, <1>4 DEF StoreInv, Grounded, Pending
<1>6. \A d \in Clients : Pending(d) => txn[d].intent \in Intents
  BY DEF StoreInv, StoreTypeOK, Txn, Pending
<1>7. Grounded'
  BY <1>4, <1>5, <1>6 DEF StoreInv, Grounded
<1>8. Serial'
  BY <1>1, <1>4, <1>5 DEF StoreInv, Serial
<1>9. (~Overlap => OneActivePerAlias)'
  BY <1>1, <1>4 DEF StoreInv, Serial, OneActivePerAlias, Active
<1> QED BY <1>3, <1>7, <1>8, <1>9 DEF StoreInv

(* What SoftDelete and WriteStatus have in common: a row is updated in      *)
(* place, keeps its alias and does not come back from deletion.             *)
LEMMA UpdateInv ==
  ASSUME StoreInv, NEW c \in Clients, txn[c].op \in {"delete", "status"}, Close(c),
         NEW new \in Row, rows' = [rows EXCEPT ![txn[c].intent] = new],
         rows[txn[c].intent] \in Row =>
           /\ new.alias = rows[txn[c].intent].alias
           /\ rows[txn[c].intent].retired => new.retired
  PROVE  StoreInv'
<1> DEFINE t == txn[c]  i == txn[c].intent
<1>1. /\ t \in Txn /\ Pending(c) /\ i \in Intents
      /\ rows[i] # NoRow /\ rows[i] \in Row /\ new # NoRow
  BY EmptyIsNotARecord DEF StoreInv, StoreTypeOK, Grounded, Txn, NoTxn, Pending
<1>2. txn' = [txn EXCEPT ![c] = NoTxn]
  BY DEF Close
<1>3. StoreTypeOK'
  BY <1>1, <1>2 DEF StoreInv, StoreTypeOK
<1>4. /\ txn'[c] = NoTxn /\ rows'[i] = new
      /\ \A d \in Clients : d # c => txn'[d] = txn[d]
      /\ \A j \in Intents : j # i => rows'[j] = rows[j]
  BY <1>1, <1>2 DEF StoreInv, StoreTypeOK
<1>5. \A d \in Clients : Pending(d)' => Pending(d) /\ txn'[d] = txn[d] /\ d # c
  BY <1>4 DEF Pending
<1>6. \A d \in Clients : Pending(d) => txn[d].intent \in Intents
  BY DEF StoreInv, StoreTypeOK, Txn, Pending
<1>7. Grounded'
  BY <1>1, <1>4, <1>5, <1>6 DEF StoreInv, Grounded
<1>8. Serial'
  BY <1>1, <1>5 DEF StoreInv, Serial
<1>9. (~Overlap => OneActivePerAlias)'
  BY <1>1, <1>4 DEF StoreInv, OneActivePerAlias, Active
<1> QED BY <1>3, <1>7, <1>8, <1>9 DEF StoreInv

(* The row SoftDelete, or WriteStatus, leaves behind. *)
LEMMA SoftDeleteRow ==
  ASSUME StoreInv, NEW c \in Clients, SoftDelete(c)
  PROVE  LET t == txn[c]
             old == rows[t.intent]
             new == [old EXCEPT !.phase = IF t.row.phase = "deleting" THEN @ ELSE "deleting",
                                !.orphan = @ \/ t.orphan] IN
         /\ rows' = [rows EXCEPT ![t.intent] = new]
         /\ t \in Txn /\ old \in Row /\ new \in Row
<1>1. txn[c] \in Txn /\ Pending(c) /\ txn[c].intent \in Intents /\ txn[c].orphan \in BOOLEAN
  BY DEF SoftDelete, StoreInv, StoreTypeOK, Txn, NoTxn, Pending
<1>2. rows[txn[c].intent] \in Row
  BY <1>1 DEF StoreInv, StoreTypeOK, Grounded, SoftDelete
<1> QED BY <1>1, <1>2 DEF SoftDelete, StoreInv, StoreTypeOK, Row, Phases

LEMMA WriteStatusRow ==
  ASSUME StoreInv, NEW c \in Clients, WriteStatus(c)
  PROVE  LET t == txn[c]
             old == rows[t.intent]
             phase == Guarded(t.row.phase, t.phase)
             new == [old EXCEPT !.phase = IF phase = t.row.phase THEN @ ELSE phase,
                                !.retired = @ \/ phase = "deleted"] IN
         /\ rows' = [rows EXCEPT ![t.intent] = new]
         /\ t \in Txn /\ old \in Row /\ new \in Row
<1>1. txn[c] \in Txn /\ Pending(c) /\ txn[c].intent \in Intents
  BY DEF WriteStatus, StoreInv, StoreTypeOK, Txn, NoTxn, Pending
<1>2. rows[txn[c].intent] \in Row
  BY <1>1 DEF StoreInv, StoreTypeOK, Grounded, WriteStatus
<1>3. Guarded(txn[c].row.phase, txn[c].phase) \in Phases
  BY <1>1 DEF Guarded, Txn, Row
<1> QED BY <1>1, <1>2, <1>3 DEF WriteStatus, StoreInv, StoreTypeOK, Row

LEMMA SoftDeleteInv ==
  ASSUME StoreInv, NEW c \in Clients, SoftDelete(c)
  PROVE  StoreInv'
<1> DEFINE old == rows[txn[c].intent]
           new == [old EXCEPT !.phase = IF txn[c].row.phase = "deleting" THEN @ ELSE "deleting",
                              !.orphan = @ \/ txn[c].orphan]
<1>1. rows' = [rows EXCEPT ![txn[c].intent] = new] /\ old \in Row /\ new \in Row
  BY SoftDeleteRow
<1>2. new.alias = old.alias /\ new.retired = old.retired
  BY <1>1 DEF Row
<1>3. txn[c].op \in {"delete", "status"} /\ Close(c)
  BY DEF SoftDelete
<1> QED BY <1>1, <1>2, <1>3, UpdateInv

LEMMA WriteStatusInv ==
  ASSUME StoreInv, NEW c \in Clients, WriteStatus(c)
  PROVE  StoreInv'
<1> DEFINE old == rows[txn[c].intent]
           phase == Guarded(txn[c].row.phase, txn[c].phase)
           new == [old EXCEPT !.phase = IF phase = txn[c].row.phase THEN @ ELSE phase,
                              !.retired = @ \/ phase = "deleted"]
<1>1. rows' = [rows EXCEPT ![txn[c].intent] = new] /\ old \in Row /\ new \in Row
  BY WriteStatusRow
<1>2. new.alias = old.alias /\ (old.retired => new.retired)
  BY <1>1 DEF Row
<1>3. txn[c].op \in {"delete", "status"} /\ Close(c)
  BY DEF WriteStatus
<1> QED BY <1>1, <1>2, <1>3, UpdateInv

LEMMA RollbackInv ==
  ASSUME StoreInv, NEW c \in Clients, Close(c), rows' = rows
  PROVE  StoreInv'
<1>1. txn' = [txn EXCEPT ![c] = NoTxn]
  BY DEF Close
<1>2. \A d \in Clients : Pending(d)' => Pending(d) /\ txn'[d] = txn[d] /\ d # c
  BY <1>1 DEF StoreInv, StoreTypeOK, Pending
<1>3. StoreTypeOK'
  BY <1>1 DEF StoreInv, StoreTypeOK
<1>4. Grounded'
  BY <1>2 DEF StoreInv, Grounded
<1>5. Serial'
  BY <1>2 DEF StoreInv, Serial, Active
<1>6. (~Overlap => OneActivePerAlias)'
  BY DEF StoreInv, OneActivePerAlias, Active
<1> QED BY <1>3, <1>4, <1>5, <1>6 DEF StoreInv

LEMMA StoreStepInv == StoreInv /\ [StoreNext]_storeVars => StoreInv'
<1> SUFFICES ASSUME StoreInv, [StoreNext]_storeVars
             PROVE  StoreInv'
  OBVIOUS
<1>1. ASSUME NEW c \in Clients, NEW i \in Intents, NEW a \in Aliases,
             NEW n \in ReplicaCounts, CheckAlias(c, i, a, n)
      PROVE  StoreInv'
  BY <1>1, CheckAliasInv
<1>2. ASSUME NEW c \in Clients, InsertIntent(c)
      PROVE  StoreInv'
  BY <1>2, InsertIntentInv
<1>3. ASSUME NEW c \in Clients, NEW i \in Intents, NEW orphan \in BOOLEAN,
             ReadForDelete(c, i, orphan)
      PROVE  StoreInv'
  BY <1>3, ReadInv DEF ReadForDelete, Phases
<1>4. ASSUME NEW c \in Clients, SoftDelete(c)
      PROVE  StoreInv'
  BY <1>4, SoftDeleteInv
<1>5. ASSUME NEW c \in Clients, NEW i \in Intents, NEW p \in Phases, ReadForStatus(c, i, p)
      PROVE  StoreInv'
  BY <1>5, ReadInv DEF ReadForStatus
<1>6. ASSUME NEW c \in Clients, WriteStatus(c)
      PROVE  StoreInv'
  BY <1>6, WriteStatusInv
<1>7. ASSUME NEW c \in Clients, Rollback(c)
      PROVE  StoreInv'
  BY <1>7, RollbackInv DEF Rollback
<1>8. CASE UNCHANGED storeVars
  BY <1>8 DEF storeVars, StoreInv, StoreTypeOK, Grounded, Serial, OneActivePerAlias, Pending, Active
<1> QED BY <1>1, <1>2, <1>3, <1>4, <1>5, <1>6, <1>7, <1>8 DEF StoreNext

--------------------------------------------------------------------------------
(* The columns of every row keep their types, whatever transactions overlap. *)
THEOREM StoreInvariant == StoreSpec => []StoreInv
<1> QED BY StoreInitInv, StoreStepInv, PTL DEF StoreSpec

(* When transactions do not overlap, check_alias_conflict keeps at most one *)
(* active intent per alias.                                                 *)
THEOREM AliasUnique == StoreSpec => [](~Overlap => OneActivePerAlias)
<1>1. StoreInv => (~Overlap => OneActivePerAlias)
  BY DEF StoreInv
<1> QED BY <1>1, StoreInvariant, PTL

(* deleted_at never becomes NULL again, however transactions overlap. *)
THEOREM RetiredStaysRetired == StoreSpec => RetiredIsFinal
<1> DEFINE Kept == \A i \in Intents : rows[i] # NoRow /\ rows[i].retired => rows'[i].retired
<1>1. StoreInv /\ [StoreNext]_storeVars => [Kept]_rows
  <2> SUFFICES ASSUME StoreInv, StoreNext, NEW i \in Intents, rows[i] # NoRow, rows[i].retired
               PROVE  rows' = rows \/ rows'[i].retired
    BY DEF storeVars
  <2>1. ASSUME NEW c \in Clients, InsertIntent(c)
        PROVE  rows'[i].retired
    <3>1. txn[c].intent # i
      BY <2>1 DEF InsertIntent, StoreInv, Grounded, Pending, NoTxn
    <3> QED BY <2>1, <3>1 DEF InsertIntent, StoreInv, StoreTypeOK
  <2>2. ASSUME NEW c \in Clients, SoftDelete(c)
        PROVE  rows'[i].retired
    BY <2>2, SoftDeleteRow DEF StoreInv, StoreTypeOK, Row, Txn
  <2>3. ASSUME NEW c \in Clients, WriteStatus(c)
        PROVE  rows'[i].retired
    BY <2>3, WriteStatusRow DEF StoreInv, StoreTypeOK, Row, Txn
  <2> QED BY <2>1, <2>2, <2>3 DEF StoreNext, CheckAlias, ReadForDelete, ReadForStatus, Rollback
<1> QED BY <1>1, StoreInvariant, PTL DEF StoreSpec, RetiredIsFinal

(* When transactions do not overlap, update_status' guard suffices: a row   *)
(* that is being deleted stays so until it is deleted.                      *)
THEOREM DeletingStaysDeleting ==
  ASSUME ~Overlap
  PROVE  StoreSpec => DeletingIsTerminal
<1> DEFINE Kept == \A i \in Intents : rows[i].phase = "deleting" =>
                     rows'[i].phase \in {"deleting", "deleted"}
<1>1. StoreInv /\ [StoreNext]_storeVars => [Kept]_rows
  <2> SUFFICES ASSUME StoreInv, StoreNext, NEW i \in Intents,
                      rows[i].phase = "deleting"
               PROVE  rows' = rows \/ rows'[i].phase \in {"deleting", "deleted"}
    BY DEF storeVars
  <2>1. ASSUME NEW c \in Clients, InsertIntent(c)
        PROVE  rows'[i].phase \in {"deleting", "deleted"}
    <3>1. txn[c].intent # i
      BY <2>1 DEF InsertIntent, StoreInv, Grounded, Pending, NoTxn, NoRow
    <3> QED BY <2>1, <3>1 DEF InsertIntent, StoreInv, StoreTypeOK
  <2>2. ASSUME NEW c \in Clients, SoftDelete(c)
        PROVE  rows'[i].phase \in {"deleting", "deleted"}
    <3> DEFINE k == txn[c].intent
               new == [rows[k] EXCEPT !.phase = IF txn[c].row.phase = "deleting" THEN @ ELSE "deleting",
                                      !.orphan = @ \/ txn[c].orphan]
    <3>1. rows' = [rows EXCEPT ![k] = new] /\ rows[k] \in Row /\ k \in Intents
      BY <2>2, SoftDeleteRow DEF Txn
    <3>2. new.phase \in {rows[k].phase, "deleting"}
      BY <3>1 DEF Row
    <3> QED BY <3>1, <3>2 DEF StoreInv, StoreTypeOK
  <2>3. ASSUME NEW c \in Clients, WriteStatus(c)
        PROVE  rows'[i].phase \in {"deleting", "deleted"}
    <3> DEFINE k == txn[c].intent
               phase == Guarded(txn[c].row.phase, txn[c].phase)
               new == [rows[k] EXCEPT !.phase = IF phase = txn[c].row.phase THEN @ ELSE phase,
                                      !.retired = @ \/ phase = "deleted"]
    <3>1. txn[c].row = rows[k]
      BY <2>3 DEF WriteStatus, StoreInv, Serial, Pending, NoTxn
    <3>2. rows' = [rows EXCEPT ![k] = new] /\ rows[k] \in Row /\ k \in Intents
      BY <2>3, WriteStatusRow DEF Txn
    <3>3. rows[k].phase = "deleting" => new.phase \in {"deleting", "deleted"}
      BY <3>1, <3>2 DEF Row, Guarded
    <3> QED BY <3>2, <3>3 DEF StoreInv, StoreTypeOK
  <2> QED BY <2>1, <2>2, <2>3 DEF StoreNext, CheckAlias, ReadForDelete, ReadForStatus, Rollback
<1> QED BY <1>1, StoreInvariant, PTL DEF StoreSpec, DeletingIsTerminal

--------------------------------------------------------------------------------
(* The reconciliation loop. *)

HostOK ==
  /\ lock \subseteq Intents
  /\ backoff \subseteq Controls \X Intents
  /\ settle \subseteq Controls \X Intents
  /\ inst \in View
  /\ cache \in View
  /\ disowned \subseteq Slots
  /\ budget \in 0..MaxFaults

(* An action some pass is executing names what it acts on. *)
Known(a) ==
  /\ a \in Act
  /\ a.type # "none"
  /\ a.type \in {"stop", "disown", "recreate"} => a.slot \in Slots
  /\ a.type = "create" => a.host \in Hosts

(* What the local variables j of a pass hold when it stands at place p. *)
Pass(p, j) ==
  /\ \A i \in j.todo : j.snap[i] \in Row
  /\ p \notin {"idle", "choose"} => j.intent \in Intents /\ j.snap[j.intent] \in Row
  /\ p \in {"act", "start", "delete", "disown", "tombstone"} => Known(j.act)
  /\ p = "start" => j.act.type = "create" /\ j.act.slot \in Slots
  /\ p = "delete" => j.act.type \in {"stop", "recreate"}
  /\ p = "disown" => j.act.type = "disown" /\ j.view[j.act.slot] \in Inst
  /\ p = "tombstone" => j.act.type = "disown"

ControlOK ==
  /\ pc \in [Controls -> Places]
  /\ job \in [Controls -> Job]
  /\ \A c \in Controls : Pass(pc[c], job[c])

Inv == StoreInv /\ HostOK /\ ControlOK

LEMMA NoInstIsNotInst == NoInst \notin Inst
BY DEF NoInst, Inst

LEMMA NoJobOK == NoJob \in Job /\ NoAct \in Act /\ NoView \in View
<1>1. NoAct \in Act
  BY DEF NoAct, Action, Act
<1>2. NoView \in View
  BY DEF NoView, View
<1>3. NoSnap \in [Intents -> Row \union {NoRow}]
  BY DEF NoSnap
<1> QED BY <1>1, <1>2, <1>3 DEF NoJob, Job

LEMMA InitInv == Init => Inv
<1> SUFFICES ASSUME Init PROVE Inv
  OBVIOUS
<1>1. StoreInv
  BY StoreInitInv DEF Init
<1>2. HostOK
  BY NoJobOK, ReconcilerAssumption DEF Init, HostOK
<1>3. ControlOK
  BY NoJobOK DEF Init, ControlOK, Pass, NoJob, Places
<1> QED BY <1>1, <1>2, <1>3 DEF Inv

(* A step of one pass leaves the others as they were. *)
LEMMA PassStep ==
  ASSUME ControlOK, NEW c \in Controls, NEW p \in Places, NEW j \in Job, Pass(p, j),
         Goto(c, p), job' = [job EXCEPT ![c] = j]
  PROVE  ControlOK'
BY DEF ControlOK, Goto

LEMMA PassMoves ==
  ASSUME ControlOK, NEW c \in Controls, NEW p \in Places, Pass(p, job[c]),
         Goto(c, p), job' = job
  PROVE  ControlOK'
BY DEF ControlOK, Goto

LEMMA PassDone ==
  ASSUME ControlOK, NEW c \in Controls, NEW i \in Intents
  PROVE  /\ Rest(c, i) \in Job
         /\ Pass(After(Rest(c, i).todo), Rest(c, i))
         /\ After(Rest(c, i).todo) \in Places
         /\ Rest(c, i).todo = job[c].todo \ {i}
<1>1. job[c] \in Job /\ \A k \in job[c].todo : job[c].snap[k] \in Row
  BY DEF ControlOK, Pass
<1>2. job[c].todo \ {i} \subseteq Intents
  BY <1>1 DEF Job
<1>3. [job[c].snap EXCEPT ![i] = NoRow] \in [Intents -> Row \union {NoRow}]
  BY <1>1 DEF Job
<1>4. Rest(c, i) \in Job /\ Rest(c, i).todo = job[c].todo \ {i}
  BY <1>2, <1>3, NoJobOK DEF Rest, Job, NoJob
<1>5. \A k \in job[c].todo \ {i} : [job[c].snap EXCEPT ![i] = NoRow][k] = job[c].snap[k]
  BY <1>1, <1>2 DEF Job
<1>6. Rest(c, i).snap = [job[c].snap EXCEPT ![i] = NoRow]
  BY DEF Rest, NoJob
<1> QED BY <1>1, <1>4, <1>5, <1>6 DEF Pass, After, Places

--------------------------------------------------------------------------------
(* Each step of a pass keeps HostOK and ControlOK. *)

LEMMA ListIntentsOK ==
  ASSUME Inv, NEW c \in Controls, ListIntents(c)
  PROVE  HostOK' /\ ControlOK'
<1> DEFINE active == {i \in Intents : Active(i)}
           snap == [i \in Intents |-> IF i \in active THEN rows[i] ELSE NoRow]
           j == [NoJob EXCEPT !.todo = active, !.snap = snap]
           p == IF active = {} THEN "idle" ELSE "choose"
<1>1. \A i \in active : rows[i] \in Row
  BY DEF Inv, StoreInv, StoreTypeOK, Active
<1>2. snap \in [Intents -> Row \union {NoRow}] /\ active \subseteq Intents
  BY <1>1
<1>3. j \in Job /\ j.todo = active /\ j.snap = snap
  BY <1>2, NoJobOK DEF NoJob, Job
<1>4. p \in Places /\ Pass(p, j)
  BY <1>1, <1>3 DEF Places, Pass
<1>5. Goto(c, p) /\ job' = [job EXCEPT ![c] = j]
  BY DEF ListIntents
<1>6. ControlOK'
  BY <1>3, <1>4, <1>5, PassStep DEF Inv
<1> QED BY <1>6 DEF ListIntents, Inv, HostOK

LEMMA TryLockOK ==
  ASSUME Inv, NEW c \in Controls, NEW i \in Intents, TryLock(c, i)
  PROVE  HostOK' /\ ControlOK'
<1>1. HostOK'
  BY DEF TryLock, Inv, HostOK
<1>2. CASE i \in lock
  BY <1>1, <1>2, PassDone, PassStep DEF TryLock, Inv
<1>3. CASE i \notin lock
  <2> DEFINE j == [job[c] EXCEPT !.todo = @ \ {i}, !.intent = i]
  <2>1. job[c] \in Job /\ Pass("choose", job[c])
    BY DEF TryLock, Inv, ControlOK
  <2>2. j \in Job /\ j.todo = job[c].todo \ {i} /\ j.intent = i /\ j.snap = job[c].snap
    BY <2>1 DEF Job
  <2>3. Pass("enter", j)
    BY <2>1, <2>2 DEF Pass, TryLock
  <2>4. Goto(c, "enter") /\ job' = [job EXCEPT ![c] = j]
    BY <1>3 DEF TryLock
  <2>5. "enter" \in Places
    BY DEF Places
  <2> QED BY <1>1, <2>2, <2>3, <2>4, <2>5, PassStep DEF Inv
<1> QED BY <1>2, <1>3

LEMMA EnterOK ==
  ASSUME Inv, NEW c \in Controls, Enter(c)
  PROVE  HostOK' /\ ControlOK'
<1> DEFINE i == job[c].intent
           settling == <<c, i>> \in settle
           deleting == Active(i) /\ rows[i].phase = "deleting"
           row == IF settling /\ deleting THEN rows[i] ELSE job[c].snap[i]
           j == [job[c] EXCEPT !.refresh = settling /\ ~deleting,
                               !.snap[i] = IF settling /\ deleting THEN rows[i] ELSE @]
<1>1. HostOK'
  BY DEF Enter, Inv, HostOK
<1>2. job[c] \in Job /\ Pass("enter", job[c]) /\ i \in Intents
  BY DEF Enter, Inv, ControlOK, Pass
<1>3. "observe" \in Places /\ "unlock" \in Places
  BY DEF Places
<1>4. CASE Goto(c, "unlock") /\ job' = job
  <2>1. Pass("unlock", job[c])
    BY <1>2 DEF Pass
  <2> QED BY <1>1, <1>3, <1>4, <2>1, PassMoves DEF Inv
<1>5. CASE Goto(c, "observe") /\ job' = [job EXCEPT ![c] = j]
  <2>1. row \in Row
    BY <1>2 DEF Pass, Active, Inv, StoreInv, StoreTypeOK
  <2>2. /\ j \in Job /\ j.todo = job[c].todo /\ j.intent = i
        /\ j.snap = [job[c].snap EXCEPT ![i] = row]
    BY <1>2, <2>1 DEF Job
  <2>3. Pass("observe", j)
    BY <1>2, <2>1, <2>2 DEF Pass, Job
  <2> QED BY <1>1, <1>3, <1>5, <2>2, <2>3, PassStep DEF Inv
<1> QED BY <1>4, <1>5 DEF Enter

LEMMA ManagedOK ==
  ASSUME Inv, NEW i \in Intents, NEW alias
  PROVE  /\ Managed(i, alias) \subseteq Slots
         /\ Running(Managed(i, alias)) \subseteq Slots
         /\ \A k \in Managed(i, alias) : cache[k] \in Inst
BY DEF Managed, Running, Inv, HostOK, View

LEMMA DiffOK ==
  ASSUME Inv, NEW row \in Row, NEW S \in SUBSET Slots, \A k \in S : cache[k] \in Inst,
         NEW fit \in SUBSET Hosts, NEW a \in Diff(row, S, fit)
  PROVE  Known(a)
<1>1. \A k \in S : cache[k].host \in Hosts
  BY DEF Inst
<1>2. \A T \in SUBSET S : \A b \in Stops(T) : Known(b)
  BY <1>1 DEF Stops, Action, Known, Act
<1>3. \A type \in {"disown", "recreate"}, k \in S : Known(Action(type, k, cache[k].host))
  BY <1>1 DEF Action, Known, Act
<1>4. \A h \in Candidates(row.alias, fit) : Known(Action("create", "none", h))
  BY DEF Candidates, Action, Known, Act
<1>5. Broken(S) \in SUBSET S
  BY DEF Broken
<1> QED BY <1>2, <1>3, <1>4, <1>5 DEF Diff

LEMMA ObserveOK ==
  ASSUME Inv, NEW c \in Controls, Observe(c)
  PROVE  HostOK' /\ ControlOK'
<1>1. HostOK'
  BY DEF Observe, Inv, HostOK
<1> DEFINE i == job[c].intent
           row == job[c].snap[i]
           S == Managed(i, row.alias)
           looked == [job[c] EXCEPT !.seen = S, !.ready = Running(S)]
<1>2. job[c] \in Job /\ Pass("observe", job[c]) /\ i \in Intents /\ row \in Row
  BY DEF Observe, Inv, ControlOK, Pass
<1>3. S \in SUBSET Slots /\ Running(S) \in SUBSET Slots /\ \A k \in S : cache[k] \in Inst
  BY <1>2, ManagedOK
<1>4. /\ looked \in Job /\ looked.todo = job[c].todo /\ looked.intent = i
      /\ looked.snap = job[c].snap
  BY <1>2, <1>3 DEF Job
<1>5. \A fit \in FitChoices : fit \in SUBSET Hosts
  BY DEF FitChoices
<1>6. CASE job' = [job EXCEPT ![c] = looked] /\ Goto(c, "status")
  <2>1. Pass("status", looked) /\ "status" \in Places
    BY <1>2, <1>4 DEF Pass, Places
  <2> QED BY <1>1, <1>4, <1>6, <2>1, PassStep DEF Inv
<1>7. ASSUME NEW a, Known(a), job' = [job EXCEPT ![c] = [looked EXCEPT !.act = a]], Goto(c, "act")
      PROVE  ControlOK'
  <2> DEFINE j == [looked EXCEPT !.act = a]
  <2>1. /\ j \in Job /\ j.todo = job[c].todo /\ j.intent = i
        /\ j.snap = job[c].snap /\ j.act = a
    BY <1>4, <1>7 DEF Job, Known
  <2>2. Pass("act", j) /\ "act" \in Places
    BY <1>2, <1>7, <2>1 DEF Pass, Places
  <2> QED BY <1>7, <2>1, <2>2, PassStep DEF Inv
<1>8. \A fit \in FitChoices :
        \A a \in (IF job[c].refresh THEN {} ELSE Diff(row, S, fit)) : Known(a)
  BY <1>2, <1>3, <1>5, DiffOK
<1> QED BY <1>1, <1>6, <1>7, <1>8 DEF Observe

(* The ways an action ends, and what it may do to the hosts. *)

LEMMA InSectionOK ==
  ASSUME Inv, NEW c \in Controls, InSection(c)
  PROVE  /\ job[c].intent \in Intents
         /\ \A p \in {"observe", "reobserve", "status", "commit", "unlock"} :
              p \in Places /\ Pass(p, job[c])
BY DEF Inv, ControlOK, InSection, Pass, Places

LEMMA FailsOK ==
  ASSUME Inv, NEW c \in Controls, InSection(c), Fails(c)
  PROVE  /\ ControlOK'
         /\ backoff' \subseteq Controls \X Intents
         /\ UNCHANGED <<lock, settle, disowned>>
<1>1. ControlOK'
  BY InSectionOK, PassMoves DEF Inv, Fails
<1>2. <<c, job[c].intent>> \in Controls \X Intents
  BY InSectionOK
<1> QED BY <1>1, <1>2 DEF Fails, Inv, HostOK

LEMMA SucceedsOK ==
  ASSUME Inv, NEW c \in Controls, InSection(c), Succeeds(c)
  PROVE  /\ ControlOK'
         /\ backoff' \subseteq Controls \X Intents
         /\ UNCHANGED <<lock, settle>>
<1>1. ControlOK'
  BY InSectionOK, PassMoves DEF Inv, Succeeds
<1> QED BY <1>1 DEF Succeeds, Inv, HostOK

LEMMA ProceedsOK ==
  ASSUME Inv, NEW c \in Controls, NEW p \in Places, Pass(p, job[c]), Proceeds(c, p)
  PROVE  ControlOK' /\ UNCHANGED <<lock, backoff, settle, disowned>>
BY PassMoves DEF Inv, Proceeds

LEMMA SpendOK ==
  ASSUME HostOK, NEW kind, Spend(kind)
  PROVE  budget' \in 0..MaxFaults
BY ReconcilerAssumption DEF HostOK, Spend

LEMMA HostSetsOK ==
  ASSUME HostOK, NEW new \in View, HostSets(new)
  PROVE  inst' \in View /\ cache' \in View
BY DEF HostOK, HostSets, View

LEMMA NewState ==
  ASSUME HostOK, NEW k, inst[k] # NoInst,
         NEW state \in {"stopped", "starting", "running", "failed"}
  PROVE  [inst EXCEPT ![k].state = state] \in View
BY DEF HostOK, View, Inst

LEMMA StopInstanceOK ==
  ASSUME Inv, NEW c \in Controls, StopInstance(c)
  PROVE  HostOK' /\ ControlOK'
<1> DEFINE k == job[c].act.slot
           stopped == [inst EXCEPT ![k].state = "stopped"]
<1>1. pc[c] = "act" /\ InSection(c) /\ Pass("act", job[c]) /\ job[c].act.type = "stop"
  BY DEF StopInstance, InSection, Inv, ControlOK
<1>2. Pass("delete", job[c]) /\ "delete" \in Places
  BY <1>1 DEF Pass, Places
<1>3. inst[k] # NoInst => stopped \in View
  BY NewState DEF Inv
<1>4. CASE inst[k] # NoInst /\ HostSets(stopped) /\ Proceeds(c, "delete") /\ UNCHANGED budget
  BY <1>2, <1>3, <1>4, ProceedsOK, HostSetsOK DEF Inv, HostOK
<1>5. CASE Fails(c) /\ UNCHANGED <<inst, cache, budget>>
  BY <1>1, <1>5, FailsOK DEF Inv, HostOK
<1>6. CASE /\ inst[k] # NoInst /\ Spend("host_error") /\ Fails(c)
           /\ HostSets(stopped) \/ UNCHANGED hostVars
  <2>1. inst' \in View /\ cache' \in View
    BY <1>3, <1>6, HostSetsOK DEF hostVars, Inv, HostOK
  <2> QED BY <1>1, <1>6, <2>1, FailsOK, SpendOK DEF Inv, HostOK
<1> QED BY <1>4, <1>5, <1>6 DEF StopInstance

LEMMA DeleteInstanceOK ==
  ASSUME Inv, NEW c \in Controls, DeleteInstance(c)
  PROVE  HostOK' /\ ControlOK'
<1> DEFINE k == job[c].act.slot
           gone == [inst EXCEPT ![k] = NoInst]
<1>1. InSection(c)
  BY DEF DeleteInstance, InSection
<1>2. gone \in View
  BY DEF Inv, HostOK, View
<1>3. inst' \in View /\ cache' \in View /\ budget' \in 0..MaxFaults
  <2>1. CASE HostSets(gone) /\ UNCHANGED budget
    BY <1>2, <2>1, HostSetsOK DEF Inv, HostOK
  <2>2. CASE Spend("host_error") /\ UNCHANGED hostVars
    BY <2>2, SpendOK DEF hostVars, Inv, HostOK
  <2> QED BY <2>1, <2>2 DEF DeleteInstance
<1>4. CASE Succeeds(c) /\ UNCHANGED disowned
  BY <1>1, <1>3, <1>4, SucceedsOK DEF Inv, HostOK
<1>5. CASE Fails(c)
  BY <1>1, <1>3, <1>5, FailsOK DEF Inv, HostOK
<1> QED BY <1>4, <1>5 DEF DeleteInstance

LEMMA CreateInstanceOK ==
  ASSUME Inv, NEW c \in Controls, CreateInstance(c)
  PROVE  HostOK' /\ ControlOK'
<1> DEFINE i == job[c].intent
           new == [host |-> job[c].act.host, alias |-> job[c].snap[i].alias,
                   owner |-> i, state |-> "stopped"]
<1>1. /\ InSection(c) /\ Pass("act", job[c]) /\ job[c] \in Job
      /\ job[c].act.type = "create" /\ i \in Intents
  BY DEF CreateInstance, InSection, Inv, ControlOK, Pass
<1>2. new \in Inst
  BY <1>1 DEF Pass, Known, Inst, Row
<1>3. CASE UNCHANGED <<inst, cache, budget>> /\ Fails(c)
  BY <1>1, <1>3, FailsOK DEF Inv, HostOK
<1>4. CASE Spend("host_error") /\ Fails(c) /\ UNCHANGED hostVars
  BY <1>1, <1>4, FailsOK, SpendOK DEF Inv, HostOK, hostVars
<1>5. ASSUME NEW k \in Slots, HostSets([inst EXCEPT ![k] = new]), Spend("host_error"), Fails(c)
      PROVE  HostOK' /\ ControlOK'
  <2>1. [inst EXCEPT ![k] = new] \in View
    BY <1>2 DEF Inv, HostOK, View
  <2> QED BY <1>1, <1>5, <2>1, HostSetsOK, FailsOK, SpendOK DEF Inv, HostOK
<1>6. ASSUME NEW k \in Slots, HostSets([inst EXCEPT ![k] = new]), Goto(c, "start"),
             job' = [job EXCEPT ![c] = [job[c] EXCEPT !.act.slot = k]],
             UNCHANGED <<rows, txn, lock, backoff, settle, disowned, budget>>
      PROVE  HostOK' /\ ControlOK'
  <2> DEFINE a == [job[c].act EXCEPT !.slot = k]
             j == [job[c] EXCEPT !.act.slot = k]
  <2>1. [inst EXCEPT ![k] = new] \in View
    BY <1>2 DEF Inv, HostOK, View
  <2>2. HostOK'
    BY <1>6, <2>1, HostSetsOK DEF Inv, HostOK
  <2>3. Known(a) /\ a.type = "create" /\ a.slot = k
    BY <1>1 DEF Pass, Known, Act
  <2>4. j \in Job /\ j.act = a /\ j.todo = job[c].todo /\ j.snap = job[c].snap /\ j.intent = i
    BY <1>1, <2>3 DEF Job, Known
  <2>5. Pass("start", j) /\ "start" \in Places
    BY <1>1, <2>3, <2>4 DEF Pass, Places
  <2>6. ControlOK'
    BY <1>6, <2>4, <2>5, PassStep DEF Inv
  <2> QED BY <2>2, <2>6
<1> QED BY <1>3, <1>4, <1>5, <1>6 DEF CreateInstance

LEMMA StartInstanceOK ==
  ASSUME Inv, NEW c \in Controls, StartInstance(c)
  PROVE  HostOK' /\ ControlOK'
<1> DEFINE k == job[c].act.slot
           restart == job[c].act.type = "recreate"
<1>1. /\ InSection(c) /\ pc[c] \in {"start", "act"} /\ Pass(pc[c], job[c])
      /\ pc[c] = "start" => ~restart
  BY DEF StartInstance, InSection, Inv, ControlOK, Pass
<1>2. inst[k] # NoInst => Started(k) \in View
  BY DEF Started, Inv, HostOK, View, Inst
<1>3. Pass("reobserve", job[c]) /\ "reobserve" \in Places
  BY <1>1, InSectionOK
<1>4. restart => Pass("delete", job[c]) /\ "delete" \in Places
  BY <1>1 DEF Pass, Places
<1>5. inst' \in View /\ cache' \in View /\ budget' \in 0..MaxFaults
  <2>1. CASE UNCHANGED <<inst, cache, budget>>
    BY <2>1 DEF Inv, HostOK
  <2>2. CASE Spend("host_error") /\ UNCHANGED hostVars
    BY <2>2, SpendOK DEF hostVars, Inv, HostOK
  <2>3. CASE inst[k] # NoInst /\ HostSets(Started(k)) /\ (UNCHANGED budget \/ Spend("host_error"))
    BY <1>2, <2>3, HostSetsOK, SpendOK DEF Inv, HostOK
  <2> QED BY <2>1, <2>2, <2>3 DEF StartInstance
<1>6. CASE Fails(c)
  BY <1>1, <1>5, <1>6, FailsOK DEF Inv, HostOK
<1>7. CASE Succeeds(c) /\ UNCHANGED disowned
  BY <1>1, <1>5, <1>7, SucceedsOK DEF Inv, HostOK
<1>8. CASE Proceeds(c, "reobserve")
  BY <1>3, <1>5, <1>8, ProceedsOK DEF Inv, HostOK
<1>9. CASE restart /\ Proceeds(c, "delete")
  BY <1>4, <1>5, <1>9, ProceedsOK DEF Inv, HostOK
<1> QED BY <1>6, <1>7, <1>8, <1>9 DEF StartInstance

LEMMA ReobserveOK ==
  ASSUME Inv, NEW c \in Controls, Reobserve(c)
  PROVE  HostOK' /\ ControlOK'
<1> DEFINE i == job[c].intent
           S == Managed(i, job[c].snap[i].alias)
           j == [job[c] EXCEPT !.seen = S, !.ready = Running(S)]
<1>1. /\ InSection(c) /\ job[c] \in Job /\ i \in Intents
      /\ Pass("status", job[c]) /\ "status" \in Places
  BY InSectionOK DEF Reobserve, InSection, Inv, ControlOK
<1>2. S \in SUBSET Slots /\ Running(S) \in SUBSET Slots
  BY <1>1, ManagedOK
<1>3. j \in Job /\ j.todo = job[c].todo /\ j.intent = i /\ j.snap = job[c].snap
  BY <1>1, <1>2 DEF Job
<1>4. Pass("status", j)
  BY <1>1, <1>3 DEF Pass
<1>5. ControlOK'
  BY <1>1, <1>3, <1>4, PassStep DEF Inv, Reobserve
<1> QED BY <1>1, <1>5 DEF Reobserve, Inv, HostOK

LEMMA ReadForDisownOK ==
  ASSUME Inv, NEW c \in Controls, ReadForDisown(c)
  PROVE  HostOK' /\ ControlOK'
<1> DEFINE a == job[c].act
           known == cache[a.slot] # NoInst /\ cache[a.slot].host = a.host
           view == [k \in Slots |->
                      IF cache[k] # NoInst /\ cache[k].host = a.host THEN cache[k] ELSE NoInst]
           j == [job[c] EXCEPT !.view = view]
<1>1. /\ InSection(c) /\ job[c] \in Job /\ Pass("act", job[c])
      /\ a.type = "disown" /\ a.slot \in Slots
  BY DEF ReadForDisown, InSection, Inv, ControlOK, Pass, Known
<1>2. CASE /\ known /\ job' = [job EXCEPT ![c] = j] /\ Goto(c, "disown")
           /\ UNCHANGED <<lock, backoff, settle, inst, cache, disowned, budget>>
  <2>1. view \in View /\ view[a.slot] \in Inst
    BY <1>1, <1>2 DEF Inv, HostOK, View
  <2>2. /\ j \in Job /\ j.todo = job[c].todo /\ j.intent = job[c].intent
        /\ j.snap = job[c].snap /\ j.act = a /\ j.view = view
    BY <1>1, <2>1 DEF Job
  <2>3. Pass("disown", j) /\ "disown" \in Places
    BY <1>1, <2>1, <2>2 DEF Pass, Places
  <2>4. ControlOK'
    BY <1>2, <2>2, <2>3, PassStep DEF Inv
  <2> QED BY <1>2, <2>4 DEF Inv, HostOK
<1>3. CASE Succeeds(c) /\ UNCHANGED <<disowned, inst, cache, budget>>
  BY <1>1, <1>3, SucceedsOK DEF Inv, HostOK
<1> QED BY <1>2, <1>3 DEF ReadForDisown

LEMMA WriteDisownOK ==
  ASSUME Inv, NEW c \in Controls, WriteDisown(c)
  PROVE  HostOK' /\ ControlOK'
<1> DEFINE a == job[c].act
           v == job[c].view
           bare == [v[a.slot] EXCEPT !.owner = "none"]
<1>1. job[c] \in Job /\ Pass("disown", job[c])
  BY DEF WriteDisown, Inv, ControlOK
<1>2. v \in View /\ v[a.slot] \in Inst
  BY <1>1 DEF Job, Pass
<1>3. bare \in Inst
  BY <1>2 DEF Inst
<1>4. cache' \in View
  BY <1>2, <1>3 DEF WriteDisown, Inv, HostOK, View
<1>5. Pass("tombstone", job[c]) /\ "tombstone" \in Places
  BY <1>1 DEF Pass, Places
<1> QED BY <1>4, <1>5, ProceedsOK DEF WriteDisown, Inv, HostOK

LEMMA TombstoneOK ==
  ASSUME Inv, NEW c \in Controls, Tombstone(c)
  PROVE  HostOK' /\ ControlOK'
<1>1. InSection(c) /\ job[c].act.slot \in Slots
  BY DEF Tombstone, InSection, Inv, ControlOK, Pass, Known
<1>2. disowned' \subseteq Slots /\ budget' \in 0..MaxFaults
  <2>1. CASE disowned' = disowned \union {job[c].act.slot} /\ UNCHANGED budget
    BY <1>1, <2>1 DEF Inv, HostOK
  <2>2. CASE Spend("host_error") /\ UNCHANGED disowned
    BY <2>2, SpendOK DEF Inv, HostOK
  <2> QED BY <2>1, <2>2 DEF Tombstone
<1> QED BY <1>1, <1>2, SucceedsOK DEF Tombstone, Inv, HostOK

LEMMA ActionTimeoutOK ==
  ASSUME Inv, NEW c \in Controls, ActionTimeout(c)
  PROVE  HostOK' /\ ControlOK'
<1>1. InSection(c)
  BY DEF ActionTimeout, InSection
<1> QED BY <1>1, FailsOK, SpendOK DEF ActionTimeout, Inv, HostOK, hostVars

(* Steps that only move a pass on, or end it. *)
LEMMA MovesOK ==
  ASSUME Inv, NEW c \in Controls, ReadRow(c) \/ CommitStatus(c) \/ PassFails(c)
  PROVE  HostOK' /\ ControlOK'
<1>1. InSection(c) /\ UNCHANGED <<lock, job, backoff, settle, inst, cache, disowned>>
  BY DEF ReadRow, CommitStatus, PassFails, InSection
<1>2. budget' \in 0..MaxFaults
  BY SpendOK DEF ReadRow, CommitStatus, PassFails, Inv, HostOK
<1>3. Goto(c, "commit") \/ Goto(c, "unlock")
  BY DEF ReadRow, CommitStatus, PassFails
<1>4. ControlOK'
  BY <1>1, <1>3, InSectionOK, PassMoves DEF Inv
<1> QED BY <1>1, <1>2, <1>4 DEF Inv, HostOK

LEMMA UnlockOK ==
  ASSUME Inv, NEW c \in Controls, Unlock(c)
  PROVE  HostOK' /\ ControlOK'
<1>1. InSection(c)
  BY DEF Unlock, InSection
<1>2. job[c].intent \in Intents
  BY <1>1, InSectionOK
<1>3. job[c].todo \ {job[c].intent} = job[c].todo \/ job[c].intent \in job[c].todo
  OBVIOUS
<1>4. HostOK'
  BY DEF Unlock, Inv, HostOK
<1> QED BY <1>2, <1>4, PassDone, PassStep DEF Unlock, Inv

(* Time, hosts and API requests move no pass. *)
LEMMA OutsideOK ==
  ASSUME Inv, UNCHANGED <<pc, job>>
  PROVE  ControlOK'
BY DEF Inv, ControlOK

LEMMA TimersOK ==
  ASSUME Inv, NEW c \in Controls, NEW i \in Intents,
         ExpireLock(i) \/ EndBackoff(c, i) \/ EndSettle(c, i)
  PROVE  HostOK' /\ ControlOK'
<1>1. UNCHANGED <<pc, job, inst, cache, disowned, budget>>
  BY DEF ExpireLock, EndBackoff, EndSettle
<1>2. lock' \subseteq lock /\ backoff' \subseteq backoff /\ settle' \subseteq settle
  BY DEF ExpireLock, EndBackoff, EndSettle
<1> QED BY <1>1, <1>2, OutsideOK DEF Inv, HostOK

LEMMA ForgetOK ==
  ASSUME Inv, NEW c \in Controls, Forget(c), Spend("crash"), lock' \subseteq lock
  PROVE  HostOK' /\ ControlOK'
<1>1. Pass("idle", NoJob) /\ "idle" \in Places
  BY DEF Pass, Places, NoJob
<1>2. ControlOK'
  BY <1>1, NoJobOK, PassStep DEF Inv, Forget
<1>3. backoff' \subseteq backoff /\ settle' \subseteq settle /\ UNCHANGED <<inst, cache, disowned>>
  BY DEF Forget
<1>4. budget' \in 0..MaxFaults
  BY SpendOK DEF Inv
<1> QED BY <1>2, <1>3, <1>4 DEF Inv, HostOK

LEMMA CrashOK ==
  ASSUME Inv, NEW c \in Controls, Crash(c) \/ ShutDown(c)
  PROVE  HostOK' /\ ControlOK'
<1>1. Forget(c) /\ Spend("crash") /\ lock' \subseteq lock
  BY DEF Crash, ShutDown
<1> QED BY <1>1, ForgetOK

LEMMA PushOK ==
  ASSUME Inv, NEW h \in Hosts, Push(h)
  PROVE  HostOK' /\ ControlOK'
<1>1. cache' \in View
  BY DEF Push, Inv, HostOK, View
<1>2. UNCHANGED <<lock, pc, job, backoff, settle, inst, disowned, budget>>
  BY DEF Push
<1> QED BY <1>1, <1>2, OutsideOK DEF Inv, HostOK

LEMMA InstanceOK ==
  ASSUME Inv, NEW k \in Slots, Boot(k) \/ Break(k)
  PROVE  HostOK' /\ ControlOK'
<1>1. NoInst.state \notin {"starting", "running"}
  BY DEF NoInst
<1>2. inst[k] # NoInst
  BY <1>1 DEF Boot, Break
<1>3. PICK state \in {"running", "failed"} : HostSets([inst EXCEPT ![k].state = state])
  BY DEF Boot, Break
<1>4. inst' \in View /\ cache' \in View
  BY <1>2, <1>3, NewState, HostSetsOK DEF Inv
<1>5. UNCHANGED <<lock, pc, job, backoff, settle, disowned>>
  BY DEF Boot, Break
<1>6. budget' \in 0..MaxFaults
  BY SpendOK DEF Boot, Break, Inv, HostOK
<1> QED BY <1>4, <1>5, <1>6, OutsideOK DEF Inv, HostOK

LEMMA RequestsOK ==
  ASSUME Inv, NEW u, Request(u) \/ Reply(u)
  PROVE  HostOK' /\ ControlOK'
<1>1. UNCHANGED <<lock, pc, job, backoff, settle, inst, cache, disowned, budget>>
  BY DEF Request, Reply
<1> QED BY <1>1, OutsideOK DEF Inv, HostOK

--------------------------------------------------------------------------------
(* Every step of the system is a step of the store, or leaves it alone. *)

LEMMA NextPhaseOK ==
  ASSUME NEW row \in Row, NEW seen, NEW ready
  PROVE  NextPhase(row, seen, ready) \in Phases
BY DEF NextPhase, Phases, Row

LEMMA CloseIsStoreStep ==
  ASSUME Inv, NEW c \in Controls, Close(c), rows' = rows
  PROVE  [StoreNext]_storeVars
<1>1. c \in Clients
  BY ReconcilerAssumption
<1>2. CASE txn[c] = NoTxn
  BY <1>1, <1>2 DEF Close, Inv, StoreInv, StoreTypeOK, storeVars
<1>3. CASE txn[c] # NoTxn
  BY <1>1, <1>3 DEF Rollback, StoreNext
<1> QED BY <1>2, <1>3

LEMMA StepIsStoreStep ==
  ASSUME Inv, NEW c \in Controls, Step(c)
  PROVE  [StoreNext]_storeVars
<1>1. c \in Clients
  BY ReconcilerAssumption
<1>2. CASE ReadRow(c)
  <2>1. job[c].intent \in Intents /\ job[c].snap[job[c].intent] \in Row
    BY <1>2 DEF ReadRow, Inv, ControlOK, Pass
  <2>2. NextPhase(job[c].snap[job[c].intent], job[c].seen, Cardinality(job[c].ready)) \in Phases
    BY <2>1, NextPhaseOK
  <2> QED BY <1>1, <1>2, <2>1, <2>2 DEF ReadRow, StoreNext, storeVars
<1>3. CASE CommitStatus(c)
  BY <1>1, <1>3 DEF CommitStatus, StoreNext
<1>4. CASE ~ReadRow(c) /\ ~CommitStatus(c)
  <2>1. UNCHANGED storeVars
    BY <1>4 DEF Step, storeVars, ListIntents, TryLock, Enter, Observe, StopInstance,
         DeleteInstance, CreateInstance, StartInstance, Reobserve, ReadForDisown, WriteDisown,
         Tombstone, Unlock, Fails, Succeeds, Proceeds
  <2> QED BY <2>1
<1> QED BY <1>2, <1>3, <1>4

LEMMA NextIsStoreStep ==
  ASSUME Inv, [Next]_vars
  PROVE  [StoreNext]_storeVars
<1>1. ASSUME NEW c \in Controls, ActionTimeout(c)
      PROVE  UNCHANGED storeVars
  BY <1>1 DEF ActionTimeout, Fails, storeVars
<1>2. ASSUME NEW c \in Controls, PassFails(c) \/ Crash(c) \/ ShutDown(c)
      PROVE  [StoreNext]_storeVars
  BY <1>2, CloseIsStoreStep DEF PassFails, Crash, ShutDown, Forget
<1>3. ASSUME NEW c \in Controls, NEW i \in Intents,
             EndBackoff(c, i) \/ EndSettle(c, i) \/ ExpireLock(i)
      PROVE  UNCHANGED storeVars
  BY <1>3 DEF EndBackoff, EndSettle, ExpireLock, storeVars
<1>4. ASSUME NEW i \in Intents, ExpireLock(i)
      PROVE  UNCHANGED storeVars
  BY <1>4 DEF ExpireLock, storeVars
<1>5. ASSUME NEW h \in Hosts, Push(h)
      PROVE  UNCHANGED storeVars
  BY <1>5 DEF Push, storeVars
<1>6. ASSUME NEW k \in Slots, Boot(k) \/ Break(k)
      PROVE  UNCHANGED storeVars
  BY <1>6 DEF Boot, Break, storeVars
<1>7. ASSUME NEW u \in Users, Request(u) \/ Reply(u)
      PROVE  StoreNext
  BY <1>7 DEF Users, Request, Reply, StoreNext
<1>8. CASE UNCHANGED vars
  BY <1>8 DEF vars, storeVars
<1> QED BY <1>1, <1>2, <1>3, <1>4, <1>5, <1>6, <1>7, <1>8, StepIsStoreStep DEF Next

LEMMA StepInv ==
  ASSUME Inv, NEW c \in Controls, Step(c)
  PROVE  HostOK' /\ ControlOK'
BY ListIntentsOK, TryLockOK, EnterOK, ObserveOK, StopInstanceOK, DeleteInstanceOK,
   CreateInstanceOK, StartInstanceOK, ReobserveOK, ReadForDisownOK, WriteDisownOK,
   TombstoneOK, MovesOK, UnlockOK DEF Step

LEMMA NextInv == Inv /\ [Next]_vars => Inv'
<1> SUFFICES ASSUME Inv, [Next]_vars
             PROVE  Inv'
  OBVIOUS
<1>1. StoreInv'
  BY NextIsStoreStep, StoreStepInv DEF Inv
<1>2. ASSUME NEW c \in Controls,
             Step(c) \/ ActionTimeout(c) \/ PassFails(c) \/ Crash(c) \/ ShutDown(c)
      PROVE  HostOK' /\ ControlOK'
  BY <1>2, StepInv, ActionTimeoutOK, MovesOK, CrashOK
<1>3. ASSUME NEW c \in Controls, NEW i \in Intents, EndBackoff(c, i) \/ EndSettle(c, i)
      PROVE  HostOK' /\ ControlOK'
  BY <1>3, TimersOK
<1>4. ASSUME NEW i \in Intents, ExpireLock(i)
      PROVE  HostOK' /\ ControlOK'
  <2>1. UNCHANGED <<pc, job, backoff, settle, inst, cache, disowned, budget>> /\ lock' \subseteq lock
    BY <1>4 DEF ExpireLock
  <2> QED BY <2>1, OutsideOK DEF Inv, HostOK
<1>5. CASE UNCHANGED vars
  <2>1. UNCHANGED <<lock, pc, job, backoff, settle, inst, cache, disowned, budget>>
    BY <1>5 DEF vars
  <2> QED BY <1>1, <2>1, OutsideOK DEF Inv, HostOK
<1> QED BY <1>1, <1>2, <1>3, <1>4, <1>5, PushOK, InstanceOK, RequestsOK DEF Next, Inv

(* What every step of the system relies on: the table's invariant, and that *)
(* a pass acts only on an intent, a row and an instance that it has read.   *)
THEOREM Invariant == Spec => []Inv
<1> QED BY InitInv, NextInv, PTL DEF Spec

(* The reconciler's state keeps its types: no step reads the host, the row  *)
(* or the slot of an action that names none.                                *)
THEOREM TypeCorrect == Spec => []TypeOK
<1>1. Inv => TypeOK
  BY DEF Inv, StoreInv, HostOK, ControlOK, TypeOK
<1> QED BY <1>1, Invariant, PTL

(* The loop and the API handlers together use the intent table as its own   *)
(* module says, so that what is proved of the store holds of the system.    *)
THEOREM ImplementsStore == Spec => StoreSpec
<1>1. Init => StoreInit
  BY DEF Init
<1>2. Inv /\ [Next]_vars => [StoreNext]_storeVars
  BY NextIsStoreStep
<1> QED BY <1>1, <1>2, Invariant, PTL DEF Spec, StoreSpec

(* Whatever passes crash, fail or overlap, an intent the reconciler retired *)
(* stays out of every later pass.                                           *)
THEOREM RetiredForGood == Spec => RetiredIsFinal
BY ImplementsStore, RetiredStaysRetired, PTL

(* With serialized transactions, no pass takes back a DELETE.               *)
THEOREM DeletingForGood ==
  ASSUME ~Overlap
  PROVE  Spec => DeletingIsTerminal
BY ImplementsStore, DeletingStaysDeleting, PTL

--------------------------------------------------------------------------------
(* The per-intent lock. *)

(* Inside its section a replica's key exists. *)
Held == \A c \in Controls : InSection(c) => job[c].intent \in lock

(* A step that takes no lock and drops none. *)
Keeps ==
  /\ lock' = lock
  /\ \A c \in Controls : InSection(c)' => InSection(c) /\ job'[c].intent = job[c].intent

LEMMA KeepsLock ==
  ASSUME Held, LockExclusive, Keeps
  PROVE  Held' /\ LockExclusive'
BY DEF Held, LockExclusive, Keeps

LEMMA StepKeeps ==
  ASSUME Inv, NEW c \in Controls,
         Step(c) \/ ActionTimeout(c) \/ PassFails(c),
         ~Unlock(c), \A i \in Intents : ~TryLock(c, i)
  PROVE  Keeps
<1>1. CASE ListIntents(c)
  <2>1. lock' = lock /\ pc' \in [Controls -> {"idle", "choose"} \union Places]
    BY <1>1 DEF ListIntents, Goto, Inv, ControlOK, Places
  <2>2. pc'[c] \in {"idle", "choose"} /\ \A d \in Controls \ {c} : pc'[d] = pc[d] /\ job'[d] = job[d]
    BY <1>1 DEF ListIntents, Goto, Inv, ControlOK
  <2> QED BY <2>1, <2>2 DEF Keeps, InSection
<1>2. CASE ~ListIntents(c)
  <2>1. lock' = lock /\ InSection(c)
    BY <1>2 DEF Step, ActionTimeout, PassFails, Enter, Observe, StopInstance, DeleteInstance,
         CreateInstance, StartInstance, Reobserve, ReadForDisown, WriteDisown, Tombstone,
         ReadRow, CommitStatus, Fails, Succeeds, Proceeds, InSection
  <2>2. \E p : pc' = [pc EXCEPT ![c] = p]
    BY <1>2 DEF Step, ActionTimeout, PassFails, Enter, Observe, StopInstance, DeleteInstance,
         CreateInstance, StartInstance, Reobserve, ReadForDisown, WriteDisown, Tombstone,
         ReadRow, CommitStatus, Fails, Succeeds, Proceeds, Goto
  <2>3. job[c] \in Job
    BY DEF Inv, ControlOK
  <2>4. job' = job \/ \E j : job' = [job EXCEPT ![c] = j] /\ j.intent = job[c].intent
    <3>1. CASE Enter(c)
      <4> DEFINE deleting == Active(job[c].intent) /\ rows[job[c].intent].phase = "deleting"
                 settling == <<c, job[c].intent>> \in settle
                 j == [job[c] EXCEPT !.refresh = settling /\ ~deleting,
                         !.snap[job[c].intent] = IF settling /\ deleting
                                                 THEN rows[job[c].intent] ELSE @]
      <4>1. j.intent = job[c].intent
        BY <2>3 DEF Job
      <4>2. job' = job \/ job' = [job EXCEPT ![c] = j]
        BY <3>1 DEF Enter
      <4> QED BY <4>1, <4>2
    <3>2. CASE Observe(c)
      BY <2>3, <3>2 DEF Observe, Job
    <3>3. CASE CreateInstance(c)
      BY <2>3, <3>3 DEF CreateInstance, Fails, Job
    <3>4. CASE Reobserve(c)
      <4> DEFINE S == Managed(job[c].intent, job[c].snap[job[c].intent].alias)
                 j == [job[c] EXCEPT !.seen = S, !.ready = Running(S)]
      <4>1. j.intent = job[c].intent
        BY <2>3 DEF Job
      <4>2. job' = [job EXCEPT ![c] = j]
        BY <3>4 DEF Reobserve
      <4> QED BY <4>1, <4>2
    <3>5. CASE ReadForDisown(c)
      BY <2>3, <3>5 DEF ReadForDisown, Succeeds, Job
    <3> QED BY <1>2, <3>1, <3>2, <3>3, <3>4, <3>5 DEF Step, ActionTimeout, PassFails,
              StopInstance, DeleteInstance, StartInstance, WriteDisown, Tombstone, ReadRow,
              CommitStatus, Fails, Succeeds, Proceeds
  <2>5. \A d \in Controls \ {c} : pc'[d] = pc[d] /\ job'[d] = job[d]
    BY <2>2, <2>4 DEF Inv, ControlOK
  <2>6. job'[c].intent = job[c].intent
    BY <2>4 DEF Inv, ControlOK
  <2> QED BY <2>1, <2>5, <2>6 DEF Keeps, InSection
<1> QED BY <1>1, <1>2

LEMMA TryLockKeepsOut ==
  ASSUME Inv, Held, LockExclusive, NEW c \in Controls, NEW i \in Intents, TryLock(c, i)
  PROVE  Held' /\ LockExclusive'
<1>1. job[c] \in Job /\ \A d \in Controls \ {c} : pc'[d] = pc[d] /\ job'[d] = job[d]
  BY DEF TryLock, Goto, Inv, ControlOK
<1>2. CASE i \in lock
  <2>1. pc'[c] \in {"idle", "choose"} /\ lock' = lock
    BY <1>2 DEF TryLock, Goto, After, Inv, ControlOK
  <2>2. Keeps
    BY <1>1, <2>1 DEF Keeps, InSection
  <2> QED BY <2>2, KeepsLock
<1>3. CASE i \notin lock
  <2>1. lock' = lock \union {i} /\ job'[c].intent = i
    BY <1>1, <1>3 DEF TryLock, Job, Inv, ControlOK
  <2>2. \A d \in Controls \ {c} : InSection(d)' => InSection(d) /\ job'[d].intent \in lock
    BY <1>1 DEF Held, InSection
  <2> QED BY <1>1, <1>3, <2>1, <2>2 DEF Held, LockExclusive
<1> QED BY <1>2, <1>3

(* Unlocking, a shutdown and a crash free what only this replica had. *)
LEMMA LeaveKeepsOut ==
  ASSUME Inv, Held, LockExclusive, NEW c \in Controls,
         Unlock(c) \/ Crash(c) \/ ShutDown(c)
  PROVE  Held' /\ LockExclusive'
<1>1. pc'[c] \in {"idle", "choose"} /\ \A d \in Controls \ {c} : pc'[d] = pc[d] /\ job'[d] = job[d]
  BY DEF Unlock, Crash, ShutDown, Forget, Goto, After, Inv, ControlOK
<1>2. lock' = lock \/ (InSection(c) /\ lock' = lock \ {job[c].intent})
  BY DEF Unlock, Crash, ShutDown, InSection
<1> QED BY <1>1, <1>2 DEF Held, LockExclusive, InSection

LEMMA NextKeepsOut ==
  ASSUME "lock_expiry" \notin Faults, Inv, Held, LockExclusive, [Next]_vars
  PROVE  Held' /\ LockExclusive'
<1>1. ASSUME NEW c \in Controls,
             Step(c) \/ ActionTimeout(c) \/ PassFails(c) \/ Crash(c) \/ ShutDown(c)
      PROVE  Held' /\ LockExclusive'
  BY <1>1, StepKeeps, KeepsLock, TryLockKeepsOut, LeaveKeepsOut
<1>2. ASSUME NEW i \in Intents, ExpireLock(i)
      PROVE  Held' /\ LockExclusive'
  BY <1>2 DEF ExpireLock, Held, LockExclusive, InSection
<1>3. CASE UNCHANGED <<lock, pc, job>>
  BY <1>3, KeepsLock DEF Keeps, InSection
<1>4. CASE UNCHANGED vars
  BY <1>3, <1>4 DEF vars
<1> QED BY <1>1, <1>2, <1>3, <1>4 DEF Next, EndBackoff, EndSettle, Push, Boot, Break, Request, Reply

(* While the key outlives the pass that set it, SET NX and the DELETE of    *)
(* the finally clause keep two replicas from reconciling one intent at      *)
(* once, whatever crashes.                                                  *)
THEOREM LockSafe ==
  ASSUME "lock_expiry" \notin Faults
  PROVE  Spec => []LockExclusive
<1>1. Init => Held /\ LockExclusive
  BY DEF Init, Held, LockExclusive, InSection
<1>2. Inv /\ Held /\ LockExclusive /\ [Next]_vars => (Held /\ LockExclusive)'
  BY NextKeepsOut
<1> QED BY <1>1, <1>2, Invariant, PTL DEF Spec

--------------------------------------------------------------------------------
(* Nothing is left of an intent that is retired, when one replica runs and  *)
(* pushes land with the change.  With two, the one whose list is older may  *)
(* create an instance of an intent the other has just retired.              *)

OneReplica == \A c, d \in Controls : c = d

(* v shows instance k: as it is, or without its owner if that was orphaned. *)
Shows(v, k) ==
  /\ v.host = inst[k].host /\ v.alias = inst[k].alias
  /\ v.owner # inst[k].owner => v.owner = "none" /\ rows[inst[k].owner].orphan

(* With prompt pushes the cache shows the instances that exist, and each of *)
(* them serves an intent that was submitted.                                *)
Mirrored ==
  \A k \in Slots :
    /\ inst[k] = NoInst <=> cache[k] = NoInst
    /\ inst[k] # NoInst =>
         /\ inst[k].owner \in Intents /\ rows[inst[k].owner] # NoRow
         /\ inst[k].alias = rows[inst[k].owner].alias
         /\ Shows(cache[k], k)

(* Only passes retire a row; what they and the users read was not retired. *)
Sessions ==
  /\ \A u \in Users : txn[u].op # "status"
  /\ \A c \in Clients : txn[c].op = "create" =>
       txn[c].row.phase = "pending" /\ ~txn[c].row.retired
  /\ ~Overlap => \A c \in Clients : txn[c].op \in {"delete", "status"} => ~txn[c].row.retired

(* The row of i has moved on from old, but no further than to a DELETE. *)
Follows(old, i) ==
  /\ rows[i] # NoRow /\ ~rows[i].retired
  /\ rows[i].alias = old.alias
  /\ old.orphan => rows[i].orphan
  /\ ~Overlap /\ old.phase = "deleting" => rows[i].phase = "deleting"

Gone(i) == Owned(i) = {} \/ rows[i].orphan

(* A pass that found nothing of a deleted intent. *)
FoundNone(j) == j.snap[j.intent].phase = "deleting" /\ j.seen = {}

Acting == {"act", "start", "delete", "disown", "tombstone", "reobserve"}

(* What the pass of c knows when it stands at place p with the locals j. *)
Aware(c, p, j) ==
  /\ \A i \in j.todo : Follows(j.snap[i], i)
  /\ p \notin {"idle", "choose"} => j.intent \notin j.todo
  /\ p \notin {"idle", "choose", "unlock"} => Follows(j.snap[j.intent], j.intent)
  /\ p \in Acting => ~FoundNone(j)
  /\ p \in {"act", "disown", "tombstone"} /\ j.act.type = "disown" =>
       /\ j.snap[j.intent].orphan
       /\ inst[j.act.slot] # NoInst => inst[j.act.slot].owner = j.intent
  /\ p = "disown" => \A k \in Slots :
       /\ j.view[k] # NoInst <=> inst[k] # NoInst /\ inst[k].host = j.act.host
       /\ j.view[k] # NoInst => Shows(j.view[k], k)
  /\ p \in {"status", "commit"} /\ FoundNone(j) => Gone(j.intent)
  /\ p = "commit" =>
       /\ txn[c].op = "status" /\ txn[c].intent = j.intent
       /\ txn[c].phase = "deleted" => FoundNone(j)
       /\ txn[c].phase = "deleting" => j.snap[j.intent].phase = "deleting"

LeakInv ==
  /\ Mirrored /\ Sessions /\ NoLeak
  /\ \A c \in Controls : Aware(c, pc[c], job[c])

(* What no step undoes, and what only the retiring step does. *)
RowGrows(i) ==
  rows[i] # NoRow =>
    /\ rows'[i] # NoRow /\ rows'[i].alias = rows[i].alias
    /\ rows[i].orphan => rows'[i].orphan

RowLives(i) ==
  rows[i] # NoRow =>
    /\ rows'[i].retired => rows[i].retired
    /\ ~Overlap /\ rows[i].phase = "deleting" => rows'[i].phase = "deleting"

(* No instance appears, and none changes its identity. *)
NoneNew ==
  \A k \in Slots : inst'[k] # NoInst =>
    /\ inst[k] # NoInst
    /\ inst'[k].host = inst[k].host /\ inst'[k].alias = inst[k].alias
    /\ inst'[k].owner = inst[k].owner

LEMMA OwnedShrinks ==
  ASSUME NoneNew, \A k \in disowned : k \in disowned' \/ inst[k] = NoInst, NEW i \in Intents
  PROVE  Owned(i)' \subseteq Owned(i)
BY DEF NoneNew, Owned

LEMMA LeakKept ==
  ASSUME NoLeak, NoneNew, \A k \in disowned : k \in disowned' \/ inst[k] = NoInst,
         \A i \in Intents : RowGrows(i) /\ RowLives(i), Mirrored
  PROVE  NoLeak'
<1> SUFFICES ASSUME NEW i \in Intents, NEW k \in Owned(i)'
             PROVE  ~(rows'[i].retired /\ ~rows'[i].orphan)
  BY DEF NoLeak
<1>1. k \in Owned(i)
  BY OwnedShrinks
<1>2. rows[i] # NoRow
  BY <1>1 DEF Owned, Mirrored
<1> QED BY <1>1, <1>2 DEF NoLeak, RowGrows, RowLives

LEMMA MirrorKept ==
  ASSUME Mirrored, UNCHANGED hostVars, \A i \in Intents : RowGrows(i)
  PROVE  Mirrored' /\ NoneNew
BY DEF Mirrored, hostVars, RowGrows, Shows, NoneNew

(* A push that lands with the change. *)
LEMMA HostChanges ==
  ASSUME PushDelay = "none", HostOK, Mirrored, NEW k \in Slots, NEW v, v # NoInst => v \in Inst,
         HostSets([inst EXCEPT ![k] = v]), UNCHANGED rows,
         v # NoInst /\ inst[k] # NoInst =>
           v.host = inst[k].host /\ v.alias = inst[k].alias /\ v.owner = inst[k].owner,
         v # NoInst /\ inst[k] = NoInst =>
           v.owner \in Intents /\ rows[v.owner] # NoRow /\ v.alias = rows[v.owner].alias
  PROVE  /\ Mirrored'
         /\ inst'[k] = v /\ \A l \in Slots \ {k} : inst'[l] = inst[l]
<1>1. inst'[k] = v /\ \A l \in Slots \ {k} : inst'[l] = inst[l]
  BY DEF HostSets, HostOK, View
<1>2. \A l \in Slots : cache'[l] = IF inst'[l] # inst[l] THEN inst'[l] ELSE cache[l]
  BY DEF HostSets
<1>3. \A l \in Slots \ {k} : cache'[l] = cache[l]
  BY <1>1, <1>2
<1>4. cache'[k] = v \/ (v = inst[k] /\ cache'[k] = cache[k])
  BY <1>1, <1>2
<1>5. ASSUME NEW l \in Slots \ {k}
      PROVE  /\ inst'[l] = NoInst <=> cache'[l] = NoInst
             /\ inst'[l] # NoInst =>
                  /\ inst'[l].owner \in Intents /\ rows'[inst'[l].owner] # NoRow
                  /\ inst'[l].alias = rows'[inst'[l].owner].alias
                  /\ Shows(cache[l], l)'
  BY <1>1, <1>3, <1>5 DEF Mirrored, Shows
<1>6. /\ inst'[k] = NoInst <=> cache'[k] = NoInst
      /\ inst'[k] # NoInst =>
           /\ inst'[k].owner \in Intents /\ rows'[inst'[k].owner] # NoRow
           /\ inst'[k].alias = rows'[inst'[k].owner].alias
           /\ Shows(cache[k], k)'
  BY <1>1, <1>4 DEF Mirrored, Shows
<1>7. Mirrored'
  BY <1>5, <1>6 DEF Mirrored
<1> QED BY <1>1, <1>7

LEMMA StateChanges ==
  ASSUME PushDelay = "none", HostOK, Mirrored, NEW k \in Slots, inst[k] # NoInst,
         NEW state \in {"stopped", "starting", "running", "failed"},
         HostSets([inst EXCEPT ![k].state = state]), UNCHANGED rows
  PROVE  Mirrored' /\ NoneNew /\ \A l \in Slots : inst[l] # NoInst => inst'[l] # NoInst
<1> DEFINE v == [inst[k] EXCEPT !.state = state]
<1>1. inst[k] \in Inst
  BY DEF HostOK, View
<1>2. v \in Inst /\ v # NoInst /\ v.host = inst[k].host /\ v.alias = inst[k].alias /\ v.owner = inst[k].owner
  BY <1>1, NoInstIsNotInst DEF Inst
<1>3. HostSets([inst EXCEPT ![k] = v])
  OBVIOUS
<1>4. Mirrored' /\ inst'[k] = v /\ \A l \in Slots \ {k} : inst'[l] = inst[l]
  BY <1>2, <1>3, HostChanges
<1> QED BY <1>2, <1>4 DEF NoneNew

LEMMA InstanceGoes ==
  ASSUME PushDelay = "none", HostOK, Mirrored, NEW k \in Slots,
         HostSets([inst EXCEPT ![k] = NoInst]), UNCHANGED rows
  PROVE  Mirrored' /\ NoneNew
<1>1. Mirrored' /\ inst'[k] = NoInst /\ \A l \in Slots \ {k} : inst'[l] = inst[l]
  BY HostChanges
<1> QED BY <1>1 DEF NoneNew

LEMMA OnlyOne ==
  ASSUME OneReplica, NEW c \in Controls, Aware(c, pc[c], job[c])'
  PROVE  (\A d \in Controls : Aware(d, pc[d], job[d]))'
BY DEF OneReplica

(* What the cache does not show, no host holds. *)
LEMMA NothingMissed ==
  ASSUME Mirrored, NEW i \in Intents, Managed(i, rows[i].alias) = {}
  PROVE  Gone(i)
<1> SUFFICES ASSUME NEW k \in Owned(i), ~rows[i].orphan PROVE FALSE
  BY DEF Gone
<1>1. k \in Slots \ disowned /\ inst[k] # NoInst /\ inst[k].owner = i
  BY DEF Owned
<1>2. cache[k] # NoInst /\ cache[k].alias = rows[i].alias /\ cache[k].owner = i
  BY <1>1 DEF Mirrored, Shows
<1> QED BY <1>1, <1>2 DEF Managed

(* A step that leaves the table, the instances and the cache alone. *)
Quiet ==
  /\ UNCHANGED <<rows, txn, inst, cache>>
  /\ \A k \in disowned : k \in disowned' \/ inst[k] = NoInst

LEMMA QuietKeeps ==
  ASSUME LeakInv, Quiet
  PROVE  Mirrored' /\ Sessions' /\ NoLeak'
<1>1. Mirrored' /\ Sessions'
  BY DEF LeakInv, Quiet, Mirrored, Shows, Sessions
<1>2. NoLeak'
  BY DEF LeakInv, Quiet, NoLeak, Owned
<1> QED BY <1>1, <1>2

LEMMA PrunedAreGone ==
  ASSUME Mirrored, Inv, disowned' = {k \in disowned : cache[k] # NoInst}
  PROVE  \A k \in disowned : k \in disowned' \/ inst[k] = NoInst
BY DEF Mirrored, Inv, HostOK

LEMMA ListIntentsLeak ==
  ASSUME OneReplica, Inv, LeakInv, NEW c \in Controls, ListIntents(c)
  PROVE  LeakInv'
<1> DEFINE active == {i \in Intents : Active(i)}
           snap == [i \in Intents |-> IF i \in active THEN rows[i] ELSE NoRow]
<1>1. Quiet
  BY DEF ListIntents, Quiet
<1>2. /\ job'[c].todo = active /\ job'[c].snap = snap
      /\ pc'[c] \in {"idle", "choose"}
  BY DEF ListIntents, Goto, Inv, ControlOK, NoJob
<1>3. \A i \in active : rows[i] # NoRow /\ ~rows[i].retired /\ snap[i] = rows[i] /\ rows'[i] = rows[i]
  BY <1>1 DEF Active, Quiet
<1>4. Aware(c, pc[c], job[c])'
  BY <1>2, <1>3 DEF Aware, Follows, Acting
<1> QED BY <1>1, <1>4, QuietKeeps, OnlyOne DEF LeakInv

(* A pass that leaves intent i. *)
LEMMA LeavesIntent ==
  ASSUME OneReplica, Inv, LeakInv, NEW c \in Controls, NEW i \in Intents,
         job' = [job EXCEPT ![c] = Rest(c, i)], pc'[c] \in {"idle", "choose"}, UNCHANGED rows
  PROVE  (\A d \in Controls : Aware(d, pc[d], job[d]))'
<1>1. job'[c].todo = job[c].todo \ {i} /\ job'[c].snap = [job[c].snap EXCEPT ![i] = NoRow]
  BY DEF Rest, NoJob, Inv, ControlOK
<1>2. job[c].todo \subseteq Intents /\ job[c].snap \in [Intents -> Row \union {NoRow}]
  BY DEF Inv, ControlOK, Job
<1>3. \A k \in job[c].todo : Follows(job[c].snap[k], k)
  BY DEF LeakInv, Aware
<1>4. \A k \in job[c].todo \ {i} : job'[c].snap[k] = job[c].snap[k]
  BY <1>1, <1>2
<1>5. \A k \in job'[c].todo : Follows(job[c].snap[k], k)'
  BY <1>1, <1>3, <1>4 DEF Follows
<1>6. Aware(c, pc[c], job[c])'
  BY <1>5 DEF Aware, Acting
<1> QED BY <1>6, OnlyOne

LEMMA TryLockLeak ==
  ASSUME OneReplica, Inv, LeakInv, NEW c \in Controls, NEW i \in Intents, TryLock(c, i)
  PROVE  LeakInv'
<1>1. Quiet
  BY DEF TryLock, Quiet
<1>2. CASE i \in lock
  <2>1. pc'[c] \in {"idle", "choose"} /\ job' = [job EXCEPT ![c] = Rest(c, i)] /\ UNCHANGED rows
    BY <1>2 DEF TryLock, Goto, After, Inv, ControlOK
  <2> QED BY <1>1, <2>1, QuietKeeps, LeavesIntent DEF LeakInv
<1>3. CASE i \notin lock
  <2> DEFINE j == [job[c] EXCEPT !.todo = @ \ {i}, !.intent = i]
  <2>0. job[c] \in Job
    BY DEF Inv, ControlOK
  <2>1. /\ job'[c].todo = job[c].todo \ {i} /\ job'[c].intent = i
        /\ job'[c].snap = job[c].snap /\ pc'[c] = "enter" /\ i \in job[c].todo
    <3>1. j.todo = job[c].todo \ {i} /\ j.intent = i /\ j.snap = job[c].snap
      BY <2>0 DEF Job
    <3>2. job'[c] = j /\ pc'[c] = "enter" /\ i \in job[c].todo
      BY <1>3 DEF TryLock, Goto, Inv, ControlOK
    <3> QED BY <3>1, <3>2
  <2>2. \A k \in job[c].todo : Follows(job[c].snap[k], k)
    BY DEF LeakInv, Aware
  <2>3. Aware(c, pc[c], job[c])'
    BY <1>1, <2>1, <2>2 DEF Aware, Acting, Follows, Quiet
  <2> QED BY <1>1, <2>3, QuietKeeps, OnlyOne DEF LeakInv
<1> QED BY <1>2, <1>3

LEMMA EnterLeak ==
  ASSUME OneReplica, Inv, LeakInv, NEW c \in Controls, Enter(c)
  PROVE  LeakInv'
<1> DEFINE i == job[c].intent
           settling == <<c, i>> \in settle
           deleting == Active(i) /\ rows[i].phase = "deleting"
           row == IF settling /\ deleting THEN rows[i] ELSE job[c].snap[i]
<1>1. Quiet
  BY DEF Enter, Quiet
<1>2. /\ job[c] \in Job /\ i \in Intents /\ i \notin job[c].todo
      /\ \A k \in job[c].todo : Follows(job[c].snap[k], k)
      /\ Follows(job[c].snap[i], i)
  BY DEF Enter, Inv, ControlOK, Pass, LeakInv, Aware
<1>3. CASE Goto(c, "unlock") /\ job' = job
  <2>1. pc'[c] = "unlock" /\ job'[c] = job[c]
    BY <1>3 DEF Goto, Inv, ControlOK
  <2>2. Aware(c, pc[c], job[c])'
    BY <1>1, <1>2, <2>1 DEF Aware, Acting, Follows, Quiet
  <2> QED BY <1>1, <2>2, QuietKeeps, OnlyOne DEF LeakInv
<1>4. CASE /\ Goto(c, "observe")
           /\ job' = [job EXCEPT ![c] = [job[c] EXCEPT
                 !.refresh = settling /\ ~deleting,
                 !.snap[i] = IF settling /\ deleting THEN rows[i] ELSE @]]
  <2>1. /\ job'[c].todo = job[c].todo /\ job'[c].intent = i
        /\ job'[c].snap = [job[c].snap EXCEPT ![i] = row] /\ pc'[c] = "observe"
    BY <1>2, <1>4 DEF Goto, Inv, ControlOK, Job
  <2>2. Follows(row, i)
    BY <1>2 DEF Follows, Active
  <2>3. job'[c].snap[i] = row /\ \A k \in job[c].todo : job'[c].snap[k] = job[c].snap[k]
    BY <1>2, <2>1 DEF Job
  <2>4. \A k \in job[c].todo \union {i} : Follows(job'[c].snap[k], k)
    BY <1>2, <2>2, <2>3
  <2>5. \A k \in job[c].todo \union {i} : Follows(job[c].snap[k], k)'
    BY <1>1, <2>4 DEF Follows, Quiet
  <2>6. Aware(c, pc[c], job[c])'
    BY <1>2, <2>1, <2>5 DEF Aware, Acting
  <2> QED BY <1>1, <2>6, QuietKeeps, OnlyOne DEF LeakInv
<1> QED BY <1>3, <1>4 DEF Enter

(* What an action of _diff says of the row and of what was observed. *)
LEMMA DiffKnows ==
  ASSUME NEW row, NEW S, NEW fit, NEW a \in Diff(row, S, fit)
  PROVE  /\ row.phase = "deleting" => S # {}
         /\ a.type = "disown" => row.orphan /\ a.slot \in S
<1>1. \A T \in SUBSET S : \A b \in Stops(T) : b.type # "disown" /\ T # {}
  BY DEF Stops, Action
<1>2. Broken(S) \in SUBSET S
  BY DEF Broken
<1>3. CASE row.phase = "deleting" /\ row.orphan
  BY <1>3 DEF Diff, Action
<1>4. CASE row.phase = "deleting" /\ ~row.orphan
  BY <1>1, <1>4 DEF Diff
<1>5. CASE row.phase # "deleting"
  <2>1. \/ \E T \in SUBSET S : a \in Stops(T)
        \/ a \in {Action("recreate", k, cache[k].host) : k \in Broken(S)}
        \/ a \in {Action("create", "none", h) : h \in Candidates(row.alias, fit)}
    BY <1>2, <1>5 DEF Diff
  <2>2. a.type # "disown"
    BY <1>1, <2>1 DEF Action
  <2> QED BY <1>5, <2>2
<1> QED BY <1>3, <1>4, <1>5

LEMMA GoneStays ==
  ASSUME Quiet, NEW i \in Intents, Gone(i)
  PROVE  Gone(i)'
BY DEF Quiet, Gone, Owned

LEMMA ObserveLeak ==
  ASSUME OneReplica, Inv, LeakInv, NEW c \in Controls, Observe(c)
  PROVE  LeakInv'
<1>1. Quiet
  BY PrunedAreGone DEF Observe, Quiet, LeakInv
<1>2. PICK i \in Intents : i = job[c].intent
  BY DEF Observe, Inv, ControlOK, Pass
<1> DEFINE row == job[c].snap[i]
           S == Managed(i, row.alias)
           looked == [job[c] EXCEPT !.seen = S, !.ready = Running(S)]
<1>3. /\ job[c] \in Job /\ i \notin job[c].todo
      /\ \A k \in job[c].todo : Follows(job[c].snap[k], k)
      /\ Follows(row, i)
  BY <1>2 DEF Observe, Inv, ControlOK, LeakInv, Aware
<1>4. /\ looked.todo = job[c].todo /\ looked.intent = i /\ looked.snap = job[c].snap
      /\ looked.seen = S
  BY <1>2, <1>3 DEF Job
<1>5. CASE job' = [job EXCEPT ![c] = looked] /\ Goto(c, "status")
  <2>1. job'[c] = looked /\ pc'[c] = "status"
    BY <1>5 DEF Goto, Inv, ControlOK
  <2>2. S = {} => Gone(i)'
    BY <1>1, <1>3, NothingMissed, GoneStays DEF Follows, LeakInv
  <2>3. Aware(c, pc[c], job[c])'
    BY <1>1, <1>3, <1>4, <2>1, <2>2 DEF Aware, Acting, Follows, Quiet, FoundNone
  <2> QED BY <1>1, <2>3, QuietKeeps, OnlyOne DEF LeakInv
<1>6. ASSUME NEW a, a.type = "disown" => row.orphan /\ a.slot \in S,
             row.phase = "deleting" => S # {},
             job' = [job EXCEPT ![c] = [looked EXCEPT !.act = a]], Goto(c, "act")
      PROVE  LeakInv'
  <2> DEFINE j == [looked EXCEPT !.act = a]
  <2>1. /\ j.todo = job[c].todo /\ j.intent = i /\ j.snap = job[c].snap
        /\ j.seen = S /\ j.act = a
    BY <1>2, <1>3 DEF Job
  <2>2. job'[c] = j /\ pc'[c] = "act"
    BY <1>6 DEF Goto, Inv, ControlOK
  <2> HIDE DEF j, looked
  <2>3. a.type = "disown" /\ inst[a.slot] # NoInst => inst[a.slot].owner = i
    <3>1. a.type = "disown" => a.slot \in Slots /\ cache[a.slot] # NoInst /\ cache[a.slot].owner = i
      BY <1>6 DEF Managed
    <3>2. i # "none"
      BY StoreAssumption
    <3> QED BY <3>1, <3>2 DEF LeakInv, Mirrored, Shows
  <2>4. /\ pc'[c] = "act" /\ job'[c].todo = job[c].todo /\ job'[c].intent = i
        /\ job'[c].snap = job[c].snap /\ job'[c].seen = S /\ job'[c].act = a
    BY <2>1, <2>2
  <2>5. a.type = "disown" => row.orphan
    BY <1>6
  <2>6. row.phase = "deleting" => S # {}
    BY <1>6
  <2>7. Aware(c, pc[c], job[c])'
    <3> HIDE DEF S
    <3> QED BY <1>1, <1>3, <2>3, <2>4, <2>5, <2>6 DEF Aware, Acting, Follows, Quiet, FoundNone
  <2> QED BY <1>1, <2>7, QuietKeeps, OnlyOne DEF LeakInv
<1>7. \A fit : \A a \in (IF job[c].refresh THEN {} ELSE Diff(row, S, fit)) :
        /\ row.phase = "deleting" => S # {}
        /\ a.type = "disown" => row.orphan /\ a.slot \in S
  BY DiffKnows
<1> QED BY <1>2, <1>5, <1>6, <1>7 DEF Observe

LEMMA ReobserveLeak ==
  ASSUME OneReplica, Inv, LeakInv, NEW c \in Controls, Reobserve(c)
  PROVE  LeakInv'
<1>1. Quiet
  BY PrunedAreGone DEF Reobserve, Quiet, LeakInv
<1>2. PICK i \in Intents : i = job[c].intent
  BY DEF Reobserve, Inv, ControlOK, Pass
<1> DEFINE S == Managed(i, job[c].snap[i].alias)
           j == [job[c] EXCEPT !.seen = S, !.ready = Running(S)]
<1>3. /\ job[c] \in Job /\ i \notin job[c].todo
      /\ \A k \in job[c].todo : Follows(job[c].snap[k], k)
      /\ Follows(job[c].snap[i], i)
  BY <1>2 DEF Reobserve, Inv, ControlOK, LeakInv, Aware
<1>4. j.todo = job[c].todo /\ j.intent = i /\ j.snap = job[c].snap /\ j.seen = S
  BY <1>2, <1>3 DEF Job
<1>5. job'[c] = j /\ pc'[c] = "status"
  BY <1>2 DEF Reobserve, Goto, Inv, ControlOK
<1>6. S = {} => Gone(i)'
  BY <1>1, <1>3, NothingMissed, GoneStays DEF Follows, LeakInv
<1>7. Aware(c, pc[c], job[c])'
  BY <1>1, <1>3, <1>4, <1>5, <1>6 DEF Aware, Acting, Follows, Quiet, FoundNone
<1> QED BY <1>1, <1>7, QuietKeeps, OnlyOne DEF LeakInv

(* An action that goes on, or ends, whatever it did to the hosts. *)
LEMMA ActionMovesOn ==
  ASSUME OneReplica, Inv, LeakInv, NEW c \in Controls, UNCHANGED rows, pc[c] \in Acting,
         pc'[c] \in {"start", "delete", "reobserve", "status"},
         UNCHANGED <<job[c].todo, job[c].intent, job[c].snap, job[c].seen>>
  PROVE  (\A d \in Controls : Aware(d, pc[d], job[d]))'
<1>1. Aware(c, pc[c], job[c])
  BY DEF LeakInv
<1>2. Aware(c, pc[c], job[c])'
  BY <1>1 DEF Aware, Acting, Follows, FoundNone
<1> QED BY <1>2, OnlyOne

LEMMA LivesOn ==
  ASSUME LeakInv, UNCHANGED <<rows, txn>>, Mirrored', NoneNew,
         \A k \in disowned : k \in disowned' \/ inst[k] = NoInst
  PROVE  Sessions' /\ NoLeak'
<1>1. \A i \in Intents : RowGrows(i) /\ RowLives(i)
  BY DEF RowGrows, RowLives
<1>2. NoLeak'
  BY <1>1, LeakKept DEF LeakInv
<1> QED BY <1>2 DEF LeakInv, Sessions

LEMMA ActionLeak ==
  ASSUME OneReplica, Inv, LeakInv, NEW c \in Controls, pc[c] \in Acting,
         pc'[c] \in {"start", "delete", "reobserve", "status"},
         UNCHANGED <<rows, txn, job>>, disowned \subseteq disowned',
         (Mirrored' /\ NoneNew) \/ UNCHANGED hostVars
  PROVE  LeakInv'
<1>1. \A i \in Intents : RowGrows(i)
  BY DEF RowGrows
<1>2. Mirrored' /\ NoneNew
  BY <1>1, MirrorKept DEF LeakInv
<1>3. (\A d \in Controls : Aware(d, pc[d], job[d]))'
  BY ActionMovesOn
<1> QED BY <1>2, <1>3, LivesOn DEF LeakInv

LEMMA EndsAction ==
  ASSUME Inv, NEW c \in Controls,
         Fails(c) \/ Succeeds(c) \/ Proceeds(c, "delete") \/ Proceeds(c, "reobserve")
  PROVE  /\ UNCHANGED <<rows, txn, job>>
         /\ pc'[c] \in {"start", "delete", "reobserve", "status"}
BY DEF Fails, Succeeds, Proceeds, Goto, Inv, ControlOK

LEMMA StopInstanceLeak ==
  ASSUME PushDelay = "none", OneReplica, Inv, LeakInv, NEW c \in Controls, StopInstance(c)
  PROVE  LeakInv'
<1>1. pc[c] \in Acting
  BY DEF StopInstance, Acting
<1>2. PICK k \in Slots : k = job[c].act.slot
  BY DEF StopInstance, Inv, ControlOK, Pass, Known
<1>3. UNCHANGED <<rows, txn, job>> /\ pc'[c] \in {"start", "delete", "reobserve", "status"}
  BY EndsAction DEF StopInstance
<1>4. disowned' = disowned
  BY DEF StopInstance, Fails, Proceeds
<1>5. UNCHANGED hostVars \/ (inst[k] # NoInst /\ HostSets([inst EXCEPT ![k].state = "stopped"]))
  BY <1>2 DEF StopInstance, hostVars
<1>6. (Mirrored' /\ NoneNew) \/ UNCHANGED hostVars
  BY <1>3, <1>5, StateChanges DEF Inv, LeakInv
<1> QED BY <1>1, <1>3, <1>4, <1>6, ActionLeak

LEMMA DeleteInstanceLeak ==
  ASSUME PushDelay = "none", OneReplica, Inv, LeakInv, NEW c \in Controls, DeleteInstance(c)
  PROVE  LeakInv'
<1>1. pc[c] \in Acting
  BY DEF DeleteInstance, Acting
<1>2. PICK k \in Slots : k = job[c].act.slot
  BY DEF DeleteInstance, Inv, ControlOK, Pass, Known
<1>3. UNCHANGED <<rows, txn, job>> /\ pc'[c] \in {"start", "delete", "reobserve", "status"}
  BY EndsAction DEF DeleteInstance
<1>4. disowned' = disowned
  BY DEF DeleteInstance, Fails
<1>5. (Mirrored' /\ NoneNew) \/ UNCHANGED hostVars
  BY <1>2, <1>3, InstanceGoes DEF DeleteInstance, Inv, LeakInv
<1> QED BY <1>1, <1>3, <1>4, <1>5, ActionLeak

LEMMA StartInstanceLeak ==
  ASSUME PushDelay = "none", OneReplica, Inv, LeakInv, NEW c \in Controls, StartInstance(c)
  PROVE  LeakInv'
<1>1. pc[c] \in Acting
  BY DEF StartInstance, Acting
<1>2. PICK k \in Slots : k = job[c].act.slot
  BY DEF StartInstance, Inv, ControlOK, Pass, Known
<1>3. UNCHANGED <<rows, txn, job>> /\ pc'[c] \in {"start", "delete", "reobserve", "status"}
  BY EndsAction DEF StartInstance
<1>4. disowned' = disowned
  BY DEF StartInstance, Fails, Proceeds
<1>5. UNCHANGED hostVars \/ (inst[k] # NoInst /\ HostSets(Started(k)))
  BY <1>2 DEF StartInstance, hostVars
<1>6. ASSUME inst[k] # NoInst, HostSets(Started(k)) PROVE Mirrored' /\ NoneNew
  <2> DEFINE now == IF inst[k].state \in {"stopped", "failed"} THEN "starting" ELSE inst[k].state
  <2>1. inst[k] \in Inst
    BY <1>6 DEF Inv, HostOK, View
  <2>2. now \in {"stopped", "starting", "running", "failed"}
    BY <2>1 DEF Inst
  <2>3. PICK state \in {"stopped", "starting", "running", "failed"} : state = now
    BY <2>2
  <2>4. HostSets([inst EXCEPT ![k].state = state])
    BY <1>6, <2>3 DEF Started
  <2> QED BY <1>3, <1>6, <2>4, StateChanges DEF Inv, LeakInv
<1> QED BY <1>1, <1>3, <1>4, <1>5, <1>6, ActionLeak

LEMMA TombstoneLeak ==
  ASSUME OneReplica, Inv, LeakInv, NEW c \in Controls, Tombstone(c) \/ ActionTimeout(c)
  PROVE  LeakInv'
<1>1. pc[c] \in Acting
  BY DEF Tombstone, ActionTimeout, Acting
<1>2. UNCHANGED <<rows, txn, job>> /\ pc'[c] \in {"start", "delete", "reobserve", "status"}
  BY EndsAction DEF Tombstone, ActionTimeout
<1>3. disowned \subseteq disowned' /\ UNCHANGED hostVars
  BY DEF Tombstone, ActionTimeout, Fails, hostVars
<1> QED BY <1>1, <1>2, <1>3, ActionLeak

LEMMA CreateInstanceLeak ==
  ASSUME PushDelay = "none", OneReplica, Inv, LeakInv, NEW c \in Controls, CreateInstance(c)
  PROVE  LeakInv'
<1>1. pc[c] \in Acting /\ job[c] \in Job /\ UNCHANGED <<rows, txn, disowned>>
  BY DEF CreateInstance, Acting, Inv, ControlOK, Fails
<1>2. PICK i \in Intents : i = job[c].intent
  BY DEF CreateInstance, Inv, ControlOK, Pass
<1>3. Follows(job[c].snap[i], i) /\ Pass("act", job[c])
  BY <1>2 DEF CreateInstance, LeakInv, Aware, Inv, ControlOK
<1> DEFINE new == [host |-> job[c].act.host, alias |-> job[c].snap[i].alias,
                   owner |-> i, state |-> "stopped"]
<1>4. new \in Inst /\ new # NoInst
  <2>1. new \in Inst
    BY <1>2, <1>3 DEF Pass, Known, Inst, Row, CreateInstance
  <2> QED BY <2>1, NoInstIsNotInst
<1>5. /\ pc'[c] \in {"start", "delete", "reobserve", "status"}
      /\ UNCHANGED <<job[c].todo, job[c].intent, job[c].snap, job[c].seen>>
  <2>1. CASE Fails(c)
    BY <2>1, EndsAction
  <2>2. ASSUME NEW k, job' = [job EXCEPT ![c] = [job[c] EXCEPT !.act.slot = k]], Goto(c, "start")
        PROVE  /\ pc'[c] = "start"
               /\ UNCHANGED <<job[c].todo, job[c].intent, job[c].snap, job[c].seen>>
    <3> DEFINE j == [job[c] EXCEPT !.act.slot = k]
    <3>1. /\ j.todo = job[c].todo /\ j.intent = job[c].intent
          /\ j.snap = job[c].snap /\ j.seen = job[c].seen
      BY <1>1 DEF Job
    <3>2. job'[c] = j /\ pc'[c] = "start"
      BY <2>2 DEF Goto, Inv, ControlOK
    <3> QED BY <3>1, <3>2
  <2> QED BY <2>1, <2>2 DEF CreateInstance
<1>6. (\A d \in Controls : Aware(d, pc[d], job[d]))'
  BY <1>1, <1>5, ActionMovesOn
<1>7. CASE UNCHANGED hostVars
  <2>1. Quiet
    BY <1>1, <1>7 DEF Quiet, hostVars
  <2> QED BY <1>6, <2>1, QuietKeeps DEF LeakInv
<1>8. ASSUME NEW k \in Slots, Free(k), HostSets([inst EXCEPT ![k] = new])
      PROVE  LeakInv'
  <2>1. inst[k] = NoInst
    BY <1>8 DEF Free
  <2>2. Mirrored' /\ inst'[k] = new /\ \A l \in Slots \ {k} : inst'[l] = inst[l]
    BY <1>1, <1>3, <1>4, <1>8, <2>1, HostChanges DEF Inv, LeakInv, Follows
  <2>3. \A j \in Intents \ {i} : Owned(j)' \subseteq Owned(j)
    BY <1>1, <2>2 DEF Owned
  <2>4. ~rows'[i].retired
    BY <1>1, <1>3 DEF Follows
  <2>5. NoLeak'
    BY <1>1, <2>3, <2>4 DEF NoLeak, LeakInv
  <2>6. Sessions'
    BY <1>1 DEF LeakInv, Sessions
  <2> QED BY <1>6, <2>2, <2>5, <2>6 DEF LeakInv
<1> QED BY <1>2, <1>7, <1>8 DEF CreateInstance, hostVars

LEMMA ReadForDisownLeak ==
  ASSUME OneReplica, Inv, LeakInv, NEW c \in Controls, ReadForDisown(c)
  PROVE  LeakInv'
<1> DEFINE a == job[c].act
           view == [k \in Slots |->
                      IF cache[k] # NoInst /\ cache[k].host = a.host THEN cache[k] ELSE NoInst]
           j == [job[c] EXCEPT !.view = view]
<1>1. Quiet /\ pc[c] = "act" /\ pc[c] \in Acting /\ a.type = "disown" /\ job[c] \in Job
  BY DEF ReadForDisown, Quiet, Succeeds, Acting, Inv, ControlOK
<1>2. CASE Succeeds(c)
  <2>1. (\A d \in Controls : Aware(d, pc[d], job[d]))'
    BY <1>1, <1>2, EndsAction, ActionMovesOn
  <2> QED BY <1>1, <2>1, QuietKeeps DEF LeakInv
<1>3. CASE job' = [job EXCEPT ![c] = j] /\ Goto(c, "disown")
  <2>1. /\ j.todo = job[c].todo /\ j.intent = job[c].intent /\ j.snap = job[c].snap
        /\ j.seen = job[c].seen /\ j.act = a /\ j.view = view
    BY <1>1 DEF Job
  <2>2. job'[c] = j /\ pc'[c] = "disown"
    BY <1>3 DEF Goto, Inv, ControlOK
  <2>3. \A k \in Slots :
          /\ view[k] # NoInst <=> inst[k] # NoInst /\ inst[k].host = a.host
          /\ view[k] # NoInst => Shows(view[k], k)
    BY DEF LeakInv, Mirrored, Shows
  <2>4. Aware(c, "act", job[c])
    BY <1>1 DEF LeakInv
  <2>5. /\ job'[c].todo = job[c].todo /\ job'[c].intent = job[c].intent
        /\ job'[c].snap = job[c].snap /\ job'[c].seen = job[c].seen
        /\ job'[c].act = a /\ job'[c].view = view
    BY <2>1, <2>2
  <2> HIDE DEF view, j
  <2>6. Aware(c, pc[c], job[c])'
    BY <1>1, <2>2, <2>3, <2>4, <2>5 DEF Aware, Acting, Follows, Quiet, FoundNone, Shows
  <2> QED BY <1>1, <2>6, QuietKeeps, OnlyOne DEF LeakInv
<1> QED BY <1>2, <1>3 DEF ReadForDisown

LEMMA WriteDisownLeak ==
  ASSUME OneReplica, Inv, LeakInv, NEW c \in Controls, WriteDisown(c)
  PROVE  LeakInv'
<1> DEFINE a == job[c].act
           v == job[c].view
           bare == [v[a.slot] EXCEPT !.owner = "none"]
<1>1. /\ pc[c] = "disown" /\ pc'[c] = "tombstone" /\ UNCHANGED <<rows, txn, job, inst, disowned>>
      /\ Aware(c, "disown", job[c]) /\ Pass("disown", job[c]) /\ job[c] \in Job
  BY DEF WriteDisown, Proceeds, Goto, Inv, ControlOK, LeakInv
<1>2. a.slot \in Slots /\ v[a.slot] \in Inst /\ v[a.slot] # NoInst
  BY <1>1, NoInstIsNotInst DEF Pass, Known
<1>3. /\ bare \in Inst /\ bare # NoInst /\ bare.owner = "none"
      /\ bare.host = v[a.slot].host /\ bare.alias = v[a.slot].alias
  <2>1. /\ bare \in Inst /\ bare.owner = "none"
        /\ bare.host = v[a.slot].host /\ bare.alias = v[a.slot].alias
    BY <1>2 DEF Inst
  <2> QED BY <2>1, NoInstIsNotInst
<1>4. \A k \in Slots :
        /\ v[k] # NoInst <=> inst[k] # NoInst /\ inst[k].host = a.host
        /\ v[k] # NoInst => Shows(v[k], k)
  BY <1>1 DEF Aware
<1>5. rows[inst[a.slot].owner].orphan
  <2>1. inst[a.slot] # NoInst
    BY <1>2, <1>4
  <2>2. inst[a.slot].owner = job[c].intent /\ job[c].snap[job[c].intent].orphan
    BY <1>1, <2>1 DEF Aware, Pass
  <2> QED BY <1>1, <2>2 DEF Aware, Follows
<1>6. Shows(bare, a.slot)
  BY <1>2, <1>3, <1>4, <1>5 DEF Shows
<1>7. ASSUME NEW k \in Slots
      PROVE  /\ inst[k] = NoInst <=> cache'[k] = NoInst
             /\ inst[k] # NoInst => Shows(cache'[k], k)
  <2>1. CASE k = a.slot
    <3>1. cache'[k] = bare
      BY <2>1 DEF WriteDisown
    <3> QED BY <1>2, <1>3, <1>4, <1>6, <2>1, <3>1
  <2>2. CASE k # a.slot
    <3>1. cache'[k] = IF v[k] # NoInst \/ (cache[k] # NoInst /\ cache[k].host = a.host)
                      THEN v[k] ELSE cache[k]
      BY <2>2 DEF WriteDisown
    <3>2. /\ inst[k] = NoInst <=> cache[k] = NoInst
          /\ inst[k] # NoInst => Shows(cache[k], k)
      BY DEF LeakInv, Mirrored
    <3> HIDE DEF v, a
    <3> QED BY <1>4, <3>1, <3>2 DEF Shows
  <2> QED BY <2>1, <2>2
<1>8. Mirrored'
  BY <1>1, <1>7 DEF Mirrored, LeakInv, Shows
<1>9. Aware(c, pc[c], job[c])'
  BY <1>1 DEF Aware, Acting, Follows, FoundNone
<1>10. NoneNew
  BY <1>1 DEF NoneNew
<1> QED BY <1>1, <1>8, <1>9, <1>10, LivesOn, OnlyOne DEF LeakInv

LEMMA ReadRowLeak ==
  ASSUME OneReplica, Inv, LeakInv, NEW c \in Controls, ReadRow(c)
  PROVE  LeakInv'
<1> DEFINE row == job[c].snap[job[c].intent]
           phase == NextPhase(row, job[c].seen, Cardinality(job[c].ready))
<1>1. /\ UNCHANGED <<rows, job, inst, cache, disowned>> /\ pc[c] = "status" /\ c \in Clients
      /\ Aware(c, "status", job[c])
  BY ReconcilerAssumption DEF ReadRow, ReadForStatus, LeakInv
<1>2. Mirrored' /\ NoLeak'
  BY <1>1 DEF LeakInv, Mirrored, Shows, NoLeak, Owned
<1>3. CASE pc'[c] = "unlock" /\ UNCHANGED txn
  <2>1. Aware(c, pc[c], job[c])'
    BY <1>1, <1>3 DEF Aware, Acting, Follows
  <2> QED BY <1>1, <1>2, <1>3, <2>1, OnlyOne DEF LeakInv, Sessions
<1>4. CASE ReadForStatus(c, job[c].intent, phase) /\ pc'[c] = "commit"
  <2> DEFINE t == [op |-> "status", intent |-> job[c].intent, row |-> rows[job[c].intent],
                   phase |-> phase, orphan |-> FALSE]
  <2>1. txn'[c] = t /\ ~rows[job[c].intent].retired /\ \A d \in Clients \ {c} : txn'[d] = txn[d]
    BY <1>1, <1>4 DEF ReadForStatus, Open, Active, Inv, StoreInv, StoreTypeOK
  <2>2. /\ txn'[c].op = "status" /\ txn'[c].intent = job[c].intent /\ txn'[c].phase = phase
        /\ ~txn'[c].row.retired
    BY <2>1
  <2>3. /\ phase = "deleted" => FoundNone(job[c])
        /\ phase = "deleting" => row.phase = "deleting"
    BY DEF NextPhase, FoundNone
  <2>4. Sessions'
    BY <2>1, <2>2 DEF Sessions, LeakInv, Users
  <2> HIDE DEF phase
  <2>5. Aware(c, pc[c], job[c])'
    BY <1>1, <1>4, <2>2, <2>3 DEF Aware, Acting, Follows, FoundNone, Gone, Owned
  <2> QED BY <1>2, <2>4, <2>5, OnlyOne DEF LeakInv
<1> QED BY <1>1, <1>3, <1>4 DEF ReadRow, Goto, Inv, ControlOK

(* The commit of a phase: only what was found gone is retired. *)
LEMMA CommitLeak ==
  ASSUME OneReplica, Inv, LeakInv, NEW c \in Controls, CommitStatus(c)
  PROVE  LeakInv'
<1>1. PICK i \in Intents : i = job[c].intent
  BY DEF CommitStatus, Inv, ControlOK, Pass
<1> DEFINE old == rows[i]
           phase == Guarded(txn[c].row.phase, txn[c].phase)
           new == [old EXCEPT !.phase = IF phase = txn[c].row.phase THEN @ ELSE phase,
                              !.retired = @ \/ phase = "deleted"]
<1>2. /\ UNCHANGED <<job, inst, cache, disowned>> /\ pc'[c] = "unlock" /\ c \in Clients
      /\ Aware(c, "commit", job[c]) /\ WriteStatus(c)
  BY ReconcilerAssumption DEF CommitStatus, LeakInv, Goto, Inv, ControlOK
<1>3. txn[c].intent = i /\ i \notin job[c].todo
  BY <1>1, <1>2 DEF Aware
<1>4. rows' = [rows EXCEPT ![i] = new] /\ old \in Row /\ new \in Row
  BY <1>2, <1>3, WriteStatusRow DEF Inv
<1>5. /\ new.alias = old.alias /\ new.orphan = old.orphan
      /\ new.retired => old.retired \/ phase = "deleted"
  BY <1>4 DEF Row
<1>6. rows'[i] = new /\ new # NoRow /\ old # NoRow /\ \A j \in Intents \ {i} : rows'[j] = rows[j]
  BY <1>4, EmptyIsNotARecord DEF Inv, StoreInv, StoreTypeOK
<1>7. phase = "deleted" => Gone(i)
  BY <1>1, <1>2 DEF Guarded, Aware
<1> HIDE DEF new, phase
<1>8. NoLeak'
  <2>1. \A j \in Intents : Owned(j)' = Owned(j)
    BY <1>2 DEF Owned
  <2>2. new.retired /\ ~new.orphan => Owned(i) = {}
    BY <1>5, <1>6, <1>7 DEF NoLeak, LeakInv, Gone
  <2> QED BY <1>6, <2>1, <2>2 DEF NoLeak, LeakInv
<1>9. Mirrored'
  BY <1>2, <1>5, <1>6 DEF Mirrored, LeakInv, Shows
<1>10. Sessions'
  BY <1>2 DEF Sessions, LeakInv, WriteStatus, Close, Inv, StoreInv, StoreTypeOK, NoTxn
<1>11. \A j \in job[c].todo : Follows(job[c].snap[j], j) /\ rows'[j] = rows[j]
  BY <1>2, <1>3, <1>6 DEF Aware, Inv, ControlOK, Job
<1>12. Aware(c, pc[c], job[c])'
  BY <1>1, <1>2, <1>3, <1>11 DEF Aware, Acting, Follows
<1> QED BY <1>8, <1>9, <1>10, <1>12, OnlyOne DEF LeakInv

LEMMA UnlockLeak ==
  ASSUME OneReplica, Inv, LeakInv, NEW c \in Controls, Unlock(c)
  PROVE  LeakInv'
<1>1. PICK i \in Intents : i = job[c].intent
  BY DEF Unlock, Inv, ControlOK, Pass
<1>2. Quiet /\ UNCHANGED rows
  BY DEF Unlock, Quiet
<1>3. job' = [job EXCEPT ![c] = Rest(c, i)] /\ pc'[c] \in {"idle", "choose"}
  BY <1>1 DEF Unlock, Goto, After, Inv, ControlOK
<1> QED BY <1>2, <1>3, QuietKeeps, LeavesIntent DEF LeakInv

(* A pass that dies, alone or with its replica, only drops its session. *)
LEMMA AbandonLeak ==
  ASSUME OneReplica, Inv, LeakInv, NEW c \in Controls, PassFails(c) \/ Crash(c) \/ ShutDown(c)
  PROVE  LeakInv'
<1>1. UNCHANGED <<rows, inst, cache, disowned>> /\ Close(c)
  BY DEF PassFails, Crash, ShutDown, Forget
<1>2. Mirrored' /\ NoLeak'
  BY <1>1 DEF LeakInv, Mirrored, Shows, NoLeak, Owned
<1>3. Sessions'
  BY <1>1 DEF Sessions, LeakInv, Close, Inv, StoreInv, StoreTypeOK, NoTxn
<1>4. CASE PassFails(c)
  <2>1. pc'[c] = "unlock" /\ job' = job /\ InSection(c)
    BY <1>4 DEF PassFails, Goto, InSection, Inv, ControlOK
  <2>2. Aware(c, pc[c], job[c])'
    BY <1>1, <2>1 DEF Aware, LeakInv, Acting, Follows, InSection
  <2> QED BY <1>2, <1>3, <2>2, OnlyOne DEF LeakInv
<1>5. CASE Crash(c) \/ ShutDown(c)
  <2>1. pc'[c] = "idle" /\ job'[c] = NoJob
    BY <1>5 DEF Crash, ShutDown, Forget, Goto, Inv, ControlOK
  <2>2. Aware(c, pc[c], job[c])'
    BY <2>1 DEF Aware, Acting, NoJob
  <2> QED BY <1>2, <1>3, <2>2, OnlyOne DEF LeakInv
<1> QED BY <1>4, <1>5

(* A step of a host, a push, a timer or a user. *)
LEMMA OutsideAware ==
  ASSUME Inv, LeakInv, UNCHANGED <<pc, job, disowned>>, NoneNew,
         \A k \in Slots : inst[k] # NoInst => inst'[k] # NoInst,
         \A i \in Intents : RowGrows(i) /\ RowLives(i),
         \A c \in Controls : txn'[c] = txn[c]
  PROVE  (\A d \in Controls : Aware(d, pc[d], job[d]))'
<1> SUFFICES ASSUME NEW c \in Controls PROVE Aware(c, pc[c], job[c])'
  OBVIOUS
<1>1. PICK j : j = job[c]
  OBVIOUS
<1>2. PICK p : p = pc[c]
  OBVIOUS
<1>3. Aware(c, p, j) /\ Pass(p, j) /\ j \in Job
  BY <1>1, <1>2 DEF LeakInv, Inv, ControlOK
<1>4. \A old, i : i \in Intents /\ Follows(old, i) => Follows(old, i)'
  BY DEF Follows, RowGrows, RowLives
<1>5. \A i \in Intents : rows[i] # NoRow /\ Gone(i) => Gone(i)'
  BY OwnedShrinks DEF Gone, RowGrows
<1>6. \A i \in j.todo : Follows(j.snap[i], i)'
  BY <1>3, <1>4 DEF Aware, Job
<1>7. p \notin {"idle", "choose", "unlock"} => Follows(j.snap[j.intent], j.intent)'
  BY <1>3, <1>4 DEF Aware, Pass
<1>8. p \in {"status", "commit"} /\ FoundNone(j) => Gone(j.intent)'
  BY <1>3, <1>5 DEF Aware, Pass, Follows
<1>9. p \in {"act", "disown", "tombstone"} /\ j.act.type = "disown" /\ inst'[j.act.slot] # NoInst
        => inst'[j.act.slot].owner = j.intent
  BY <1>3 DEF Aware, Pass, Known, NoneNew
<1>10. p = "disown" => \A k \in Slots :
         /\ j.view[k] # NoInst <=> inst'[k] # NoInst /\ inst'[k].host = j.act.host
         /\ j.view[k] # NoInst => Shows(j.view[k], k)'
  <2> SUFFICES ASSUME p = "disown", NEW k \in Slots
               PROVE  /\ j.view[k] # NoInst <=> inst'[k] # NoInst /\ inst'[k].host = j.act.host
                      /\ j.view[k] # NoInst => Shows(j.view[k], k)'
    OBVIOUS
  <2>1. /\ j.view[k] # NoInst <=> inst[k] # NoInst /\ inst[k].host = j.act.host
        /\ j.view[k] # NoInst => Shows(j.view[k], k)
    BY <1>3 DEF Aware
  <2>2. inst[k] # NoInst => inst[k].owner \in Intents /\ rows[inst[k].owner] # NoRow
    BY DEF LeakInv, Mirrored
  <2> QED BY <2>1, <2>2 DEF Shows, NoneNew, RowGrows
<1> QED BY <1>1, <1>2, <1>3, <1>6, <1>7, <1>8, <1>9, <1>10 DEF Aware, FoundNone

(* An instance boots or breaks. *)
LEMMA InstanceLeak ==
  ASSUME PushDelay = "none", Inv, LeakInv, NEW k \in Slots, Boot(k) \/ Break(k)
  PROVE  LeakInv'
<1>1. inst[k] # NoInst
  BY DEF Boot, Break, NoInst
<1>2. PICK state \in {"running", "failed"} : HostSets([inst EXCEPT ![k].state = state])
  BY DEF Boot, Break
<1>3. UNCHANGED <<rows, txn, pc, job, disowned>>
  BY DEF Boot, Break
<1>4. Mirrored' /\ NoneNew /\ \A l \in Slots : inst[l] # NoInst => inst'[l] # NoInst
  BY <1>1, <1>2, <1>3, StateChanges DEF Inv, LeakInv
<1>5. \A i \in Intents : RowGrows(i) /\ RowLives(i)
  BY <1>3 DEF RowGrows, RowLives
<1>6. (\A d \in Controls : Aware(d, pc[d], job[d]))'
  BY <1>3, <1>4, <1>5, OutsideAware
<1> QED BY <1>3, <1>4, <1>6, LivesOn DEF LeakInv

LEMMA PushLeak ==
  ASSUME Inv, LeakInv, UNCHANGED <<rows, txn, pc, job, inst, disowned>>,
         UNCHANGED cache \/ \E h \in Hosts : Push(h)
  PROVE  LeakInv'
<1>1. Mirrored'
  <2>1. \A k \in Slots : cache'[k] \in {inst[k], cache[k]}
    BY DEF Push, Inv, HostOK, View
  <2> QED BY <2>1 DEF LeakInv, Mirrored, Shows
<1>2. \A i \in Intents : RowGrows(i) /\ RowLives(i)
  BY DEF RowGrows, RowLives
<1>3. NoneNew
  BY DEF NoneNew
<1>4. (\A d \in Controls : Aware(d, pc[d], job[d]))'
  BY <1>2, <1>3, OutsideAware
<1> QED BY <1>1, <1>3, <1>4, LivesOn DEF LeakInv

(* What a user's request does to the table. *)
LEMMA ReplyRows ==
  ASSUME Inv, LeakInv, NEW u \in Users, Reply(u)
  PROVE  (\A i \in Intents : RowGrows(i) /\ RowLives(i)) /\ Close(u)
<1>1. u \in Clients /\ txn[u] \in Txn \union {NoTxn} /\ rows \in [Intents -> Row \union {NoRow}]
  BY DEF Users, Inv, StoreInv, StoreTypeOK
<1>2. CASE InsertIntent(u)
  <2>1. rows[txn[u].intent] = NoRow /\ rows' = [rows EXCEPT ![txn[u].intent] = txn[u].row]
    BY <1>1, <1>2 DEF InsertIntent, Inv, StoreInv, Grounded, Pending, NoTxn
  <2> QED BY <1>1, <1>2, <2>1 DEF RowGrows, RowLives, InsertIntent
<1>3. CASE SoftDelete(u)
  <2>1. PICK i \in Intents : i = txn[u].intent
    BY <1>1, <1>3 DEF SoftDelete, Txn, NoTxn
  <2> DEFINE new == [rows[i] EXCEPT !.phase = IF txn[u].row.phase = "deleting" THEN @ ELSE "deleting",
                                    !.orphan = @ \/ txn[u].orphan]
  <2>2. rows' = [rows EXCEPT ![i] = new] /\ rows[i] \in Row /\ new \in Row
    BY <1>1, <1>3, <2>1, SoftDeleteRow DEF Inv
  <2>3. /\ new.alias = rows[i].alias /\ new.retired = rows[i].retired
        /\ rows[i].orphan => new.orphan
        /\ rows[i].phase = "deleting" => new.phase = "deleting"
    BY <2>2 DEF Row
  <2>4. rows'[i] = new /\ new # NoRow /\ \A j \in Intents \ {i} : rows'[j] = rows[j]
    BY <1>1, <2>2, EmptyIsNotARecord
  <2> HIDE DEF new
  <2>5. \A j \in Intents : RowGrows(j) /\ RowLives(j)
    BY <2>3, <2>4 DEF RowGrows, RowLives
  <2> QED BY <1>3, <2>5 DEF SoftDelete
<1> QED BY <1>2, <1>3 DEF Reply

LEMMA RequestTxn ==
  ASSUME Inv, LeakInv, NEW u \in Users, Request(u) \/ Close(u)
  PROVE  Sessions' /\ \A c \in Controls : txn'[c] = txn[c]
<1>1. u \in Clients \ Controls /\ Controls \subseteq Clients
      /\ txn \in [Clients -> Txn \union {NoTxn}] /\ rows \in [Intents -> Row \union {NoRow}]
  BY ReconcilerAssumption DEF Users, Inv, StoreInv, StoreTypeOK
<1>2. CASE Close(u)
  BY <1>1, <1>2 DEF Close, LeakInv, Sessions, NoTxn
<1>3. ASSUME NEW i \in Intents, NEW a, NEW n, CheckAlias(u, i, a, n)
      PROVE  Sessions' /\ \A c \in Controls : txn'[c] = txn[c]
  BY <1>1, <1>3 DEF CheckAlias, Open, NewRow, LeakInv, Sessions
<1>4. ASSUME NEW i \in Intents, NEW orphan, ReadForDelete(u, i, orphan)
      PROVE  Sessions' /\ \A c \in Controls : txn'[c] = txn[c]
  BY <1>1, <1>4 DEF ReadForDelete, Open, Active, LeakInv, Sessions
<1> QED BY <1>2, <1>3, <1>4 DEF Request

LEMMA RequestLeak ==
  ASSUME Inv, LeakInv, NEW u \in Users, Request(u) \/ Reply(u)
  PROVE  LeakInv'
<1>1. UNCHANGED <<pc, job, inst, cache, disowned>> /\ UNCHANGED hostVars
  BY DEF Request, Reply, hostVars
<1>2. \A i \in Intents : RowGrows(i) /\ RowLives(i)
  <2>1. CASE Request(u)
    BY <2>1 DEF Request, CheckAlias, ReadForDelete, RowGrows, RowLives
  <2> QED BY <2>1, ReplyRows
<1>3. Sessions' /\ \A c \in Controls : txn'[c] = txn[c]
  BY ReplyRows, RequestTxn
<1>4. Mirrored' /\ NoneNew
  BY <1>1, <1>2, MirrorKept DEF LeakInv
<1>5. NoLeak'
  BY <1>1, <1>2, <1>4, LeakKept DEF LeakInv
<1>6. (\A d \in Controls : Aware(d, pc[d], job[d]))'
  BY <1>1, <1>2, <1>3, <1>4, OutsideAware
<1> QED BY <1>3, <1>4, <1>5, <1>6 DEF LeakInv

LEMMA InitLeak == Init => LeakInv
BY DEF Init, StoreInit, LeakInv, Mirrored, Sessions, NoLeak, Aware, NoView, NoTxn, NoJob, NoInst,
       Acting, Users

LEMMA NextLeak ==
  ASSUME PushDelay = "none", OneReplica, Inv, LeakInv, [Next]_vars
  PROVE  LeakInv'
<1>1. ASSUME NEW c \in Controls,
             Step(c) \/ ActionTimeout(c) \/ PassFails(c) \/ Crash(c) \/ ShutDown(c)
      PROVE  LeakInv'
  BY <1>1, ListIntentsLeak, TryLockLeak, EnterLeak, ObserveLeak, StopInstanceLeak,
     DeleteInstanceLeak, CreateInstanceLeak, StartInstanceLeak, ReobserveLeak, ReadForDisownLeak,
     WriteDisownLeak, TombstoneLeak, ReadRowLeak, CommitLeak, UnlockLeak, AbandonLeak DEF Step
<1>2. CASE UNCHANGED <<rows, txn, pc, job, inst, cache, disowned>>
  BY <1>2, PushLeak
<1>3. ASSUME NEW h \in Hosts, Push(h) PROVE LeakInv'
  BY <1>3, PushLeak DEF Push
<1> QED BY <1>1, <1>2, <1>3, InstanceLeak, RequestLeak
        DEF Next, vars, EndBackoff, EndSettle, ExpireLock

(* With one replica and pushes that land at once, no retired intent leaves  *)
(* an instance behind, whatever crashes, fails, times out or is deleted in  *)
(* the middle of a pass, and however the transactions overlap.              *)
THEOREM NothingLeaks ==
  ASSUME OneReplica, PushDelay = "none"
  PROVE  Spec => []NoLeak
<1>1. Inv /\ LeakInv /\ [Next]_vars => LeakInv'
  BY NextLeak
<1>2. LeakInv => NoLeak
  BY DEF LeakInv
<1> QED BY <1>1, <1>2, InitLeak, Invariant, PTL DEF Spec

--------------------------------------------------------------------------------
(* The refinement of IntentLifecycle. *)

Served(i) == Owned(i) # {} /\ ~rows[i].orphan

(* The moves of the abstract intent i, when nothing happens to the others. *)
LEMMA LifeMoves ==
  ASSUME NEW i \in Intents,
         \A j \in Intents \ {i} : Life(j)' = Life(j) /\ (Served(j)' <=> Served(j)),
         \/ Life(i)' = Life(i) /\ ((Served(i)' <=> Served(i)) \/ Life(i) \in {"live", "deleting"})
         \/ Life(i) = "absent" /\ Life(i)' = "live" /\ (Served(i)' <=> Served(i))
         \/ Life(i) = "live" /\ Life(i)' = "deleting" /\ (Served(i)' => Served(i))
         \/ Life(i) = "deleting" /\ Life(i)' = "gone" /\ ~Served(i) /\ ~Served(i)'
  PROVE  [Lifecycle!Next]_(Lifecycle!vars)
<1> DEFINE life == [j \in Intents |-> Life(j)]
           served == {j \in Intents : Owned(j) # {} /\ ~rows[j].orphan}
<1>1. served = {j \in Intents : Served(j)} /\ served' = {j \in Intents : Served(j)'}
  BY DEF Served
<1>2. life' = [life EXCEPT ![i] = Life(i)'] /\ life[i] = Life(i)
  OBVIOUS
<1>3. \/ served' = served
      \/ ~Served(i) /\ Served(i)' /\ served' = served \union {i}
      \/ Served(i) /\ ~Served(i)' /\ served' = served \ {i}
  BY <1>1
<1>4. (Served(i)' <=> Served(i)) => served' = served
  BY <1>1
<1>5. i \in served <=> Served(i)
  BY <1>1
<1> HIDE DEF life, served
<1>6. CASE Life(i)' = Life(i) /\ (Served(i)' <=> Served(i))
  <2>1. life' = life /\ served' = served
    BY <1>2, <1>4, <1>6 DEF life
  <2> QED BY <2>1 DEF Lifecycle!vars, life, served
<1>7. CASE Life(i)' = Life(i) /\ Life(i) \in {"live", "deleting"}
  <2>1. life' = life /\ served' \in {served \union {i}, served \ {i}}
    BY <1>2, <1>3, <1>5, <1>7 DEF life
  <2>2. Lifecycle!Serve(i)
    BY <1>2, <1>7, <2>1 DEF Lifecycle!Serve, life, served
  <2> QED BY <2>2 DEF Lifecycle!Next
<1>8. CASE Life(i) = "absent" /\ Life(i)' = "live" /\ (Served(i)' <=> Served(i))
  <2>1. Lifecycle!Submit(i)
    BY <1>2, <1>4, <1>8 DEF Lifecycle!Submit, Lifecycle!Moves, life, served
  <2> QED BY <2>1 DEF Lifecycle!Next
<1>9. CASE Life(i) = "live" /\ Life(i)' = "deleting" /\ (Served(i)' => Served(i))
  <2>1. served' \in {served, served \ {i}}
    BY <1>3, <1>9
  <2>2. Lifecycle!Delete(i)
    BY <1>2, <1>9, <2>1 DEF Lifecycle!Delete, Lifecycle!Moves, life, served
  <2> QED BY <2>2 DEF Lifecycle!Next
<1>10. CASE Life(i) = "deleting" /\ Life(i)' = "gone" /\ ~Served(i) /\ ~Served(i)'
  <2>1. Lifecycle!Finish(i)
    BY <1>2, <1>4, <1>5, <1>10 DEF Lifecycle!Finish, Lifecycle!Moves, life, served
  <2> QED BY <2>1 DEF Lifecycle!Next
<1> QED BY <1>6, <1>7, <1>8, <1>9, <1>10

(* Instances of one submitted intent come or go. *)
LEMMA InstancesMove ==
  ASSUME LeakInv, LeakInv', UNCHANGED rows, NEW i \in Intents, rows[i] # NoRow,
         \A j \in Intents \ {i} : Owned(j)' = Owned(j)
  PROVE  [Lifecycle!Next]_(Lifecycle!vars)
<1>1. \A j \in Intents : Life(j)' = Life(j)
  BY DEF Life
<1>2. \A j \in Intents \ {i} : Served(j)' <=> Served(j)
  BY DEF Served
<1>3. CASE rows[i].retired
  <2>1. rows[i].orphan \/ (Owned(i) = {} /\ Owned(i)' = {})
    BY <1>3 DEF LeakInv, NoLeak
  <2> QED BY <1>1, <1>2, <2>1, LifeMoves DEF Served
<1>4. CASE ~rows[i].retired
  <2>1. Life(i) \in {"live", "deleting"}
    BY <1>4 DEF Life
  <2> QED BY <1>1, <1>2, <2>1, LifeMoves
<1> QED BY <1>3, <1>4

LEMMA NothingMoves ==
  ASSUME UNCHANGED rows, \A j \in Intents : Owned(j)' = Owned(j)
  PROVE  UNCHANGED Lifecycle!vars
<1>1. \A j \in Intents : Life(j)' = Life(j)
  BY DEF Life
<1> QED BY <1>1 DEF Lifecycle!vars

(* Only slot k is filled, emptied or tombstoned. *)
SlotMoves(k) ==
  /\ UNCHANGED rows
  /\ \A l \in Slots \ {k} :
       /\ inst'[l] # NoInst <=> inst[l] # NoInst
       /\ inst[l] # NoInst => inst'[l].owner = inst[l].owner
       /\ inst[l] # NoInst => (l \in disowned' <=> l \in disowned)
  /\ inst[k] # NoInst /\ inst'[k] # NoInst => inst'[k].owner = inst[k].owner

LEMMA SlotMovesRefine ==
  ASSUME LeakInv, LeakInv', NEW k \in Slots, SlotMoves(k)
  PROVE  [Lifecycle!Next]_(Lifecycle!vars)
<1>1. CASE inst[k] = NoInst /\ inst'[k] = NoInst
  <2>1. \A j \in Intents : Owned(j)' = Owned(j)
    BY <1>1 DEF SlotMoves, Owned
  <2> QED BY <2>1, NothingMoves DEF SlotMoves
<1>2. CASE inst[k] # NoInst \/ inst'[k] # NoInst
  <2>1. PICK i \in Intents :
          /\ rows[i] # NoRow
          /\ inst[k] # NoInst => inst[k].owner = i
          /\ inst'[k] # NoInst => inst'[k].owner = i
    BY <1>2 DEF LeakInv, Mirrored, SlotMoves
  <2>2. ASSUME NEW j \in Intents \ {i}
        PROVE  Owned(j)' = Owned(j)
    BY <2>1, <2>2 DEF SlotMoves, Owned
  <2> QED BY <2>1, <2>2, InstancesMove DEF SlotMoves
<1> QED BY <1>1, <1>2

(* The steps that touch no host. *)
LEMMA QuietRefines ==
  ASSUME Inv, LeakInv, UNCHANGED <<rows, inst>>,
         UNCHANGED disowned \/ disowned' = {k \in disowned : cache[k] # NoInst}
  PROVE  [Lifecycle!Next]_(Lifecycle!vars)
<1>1. \A k \in Slots : inst[k] # NoInst => (k \in disowned' <=> k \in disowned)
  BY DEF LeakInv, Mirrored
<1>2. \A j \in Intents : Owned(j)' = Owned(j)
  BY <1>1 DEF Owned
<1> QED BY <1>2, NothingMoves

LEMMA StateIsKept ==
  ASSUME HostOK, NEW k \in Slots, inst[k] # NoInst, NEW state,
         HostSets([inst EXCEPT ![k].state = state]), UNCHANGED <<rows, disowned>>
  PROVE  SlotMoves(k)
<1> DEFINE v == [inst[k] EXCEPT !.state = state]
<1>1. inst[k] \in Inst
  BY DEF HostOK, View
<1>2. v.owner = inst[k].owner
  BY <1>1 DEF Inst
<1>3. inst' = [inst EXCEPT ![k] = v] /\ inst'[k] = v
  BY DEF HostSets, HostOK, View
<1> QED BY <1>2, <1>3 DEF SlotMoves, HostOK, View

LEMMA HostActionRefines ==
  ASSUME Inv, LeakInv, LeakInv', NEW c \in Controls,
         StopInstance(c) \/ DeleteInstance(c) \/ StartInstance(c)
  PROVE  [Lifecycle!Next]_(Lifecycle!vars)
<1>1. PICK k \in Slots : k = job[c].act.slot
  BY DEF StopInstance, DeleteInstance, StartInstance, Inv, ControlOK, Pass, Known
<1>2. UNCHANGED <<rows, disowned>>
  BY DEF StopInstance, DeleteInstance, StartInstance, Fails, Succeeds, Proceeds
<1>3. CASE UNCHANGED hostVars
  BY <1>2, <1>3, QuietRefines DEF hostVars
<1>4. CASE HostSets([inst EXCEPT ![k] = NoInst])
  <2>1. SlotMoves(k)
    BY <1>2, <1>4 DEF HostSets, SlotMoves, Inv, HostOK, View
  <2> QED BY <2>1, SlotMovesRefine
<1>5. ASSUME NEW state, inst[k] # NoInst, HostSets([inst EXCEPT ![k].state = state])
      PROVE  SlotMoves(k)
  BY <1>2, <1>5, StateIsKept DEF Inv
<1>6. CASE inst[k] # NoInst /\ HostSets([inst EXCEPT ![k].state = "stopped"])
  BY <1>5, <1>6, SlotMovesRefine
<1>7. CASE inst[k] # NoInst /\ HostSets(Started(k))
  <2>1. SlotMoves(k)
    BY <1>5, <1>7 DEF Started
  <2> QED BY <2>1, SlotMovesRefine
<1> QED BY <1>1, <1>3, <1>4, <1>6, <1>7 DEF StopInstance, DeleteInstance, StartInstance, hostVars

LEMMA CreateRefines ==
  ASSUME Inv, LeakInv, LeakInv', NEW c \in Controls, CreateInstance(c)
  PROVE  [Lifecycle!Next]_(Lifecycle!vars)
<1>1. UNCHANGED <<rows, disowned>>
  BY DEF CreateInstance, Fails
<1>2. CASE UNCHANGED hostVars
  BY <1>1, <1>2, QuietRefines DEF hostVars
<1>3. ASSUME NEW k \in Slots, NEW v, Free(k), HostSets([inst EXCEPT ![k] = v])
      PROVE  SlotMoves(k)
  BY <1>1, <1>3 DEF HostSets, SlotMoves, Free, Inv, HostOK, View
<1> QED BY <1>2, <1>3, SlotMovesRefine DEF CreateInstance, hostVars

LEMMA TombstoneRefines ==
  ASSUME Inv, LeakInv, LeakInv', NEW c \in Controls, Tombstone(c)
  PROVE  [Lifecycle!Next]_(Lifecycle!vars)
<1>1. PICK k \in Slots : k = job[c].act.slot
  BY DEF Tombstone, Inv, ControlOK, Pass, Known
<1>2. SlotMoves(k)
  BY <1>1 DEF Tombstone, Succeeds, SlotMoves
<1> QED BY <1>2, SlotMovesRefine

(* A request is submitted, or deletes its intent. *)
LEMMA ReplyRefines ==
  ASSUME ~Overlap, Inv, LeakInv, LeakInv', NEW u \in Users, Reply(u)
  PROVE  [Lifecycle!Next]_(Lifecycle!vars)
<1>1. /\ u \in Clients /\ txn[u] \in Txn \union {NoTxn} /\ rows \in [Intents -> Row \union {NoRow}]
      /\ UNCHANGED <<inst, disowned>>
  BY DEF Users, Reply, Inv, StoreInv, StoreTypeOK
<1>2. PICK i \in Intents : i = txn[u].intent /\ Pending(u) /\ txn[u].row \in Row
  BY <1>1 DEF Reply, InsertIntent, SoftDelete, Txn, NoTxn, Pending
<1>3. \A j \in Intents : Owned(j)' = Owned(j)
  BY <1>1 DEF Owned
<1>4. CASE InsertIntent(u)
  <2>1. rows[i] = NoRow
    BY <1>1, <1>2, <1>4 DEF InsertIntent, Inv, StoreInv, Grounded
  <2>2. /\ rows' = [rows EXCEPT ![i] = txn[u].row] /\ txn[u].row # NoRow
        /\ txn[u].row.phase = "pending" /\ ~txn[u].row.retired
    BY <1>1, <1>2, <1>4, EmptyIsNotARecord DEF InsertIntent, LeakInv, Sessions
  <2>3. Owned(i) = {}
    BY <2>1 DEF Owned, LeakInv, Mirrored
  <2>4. Life(i) = "absent" /\ Life(i)' = "live" /\ ~Served(i) /\ ~Served(i)'
    BY <1>1, <1>3, <2>1, <2>2, <2>3 DEF Life, Served
  <2>5. \A j \in Intents \ {i} : Life(j)' = Life(j) /\ (Served(j)' <=> Served(j))
    BY <1>1, <1>3, <2>2 DEF Life, Served
  <2> QED BY <2>4, <2>5, LifeMoves
<1>5. CASE SoftDelete(u)
  <2> DEFINE new == [rows[i] EXCEPT !.phase = IF txn[u].row.phase = "deleting" THEN @ ELSE "deleting",
                                    !.orphan = @ \/ txn[u].orphan]
  <2>1. rows' = [rows EXCEPT ![i] = new] /\ rows[i] \in Row /\ new \in Row
    BY <1>1, <1>2, <1>5, SoftDeleteRow DEF Inv
  <2>2. txn[u].row = rows[i] /\ ~rows[i].retired
    BY <1>1, <1>2, <1>5 DEF Inv, StoreInv, Serial, SoftDelete, LeakInv, Sessions
  <2>3. new.phase = "deleting" /\ ~new.retired /\ (rows[i].orphan => new.orphan) /\ new # NoRow
    BY <2>1, <2>2, EmptyIsNotARecord DEF Row
  <2>4. rows'[i] = new /\ rows[i] # NoRow /\ \A j \in Intents \ {i} : rows'[j] = rows[j]
    BY <1>1, <2>1, EmptyIsNotARecord
  <2> HIDE DEF new
  <2>5. Life(i) \in {"live", "deleting"} /\ Life(i)' = "deleting" /\ (Served(i)' => Served(i))
    BY <1>3, <2>2, <2>3, <2>4 DEF Life, Served
  <2>6. \A j \in Intents \ {i} : Life(j)' = Life(j) /\ (Served(j)' <=> Served(j))
    BY <1>3, <2>4 DEF Life, Served
  <2> QED BY <2>5, <2>6, LifeMoves
<1> QED BY <1>4, <1>5 DEF Reply

(* The commit of a phase finishes a deletion, or moves no intent. *)
LEMMA CommitRefines ==
  ASSUME ~Overlap, Inv, LeakInv, NEW c \in Controls, CommitStatus(c)
  PROVE  [Lifecycle!Next]_(Lifecycle!vars)
<1>1. PICK i \in Intents : i = job[c].intent
  BY DEF CommitStatus, Inv, ControlOK, Pass
<1> DEFINE phase == Guarded(txn[c].row.phase, txn[c].phase)
           new == [rows[i] EXCEPT !.phase = IF phase = txn[c].row.phase THEN @ ELSE phase,
                                  !.retired = @ \/ phase = "deleted"]
<1>2. /\ UNCHANGED <<job, inst, disowned>> /\ c \in Clients
      /\ Aware(c, "commit", job[c]) /\ WriteStatus(c)
  BY ReconcilerAssumption DEF CommitStatus, LeakInv, Goto, Inv, ControlOK
<1>3. txn[c].op = "status" /\ txn[c].intent = i /\ Pending(c)
  BY <1>1, <1>2 DEF Aware, Pending, NoTxn
<1>4. txn[c].row = rows[i]
  BY <1>2, <1>3 DEF Inv, StoreInv, Serial
<1>5. rows' = [rows EXCEPT ![i] = new] /\ rows[i] \in Row /\ new \in Row
  BY <1>2, <1>3, WriteStatusRow DEF Inv
<1>6. /\ new.orphan = rows[i].orphan /\ new.phase = phase
      /\ new.retired <=> rows[i].retired \/ phase = "deleted"
  BY <1>4, <1>5 DEF Row
<1>7. /\ rows'[i] = new /\ new # NoRow /\ rows[i] # NoRow
      /\ \A j \in Intents \ {i} : rows'[j] = rows[j]
  BY <1>5, EmptyIsNotARecord DEF Inv, StoreInv, StoreTypeOK
<1>8. /\ ~rows[i].retired
      /\ phase = "deleted" => Gone(i) /\ rows[i].phase = "deleting"
      /\ rows[i].phase = "deleting" <=> phase \in {"deleting", "deleted"}
  <2>1. /\ ~rows[i].retired
        /\ txn[c].phase = "deleted" => Gone(i) /\ rows[i].phase = "deleting"
        /\ txn[c].phase = "deleting" => rows[i].phase = "deleting"
    BY <1>1, <1>2 DEF Aware, Follows, FoundNone
  <2> QED BY <1>4, <2>1 DEF Guarded
<1> HIDE DEF new, phase
<1>9. \A j \in Intents : Owned(j)' = Owned(j)
  BY <1>2 DEF Owned
<1>10. \A j \in Intents \ {i} : Life(j)' = Life(j) /\ (Served(j)' <=> Served(j))
  BY <1>7, <1>9 DEF Life, Served
<1>11. Served(i)' <=> Served(i)
  BY <1>6, <1>7, <1>9 DEF Served
<1>12. CASE phase = "deleted"
  <2>1. Life(i) = "deleting" /\ Life(i)' = "gone" /\ ~Served(i)
    BY <1>6, <1>7, <1>8, <1>12 DEF Life, Served, Gone
  <2> QED BY <1>10, <1>11, <2>1, LifeMoves
<1>13. CASE phase # "deleted"
  <2>1. Life(i)' = Life(i)
    BY <1>6, <1>7, <1>8, <1>13 DEF Life
  <2> QED BY <1>10, <1>11, <2>1, LifeMoves
<1> QED BY <1>12, <1>13

LEMMA NextRefines ==
  ASSUME ~Overlap, Inv, LeakInv, LeakInv', [Next]_vars
  PROVE  [Lifecycle!Next]_(Lifecycle!vars)
<1>1. CASE UNCHANGED <<rows, inst, disowned>>
  BY <1>1, QuietRefines
<1>2. ASSUME NEW c \in Controls, Observe(c) \/ Reobserve(c)
      PROVE  [Lifecycle!Next]_(Lifecycle!vars)
  BY <1>2, QuietRefines DEF Observe, Reobserve
<1>3. ASSUME NEW c \in Controls, Step(c)
      PROVE  [Lifecycle!Next]_(Lifecycle!vars)
  <2>1. CASE ListIntents(c) \/ (\E i \in Intents : TryLock(c, i)) \/ Enter(c)
             \/ ReadForDisown(c) \/ WriteDisown(c) \/ ReadRow(c) \/ Unlock(c)
    <3>1. UNCHANGED <<rows, inst, disowned>>
      BY <2>1 DEF ListIntents, TryLock, Enter, ReadForDisown, WriteDisown, ReadRow, ReadForStatus,
           Unlock, Succeeds, Proceeds
    <3> QED BY <1>1, <3>1
  <2> QED BY <1>2, <1>3, <2>1, HostActionRefines, CreateRefines, TombstoneRefines, CommitRefines DEF Step
<1>4. ASSUME NEW c \in Controls, ActionTimeout(c) \/ PassFails(c) \/ Crash(c) \/ ShutDown(c)
      PROVE  [Lifecycle!Next]_(Lifecycle!vars)
  BY <1>1, <1>4 DEF ActionTimeout, Fails, PassFails, Crash, ShutDown, Forget, hostVars
<1>5. ASSUME NEW k \in Slots, Boot(k) \/ Break(k)
      PROVE  [Lifecycle!Next]_(Lifecycle!vars)
  <2>1. inst[k] # NoInst /\ UNCHANGED <<rows, disowned>>
    BY <1>5 DEF Boot, Break, NoInst
  <2>2. PICK state \in {"running", "failed"} : HostSets([inst EXCEPT ![k].state = state])
    BY <1>5 DEF Boot, Break
  <2>3. SlotMoves(k)
    BY <2>1, <2>2, StateIsKept DEF Inv
  <2> QED BY <2>3, SlotMovesRefine
<1>6. ASSUME NEW u \in Users, Request(u)
      PROVE  UNCHANGED <<rows, inst, disowned>>
  BY <1>6 DEF Request, CheckAlias, ReadForDelete
<1> QED BY <1>1, <1>3, <1>4, <1>5, <1>6, ReplyRefines
        DEF Next, vars, EndBackoff, EndSettle, ExpireLock, Push

LEMMA InitRefines == Init => Lifecycle!Init
BY DEF Init, StoreInit, Lifecycle!Init, Life, Owned, NoView

(* The loop, its hosts and the API handlers together keep the promise the    *)
(* API makes of an intent: it is gone only when nothing of it is left, and  *)
(* nothing serves it again.                                                 *)
THEOREM LifecycleRefined ==
  ASSUME OneReplica, PushDelay = "none", ~Overlap
  PROVE  Spec => ImplementsLifecycle
<1>1. Inv /\ LeakInv /\ [Next]_vars => LeakInv'
  BY NextLeak
<1>2. Inv /\ LeakInv /\ LeakInv' /\ [Next]_vars => [Lifecycle!Next]_(Lifecycle!vars)
  BY NextRefines
<1> QED BY <1>1, <1>2, InitLeak, InitRefines, Invariant, PTL DEF Spec, ImplementsLifecycle, Lifecycle!Spec

--------------------------------------------------------------------------------
(* Orphans are left alone. *)

(* v names the owner of instance k, if any. *)
NamesOwner(v, k) == v # NoInst /\ inst[k] # NoInst => v.owner \in {inst[k].owner, "none"}

Named ==
  \A k \in Slots :
    /\ NamesOwner(cache[k], k)
    /\ \A c \in Controls : NamesOwner(job[c].view[k], k)

(* The pass of c acts on the instance in the slot of its action. *)
ActsOn(c) ==
  /\ pc[c] \in {"act", "start", "delete", "disown", "tombstone"}
  /\ pc[c] = "start" \/ job[c].act.type # "create"

(* It belongs to the intent of the pass, and has no tombstone. *)
OwnSlot(c) ==
  inst[job[c].act.slot] # NoInst =>
    /\ inst[job[c].act.slot].owner = job[c].intent
    /\ job[c].act.type # "disown" => job[c].act.slot \notin disowned

OnlyOwn == \A c \in Controls : ActsOn(c) => OwnSlot(c)

SpareInv == Named /\ OnlyOwn

(* No instance appears, and what the cache and the passes learn of one is   *)
(* what it, or an older copy, says.                                         *)
Learns ==
  /\ NoneNew
  /\ disowned' \subseteq disowned
  /\ \A k \in Slots :
       /\ cache'[k] \in {cache[k], inst[k], inst'[k]}
       /\ \A c \in Controls : job'[c].view[k] \in {job[c].view[k], cache[k], NoInst}

LEMMA NamedKept ==
  ASSUME Named, NoneNew,
         \A k \in Slots :
           /\ cache'[k] \in {cache[k], inst[k], inst'[k]}
           /\ \A c \in Controls : job'[c].view[k] \in {job[c].view[k], cache[k], NoInst}
  PROVE  Named'
BY DEF Named, NamesOwner, NoneNew

LEMMA SpareKept ==
  ASSUME Inv, SpareInv, Learns,
         \A c \in Controls : ActsOn(c)' =>
           (ActsOn(c) /\ UNCHANGED <<job[c].act, job[c].intent>>) \/ OwnSlot(c)'
  PROVE  SpareInv'
<1>1. Named'
  BY NamedKept DEF Learns, SpareInv
<1>2. ASSUME NEW c \in Controls, ActsOn(c), UNCHANGED <<job[c].act, job[c].intent>>
      PROVE  OwnSlot(c)'
  <2>1. job[c].act.slot \in Slots
    BY <1>2 DEF ActsOn, Inv, ControlOK, Pass, Known, Act
  <2>2. OwnSlot(c)
    BY <1>2 DEF SpareInv, OnlyOwn
  <2> QED BY <1>2, <2>1, <2>2 DEF OwnSlot, Learns, NoneNew
<1>3. OnlyOwn'
  BY <1>2 DEF OnlyOwn
<1> QED BY <1>1, <1>3 DEF SpareInv

LEMMA HostLearns ==
  ASSUME HostOK, NEW k \in Slots, NEW v,
         v # NoInst => /\ inst[k] # NoInst
                       /\ v.host = inst[k].host /\ v.alias = inst[k].alias /\ v.owner = inst[k].owner,
         HostSets([inst EXCEPT ![k] = v])
  PROVE  /\ NoneNew /\ inst'[k] = v
         /\ \A l \in Slots : cache'[l] \in {cache[l], inst[l], inst'[l]}
<1>1. inst'[k] = v /\ \A l \in Slots \ {k} : inst'[l] = inst[l]
  BY DEF HostSets, HostOK, View
<1>2. NoneNew
  BY <1>1 DEF NoneNew
<1>3. \A l \in Slots : cache'[l] \in {cache[l], inst[l], inst'[l]}
  BY DEF HostSets, HostOK, View
<1> QED BY <1>1, <1>2, <1>3

LEMMA StateLearns ==
  ASSUME HostOK, NEW k \in Slots, inst[k] # NoInst, NEW state,
         HostSets([inst EXCEPT ![k].state = state])
  PROVE  /\ NoneNew
         /\ \A l \in Slots : cache'[l] \in {cache[l], inst[l], inst'[l]}
<1> DEFINE v == [inst[k] EXCEPT !.state = state]
<1>1. inst[k] \in Inst
  BY DEF HostOK, View
<1>2. v.host = inst[k].host /\ v.alias = inst[k].alias /\ v.owner = inst[k].owner
  BY <1>1 DEF Inst
<1>3. HostSets([inst EXCEPT ![k] = v])
  OBVIOUS
<1> HIDE DEF v
<1> QED BY <1>2, <1>3, HostLearns

(* Requests to a host: at most the instance in the pass's own slot changes. *)
LEMMA HostActionSpares ==
  ASSUME Inv, SpareInv, NEW c \in Controls,
         StopInstance(c) \/ DeleteInstance(c) \/ StartInstance(c)
  PROVE  /\ SpareInv' /\ ActsOn(c) /\ job[c].act.type # "disown"
         /\ \A k \in Slots : k # job[c].act.slot => inst'[k] = inst[k]
<1>1. PICK k \in Slots : k = job[c].act.slot
  BY DEF StopInstance, DeleteInstance, StartInstance, Inv, ControlOK, Pass, Known
<1>2. ActsOn(c) /\ job[c].act.type # "disown"
  BY DEF StopInstance, DeleteInstance, StartInstance, ActsOn, Inv, ControlOK, Pass
<1>3. UNCHANGED <<disowned, job>> /\ \A d \in Controls \ {c} : pc'[d] = pc[d]
  BY DEF StopInstance, DeleteInstance, StartInstance, Fails, Succeeds, Proceeds, Goto, Inv, ControlOK
<1>4. pc'[c] \in {"delete", "reobserve", "status"}
  BY DEF StopInstance, DeleteInstance, StartInstance, Fails, Succeeds, Proceeds, Goto, Inv, ControlOK
<1>5. pc'[c] = "delete" => job[c].act.type # "create"
  BY DEF StopInstance, DeleteInstance, StartInstance, Fails, Succeeds, Proceeds, Goto, Inv, ControlOK
<1>6. \A d \in Controls : ActsOn(d)' => ActsOn(d) /\ UNCHANGED <<job[d].act, job[d].intent>>
  BY <1>2, <1>3, <1>4, <1>5 DEF ActsOn
<1>7. \/ UNCHANGED hostVars
      \/ HostSets([inst EXCEPT ![k] = NoInst])
      \/ inst[k] # NoInst /\ \E state : HostSets([inst EXCEPT ![k].state = state])
  BY <1>1 DEF StopInstance, DeleteInstance, StartInstance, Started, hostVars
<1>8. /\ NoneNew
      /\ \A l \in Slots : cache'[l] \in {cache[l], inst[l], inst'[l]}
  <2>1. CASE UNCHANGED hostVars
    BY <2>1 DEF NoneNew, hostVars
  <2>2. CASE HostSets([inst EXCEPT ![k] = NoInst])
    BY <2>2, HostLearns DEF Inv
  <2>3. ASSUME inst[k] # NoInst, NEW state, HostSets([inst EXCEPT ![k].state = state])
        PROVE  /\ NoneNew
               /\ \A l \in Slots : cache'[l] \in {cache[l], inst[l], inst'[l]}
    BY <2>3, StateLearns DEF Inv
  <2> QED BY <1>7, <2>1, <2>2, <2>3
<1>9. SpareInv'
  BY <1>3, <1>6, <1>8, SpareKept DEF Learns
<1>10. \A l \in Slots \ {k} : inst'[l] = inst[l]
  BY <1>7 DEF HostSets, hostVars, Inv, HostOK, View
<1> QED BY <1>1, <1>2, <1>9, <1>10

(* A step that touches neither the hosts nor the cache. *)
LEMMA CalmSpares ==
  ASSUME Inv, SpareInv, UNCHANGED <<inst, cache>>, disowned' \subseteq disowned,
         \A c \in Controls : job'[c].view \in {job[c].view, NoView},
         \A c \in Controls : ActsOn(c)' =>
           (ActsOn(c) /\ UNCHANGED <<job[c].act, job[c].intent>>) \/ OwnSlot(c)'
  PROVE  SpareInv'
<1>1. Learns
  BY DEF Learns, NoneNew, NoView
<1> QED BY <1>1, SpareKept

LEMMA DiffSlots ==
  ASSUME NEW row, NEW S, NEW fit, NEW a \in Diff(row, S, fit), a.type # "create"
  PROVE  a.slot \in S
<1>1. \A T \in SUBSET S : \A b \in Stops(T) : b.slot \in S
  BY DEF Stops, Action
<1>2. Broken(S) \in SUBSET S
  BY DEF Broken
<1>3. \A type, T : T \in SUBSET S => \A b \in {Action(type, k, cache[k].host) : k \in T} : b.slot \in S
  BY DEF Action
<1>4. a \notin {Action("create", "none", h) : h \in Candidates(row.alias, fit)}
  BY DEF Action
<1> QED BY <1>1, <1>2, <1>3, <1>4 DEF Diff

LEMMA ObserveSpares ==
  ASSUME Inv, SpareInv, NEW c \in Controls, Observe(c)
  PROVE  SpareInv'
<1>1. PICK i \in Intents : i = job[c].intent
  BY DEF Observe, Inv, ControlOK, Pass
<1> DEFINE row == job[c].snap[i]
           S == Managed(i, row.alias)
           looked == [job[c] EXCEPT !.seen = S, !.ready = Running(S)]
<1>2. /\ UNCHANGED <<inst, cache>> /\ disowned' \subseteq disowned /\ job[c] \in Job
      /\ \A d \in Controls \ {c} : pc'[d] = pc[d] /\ job'[d] = job[d]
  BY DEF Observe, Goto, Inv, ControlOK
<1>3. looked.view = job[c].view /\ looked.intent = i
  BY <1>1, <1>2 DEF Job
<1>4. CASE job' = [job EXCEPT ![c] = looked] /\ Goto(c, "status")
  <2>1. job'[c] = looked /\ pc'[c] = "status"
    BY <1>4 DEF Goto, Inv, ControlOK
  <2> HIDE DEF looked
  <2> QED BY <1>2, <1>3, <2>1, CalmSpares DEF ActsOn
<1>5. ASSUME NEW a, a.type # "create" => a.slot \in S,
             job' = [job EXCEPT ![c] = [looked EXCEPT !.act = a]], Goto(c, "act")
      PROVE  SpareInv'
  <2> DEFINE j == [looked EXCEPT !.act = a]
  <2>1. j.view = job[c].view /\ j.intent = i /\ j.act = a
    BY <1>1, <1>2 DEF Job
  <2>2. job'[c] = j /\ pc'[c] = "act"
    BY <1>5 DEF Goto, Inv, ControlOK
  <2> HIDE DEF j, looked
  <2>3. ASSUME a.type # "create", inst[a.slot] # NoInst
        PROVE  inst[a.slot].owner = i /\ a.slot \notin disowned
    <3>1. a.slot \in Slots \ disowned /\ cache[a.slot] # NoInst /\ cache[a.slot].owner = i
      BY <1>5, <2>3 DEF Managed
    <3> QED BY <2>3, <3>1, StoreAssumption DEF SpareInv, Named, NamesOwner
  <2> HIDE DEF S
  <2>4. ActsOn(c)' => OwnSlot(c)'
    BY <1>2, <2>1, <2>2, <2>3 DEF ActsOn, OwnSlot
  <2> QED BY <1>2, <2>1, <2>2, <2>4, CalmSpares DEF ActsOn
<1>6. \A fit : \A a \in (IF job[c].refresh THEN {} ELSE Diff(row, S, fit)) :
        a.type # "create" => a.slot \in S
  BY DiffSlots
<1> QED BY <1>1, <1>4, <1>5, <1>6 DEF Observe

LEMMA CreateSpares ==
  ASSUME Inv, SpareInv, NEW c \in Controls, CreateInstance(c)
  PROVE  SpareInv' /\ \A k \in Slots : inst[k] # NoInst => inst'[k] = inst[k]
<1>1. /\ job[c] \in Job /\ UNCHANGED disowned /\ pc[c] = "act" /\ job[c].act.type = "create"
      /\ \A d \in Controls \ {c} : pc'[d] = pc[d] /\ job'[d] = job[d]
  BY DEF CreateInstance, Fails, Goto, Inv, ControlOK
<1>2. PICK i \in Intents : i = job[c].intent
  BY DEF CreateInstance, Inv, ControlOK, Pass
<1> DEFINE new == [host |-> job[c].act.host, alias |-> job[c].snap[i].alias,
                   owner |-> i, state |-> "stopped"]
<1>3. CASE Fails(c) /\ UNCHANGED hostVars
  <2>1. pc'[c] = "status" /\ job' = job
    BY <1>3 DEF Fails, Goto, Inv, ControlOK
  <2>2. SpareInv'
    BY <1>1, <1>3, <2>1, CalmSpares DEF ActsOn, hostVars
  <2> QED BY <1>3, <2>2 DEF hostVars
<1>4. ASSUME NEW k \in Slots, Free(k), HostSets([inst EXCEPT ![k] = new]),
             \/ Goto(c, "start") /\ job' = [job EXCEPT ![c] = [job[c] EXCEPT !.act.slot = k]]
             \/ Fails(c)
      PROVE  SpareInv' /\ \A l \in Slots : inst[l] # NoInst => inst'[l] = inst[l]
  <2>1. /\ inst[k] = NoInst /\ cache[k] = NoInst /\ k \notin disowned
        /\ \A d \in Controls : job[d].act.slot # k /\ job[d].view[k] = NoInst
    BY <1>4 DEF Free
  <2>2. inst'[k] = new /\ \A l \in Slots \ {k} : inst'[l] = inst[l] /\ cache'[l] = cache[l]
    BY <1>4 DEF HostSets, Inv, HostOK, View
  <2>3. cache'[k] \in {NoInst, new}
    BY <1>4, <2>1 DEF HostSets, Inv, HostOK, View
  <2>4. new.owner = i
    OBVIOUS
  <2> HIDE DEF new
  <2>5. /\ job'[c].view = job[c].view
        /\ \/ pc'[c] = "start" /\ job'[c].act.slot = k /\ job'[c].intent = i
           \/ pc'[c] = "status"
    <3>1. CASE Fails(c)
      BY <3>1 DEF Fails, Goto, Inv, ControlOK
    <3>2. CASE Goto(c, "start") /\ job' = [job EXCEPT ![c] = [job[c] EXCEPT !.act.slot = k]]
      <4> DEFINE j == [job[c] EXCEPT !.act.slot = k]
      <4>1. j.view = job[c].view /\ j.act.slot = k /\ j.intent = i
        BY <1>1, <1>2 DEF Job, Act
      <4>2. job'[c] = j /\ pc'[c] = "start"
        BY <3>2 DEF Goto, Inv, ControlOK
      <4> QED BY <4>1, <4>2
    <3> QED BY <1>4, <3>1, <3>2
  <2>6. Named'
    <3>1. \A d \in Controls : job'[d].view = job[d].view
      BY <1>1, <2>5
    <3>2. \A l \in Slots \ {k} : NamesOwner(cache[l], l)' /\ \A d \in Controls : NamesOwner(job[d].view[l], l)'
      BY <2>2, <3>1 DEF SpareInv, Named, NamesOwner
    <3>3. NamesOwner(cache[k], k)' /\ \A d \in Controls : NamesOwner(job[d].view[k], k)'
      BY <2>1, <2>2, <2>3, <3>1 DEF NamesOwner
    <3> QED BY <3>2, <3>3 DEF Named
  <2>7. ASSUME NEW d \in Controls, ActsOn(d)'
        PROVE  OwnSlot(d)'
    <3>1. CASE d = c
      BY <1>1, <2>1, <2>2, <2>4, <2>5, <2>7, <3>1 DEF ActsOn, OwnSlot
    <3>2. CASE d # c
      <4>1. ActsOn(d) /\ OwnSlot(d) /\ job'[d] = job[d] /\ job[d].act.slot \in Slots \ {k}
        BY <1>1, <2>1, <2>7, <3>2 DEF ActsOn, SpareInv, OnlyOwn, Inv, ControlOK, Pass, Known, Act
      <4> QED BY <1>1, <2>2, <4>1 DEF OwnSlot
    <3> QED BY <3>1, <3>2
  <2>8. OnlyOwn'
    BY <2>7 DEF OnlyOwn
  <2> QED BY <2>1, <2>2, <2>6, <2>8 DEF SpareInv
<1> QED BY <1>2, <1>3, <1>4 DEF CreateInstance, hostVars

LEMMA ReadForDisownSpares ==
  ASSUME Inv, SpareInv, NEW c \in Controls, ReadForDisown(c)
  PROVE  SpareInv'
<1> DEFINE a == job[c].act
           view == [k \in Slots |->
                      IF cache[k] # NoInst /\ cache[k].host = a.host THEN cache[k] ELSE NoInst]
           j == [job[c] EXCEPT !.view = view]
<1>1. /\ UNCHANGED <<inst, cache, disowned>> /\ job[c] \in Job
      /\ pc[c] = "act" /\ a.type = "disown"
      /\ \A d \in Controls \ {c} : pc'[d] = pc[d] /\ job'[d] = job[d]
  BY DEF ReadForDisown, Succeeds, Goto, Inv, ControlOK
<1>2. CASE Succeeds(c)
  <2>1. pc'[c] = "status" /\ job' = job
    BY <1>2 DEF Succeeds, Goto, Inv, ControlOK
  <2> QED BY <1>1, <2>1, CalmSpares DEF ActsOn
<1>3. CASE job' = [job EXCEPT ![c] = j] /\ Goto(c, "disown")
  <2>1. j.view = view /\ j.intent = job[c].intent /\ j.act = a
    BY <1>1 DEF Job
  <2>2. job'[c] = j /\ pc'[c] = "disown"
    BY <1>3 DEF Goto, Inv, ControlOK
  <2>3. \A k \in Slots : view[k] \in {cache[k], NoInst}
    OBVIOUS
  <2> HIDE DEF view, j
  <2>4. Learns
    BY <1>1, <2>1, <2>2, <2>3 DEF Learns, NoneNew
  <2> QED BY <1>1, <2>1, <2>2, <2>4, SpareKept DEF ActsOn
<1> QED BY <1>2, <1>3 DEF ReadForDisown

LEMMA WriteDisownSpares ==
  ASSUME Inv, SpareInv, NEW c \in Controls, WriteDisown(c)
  PROVE  SpareInv'
<1> DEFINE a == job[c].act
           v == job[c].view
           bare == [v[a.slot] EXCEPT !.owner = "none"]
<1>1. /\ UNCHANGED <<inst, disowned, job>> /\ pc[c] = "disown" /\ pc'[c] = "tombstone"
      /\ job[c] \in Job /\ a.type = "disown" /\ v[a.slot] \in Inst /\ a.slot \in Slots
      /\ \A d \in Controls \ {c} : pc'[d] = pc[d]
  BY DEF WriteDisown, Proceeds, Goto, Inv, ControlOK, Pass, Known
<1>2. bare.owner = "none"
  BY <1>1 DEF Inst
<1>3. \A k \in Slots : cache'[k] = IF k = a.slot THEN bare
                                 ELSE IF v[k] # NoInst \/ (cache[k] # NoInst /\ cache[k].host = a.host)
                                 THEN v[k] ELSE cache[k]
  BY DEF WriteDisown
<1> HIDE DEF bare
<1>4. \A k \in Slots : NamesOwner(v[k], k) /\ NamesOwner(cache[k], k)
  BY DEF SpareInv, Named
<1>5. \A k \in Slots : NamesOwner(cache[k], k)'
  BY <1>1, <1>2, <1>3, <1>4 DEF NamesOwner
<1>6. Named'
  BY <1>1, <1>5 DEF SpareInv, Named, NamesOwner
<1>7. OnlyOwn'
  BY <1>1 DEF SpareInv, OnlyOwn, OwnSlot, ActsOn
<1> QED BY <1>6, <1>7 DEF SpareInv

(* Another replica's action is on an instance of another intent. *)
LEMMA TombstoneSpares ==
  ASSUME Inv, LockExclusive, SpareInv, NEW c \in Controls, Tombstone(c)
  PROVE  SpareInv'
<1>1. /\ UNCHANGED <<inst, cache, job>> /\ pc[c] = "tombstone" /\ pc'[c] = "status"
      /\ \A d \in Controls \ {c} : pc'[d] = pc[d]
      /\ job[c].act.type = "disown"
      /\ disowned' \subseteq disowned \union {job[c].act.slot}
  BY DEF Tombstone, Succeeds, Goto, Inv, ControlOK, Pass
<1>2. Named'
  BY <1>1 DEF SpareInv, Named, NamesOwner
<1>3. ASSUME NEW d \in Controls, ActsOn(d)'
      PROVE  OwnSlot(d)'
  <2>1. d # c /\ ActsOn(d) /\ OwnSlot(d) /\ OwnSlot(c)
    BY <1>1, <1>3 DEF ActsOn, SpareInv, OnlyOwn
  <2>2. job[d].intent # job[c].intent
    BY <1>1, <2>1 DEF LockExclusive, InSection, ActsOn
  <2> QED BY <1>1, <2>1, <2>2 DEF OwnSlot
<1>4. OnlyOwn'
  BY <1>3 DEF OnlyOwn
<1> QED BY <1>2, <1>4 DEF SpareInv

(* The steps of a pass outside of an action, and its end. *)
LEMMA PassSpares ==
  ASSUME Inv, SpareInv, NEW c \in Controls,
         \/ ListIntents(c) \/ (\E i \in Intents : TryLock(c, i)) \/ Enter(c) \/ Reobserve(c)
         \/ ReadRow(c) \/ CommitStatus(c) \/ Unlock(c)
         \/ ActionTimeout(c) \/ PassFails(c) \/ Crash(c) \/ ShutDown(c)
  PROVE  SpareInv' /\ UNCHANGED inst
<1>1. UNCHANGED <<inst, cache>> /\ disowned' \subseteq disowned
  BY DEF ListIntents, TryLock, Enter, Reobserve, ReadRow, CommitStatus, Unlock, ActionTimeout, Fails,
         PassFails, Crash, ShutDown, Forget, hostVars
<1>2. \A d \in Controls \ {c} : pc'[d] = pc[d] /\ job'[d] = job[d]
  BY DEF ListIntents, TryLock, Enter, Reobserve, ReadRow, CommitStatus, Unlock, ActionTimeout, Fails,
         PassFails, Crash, ShutDown, Forget, Goto, Inv, ControlOK
<1>3. pc'[c] \notin {"act", "start", "delete", "disown", "tombstone"}
  BY DEF ListIntents, TryLock, Enter, Reobserve, ReadRow, CommitStatus, Unlock, ActionTimeout, Fails,
         PassFails, Crash, ShutDown, Forget, Goto, After, Inv, ControlOK
<1>4. job[c] \in Job
  BY DEF Inv, ControlOK
<1>5. job'[c].view \in {job[c].view, NoView}
  <2>1. CASE ListIntents(c)
    BY <2>1 DEF ListIntents, Inv, ControlOK, NoJob
  <2>2. ASSUME NEW i \in Intents, TryLock(c, i)
        PROVE  job'[c].view \in {job[c].view, NoView}
    <3>1. [job[c] EXCEPT !.todo = @ \ {i}, !.intent = i].view = job[c].view
      BY <1>4 DEF Job
    <3> QED BY <2>2, <3>1 DEF TryLock, Rest, NoJob, Inv, ControlOK
  <2>3. CASE Enter(c)
    <3>1. PICK refresh, snap : job' = job \/ job' = [job EXCEPT ![c] = [job[c] EXCEPT !.refresh = refresh, !.snap = snap]]
      <4>1. PICK i \in Intents : i = job[c].intent
        BY <2>3 DEF Enter, Inv, ControlOK, Pass
      <4> DEFINE deleting == Active(i) /\ rows[i].phase = "deleting"
                 settling == <<c, i>> \in settle
      <4>2. job' = job \/ job' = [job EXCEPT ![c] = [job[c] EXCEPT
              !.refresh = settling /\ ~deleting,
              !.snap[i] = IF settling /\ deleting THEN rows[i] ELSE @]]
        BY <2>3, <4>1 DEF Enter
      <4> QED BY <4>2
    <3>2. [job[c] EXCEPT !.refresh = refresh, !.snap = snap].view = job[c].view
      BY <1>4 DEF Job
    <3> QED BY <3>1, <3>2 DEF Inv, ControlOK
  <2>4. CASE Reobserve(c)
    <3>1. PICK seen, ready : job' = [job EXCEPT ![c] = [job[c] EXCEPT !.seen = seen, !.ready = ready]]
      BY <2>4 DEF Reobserve
    <3>2. [job[c] EXCEPT !.seen = seen, !.ready = ready].view = job[c].view
      BY <1>4 DEF Job
    <3> QED BY <3>1, <3>2 DEF Inv, ControlOK
  <2>5. CASE Unlock(c)
    BY <2>5 DEF Unlock, Rest, NoJob, Inv, ControlOK
  <2>6. CASE Crash(c) \/ ShutDown(c)
    BY <2>6 DEF Crash, ShutDown, Forget, NoJob, Inv, ControlOK
  <2>7. CASE ReadRow(c) \/ CommitStatus(c) \/ ActionTimeout(c) \/ PassFails(c)
    BY <2>7 DEF ReadRow, CommitStatus, ActionTimeout, Fails, PassFails
  <2> QED BY <2>1, <2>2, <2>3, <2>4, <2>5, <2>6, <2>7
<1> QED BY <1>1, <1>2, <1>3, <1>5, CalmSpares DEF ActsOn

LEMMA OutsideSpares ==
  ASSUME Inv, SpareInv, UNCHANGED <<pc, job, disowned>>, NoneNew,
         \A k \in Slots : cache'[k] \in {cache[k], inst[k], inst'[k]}
  PROVE  SpareInv'
BY SpareKept DEF Learns, ActsOn

Untouched ==
  \A k \in disowned : inst[k] # NoInst /\ inst'[k] # inst[k] =>
    inst'[k] # NoInst /\ inst'[k].state \in {"running", "failed"}

LEMMA NextSpares ==
  ASSUME Inv, LockExclusive, SpareInv, [Next]_vars
  PROVE  SpareInv' /\ Untouched
<1>0. disowned \subseteq Slots
  BY DEF Inv, HostOK
<1>1. ASSUME NEW c \in Controls, StopInstance(c) \/ DeleteInstance(c) \/ StartInstance(c)
      PROVE  SpareInv' /\ Untouched
  <2>1. /\ SpareInv' /\ ActsOn(c) /\ job[c].act.type # "disown"
        /\ \A k \in Slots : k # job[c].act.slot => inst'[k] = inst[k]
    BY <1>1, HostActionSpares
  <2>2. inst[job[c].act.slot] # NoInst => job[c].act.slot \notin disowned
    BY <2>1 DEF SpareInv, OnlyOwn, OwnSlot
  <2> QED BY <1>0, <2>1, <2>2 DEF Untouched
<1>2. ASSUME NEW c \in Controls, CreateInstance(c)
      PROVE  SpareInv' /\ Untouched
  BY <1>0, <1>2, CreateSpares DEF Untouched
<1>3. ASSUME NEW c \in Controls, Observe(c) \/ ReadForDisown(c) \/ WriteDisown(c) \/ Tombstone(c)
      PROVE  SpareInv' /\ Untouched
  <2>1. SpareInv'
    BY <1>3, ObserveSpares, ReadForDisownSpares, WriteDisownSpares, TombstoneSpares
  <2>2. UNCHANGED inst
    BY <1>3 DEF Observe, ReadForDisown, WriteDisown, Tombstone
  <2> QED BY <2>1, <2>2 DEF Untouched
<1>4. ASSUME NEW c \in Controls,
             Step(c) \/ ActionTimeout(c) \/ PassFails(c) \/ Crash(c) \/ ShutDown(c)
      PROVE  SpareInv' /\ Untouched
  BY <1>1, <1>2, <1>3, <1>4, PassSpares DEF Step, Untouched
<1>5. CASE UNCHANGED <<pc, job, inst, cache, disowned>>
  BY <1>5, OutsideSpares DEF NoneNew, Untouched
<1>6. ASSUME NEW h \in Hosts, Push(h)
      PROVE  SpareInv' /\ Untouched
  BY <1>6, OutsideSpares DEF Push, NoneNew, Untouched
<1>7. ASSUME NEW k \in Slots, Boot(k) \/ Break(k)
      PROVE  SpareInv' /\ Untouched
  <2>1. inst[k] # NoInst /\ UNCHANGED <<pc, job, disowned>>
    BY <1>7 DEF Boot, Break, NoInst
  <2>2. PICK state \in {"running", "failed"} : HostSets([inst EXCEPT ![k].state = state])
    BY <1>7 DEF Boot, Break
  <2>3. SpareInv'
    BY <2>1, <2>2, StateLearns, OutsideSpares DEF Inv
  <2>4. /\ \A l \in Slots \ {k} : inst'[l] = inst[l]
        /\ inst'[k] = [inst[k] EXCEPT !.state = state] /\ inst[k] \in Inst
    BY <2>1, <2>2 DEF HostSets, Inv, HostOK, View
  <2>5. inst'[k] \in Inst /\ inst'[k].state = state
    BY <2>4 DEF Inst
  <2> QED BY <1>0, <2>3, <2>4, <2>5, NoInstIsNotInst DEF Untouched
<1> QED BY <1>4, <1>5, <1>6, <1>7 DEF Next, vars, EndBackoff, EndSettle, ExpireLock, Request, Reply

(* Whatever late pushes put back in the cache and however many replicas     *)
(* run, the loop never stops, restarts or removes an instance it has        *)
(* tombstoned, as long as keys outlive passes.                              *)
THEOREM DisownedSpared ==
  ASSUME "lock_expiry" \notin Faults
  PROVE  Spec => DisownedUntouched
<1>1. Init => SpareInv
  BY DEF Init, SpareInv, Named, NamesOwner, OnlyOwn, ActsOn, NoView, NoJob
<1>2. Inv /\ LockExclusive /\ SpareInv /\ [Next]_vars => SpareInv'
  BY NextSpares
<1>3. Inv /\ LockExclusive /\ SpareInv /\ [Next]_vars => [Untouched]_inst
  BY NextSpares
<1> QED BY <1>1, <1>2, <1>3, Invariant, LockSafe, PTL DEF Spec, DisownedUntouched, Untouched

--------------------------------------------------------------------------------
(* Never too many instances, and never two of one alias on a host.          *)

(* Pushes land with the change; or, while replicas do not crash and there   *)
(* is one intent, before its settle window and its backoff end.             *)
PushedInTime ==
  \/ PushDelay = "none"
  \/ PushDelay = "settle" /\ "crash" \notin Faults /\ \A i, j \in Intents : i = j

Copies(i) == {k \in Slots : inst[k] # NoInst /\ inst[k].owner = i}

(* The pass of c has read the row of i, and is not done with it. *)
Watches(c, i) == i \in job[c].todo \/ (InSection(c) /\ job[c].intent = i)

(* The row of i is being deleted, and no status on its way says otherwise. *)
Doomed(i) ==
  /\ rows[i] # NoRow
  /\ rows[i].retired \/ rows[i].phase = "deleting"
  /\ \A c \in Controls :
       txn[c].op = "status" /\ txn[c].intent = i => txn[c].row.phase = "deleting"

(* Every pass that works on i knows it. *)
Condemned(i) ==
  /\ Doomed(i)
  /\ \A c \in Controls : Watches(c, i) => job[c].snap[i].phase = "deleting"

(* The owner of instance k is not to come back. *)
Given(k) == \A i \in Intents : inst[k].owner = i => Condemned(i)

(* v tells of instance k, but for the owner of one that was disowned. *)
Identifies(v, k) ==
  /\ v.host = inst[k].host /\ v.alias = inst[k].alias
  /\ v.owner # inst[k].owner => v.owner = "none" /\ Given(k)

Shown(i) == \A k \in Copies(i) : cache[k] # NoInst /\ cache[k].owner = i

(* c has created an instance of i that the cache may not show yet. *)
Awaits(c, i) ==
  \/ <<c, i>> \in settle \union backoff
  \/ pc[c] \in {"start", "reobserve"} /\ job[c].intent = i

Fleet ==
  \A k \in Slots :
    /\ inst[k] # NoInst =>
         /\ inst[k].owner \in Intents /\ rows[inst[k].owner] # NoRow
         /\ inst[k].alias = rows[inst[k].owner].alias
    /\ inst[k] # NoInst /\ cache[k] # NoInst => Identifies(cache[k], k)
    /\ inst[k] # NoInst /\ k \in disowned => Given(k)

Counted ==
  \A i \in Intents : ~Condemned(i) =>
    /\ rows[i] # NoRow => Cardinality(Copies(i)) <= rows[i].replicas
    /\ Shown(i) \/ (PushDelay = "settle" /\ \E c \in Controls : Awaits(c, i))

Apart ==
  \A k, l \in Slots :
    k # l /\ inst[k] # NoInst /\ inst[l] # NoInst /\ inst[k].alias = inst[l].alias
      => inst[k].host # inst[l].host

(* What a pass has read of its intents. *)
Reads(c) ==
  \A i \in Intents : Watches(c, i) =>
    /\ rows[i] # NoRow
    /\ job[c].snap[i].alias = rows[i].alias
    /\ job[c].snap[i].replicas = rows[i].replicas
    /\ job[c].snap[i].phase = "deleting" => Doomed(i)

Session(c) ==
  /\ pc[c] # "commit" => txn[c].op # "status"
  /\ pc[c] = "commit" => txn[c].op = "status" /\ txn[c].intent = job[c].intent

(* There is room for one more, and the chosen host has none of the alias. *)
Room(row, i, h) ==
  /\ row.phase # "deleting"
  /\ Cardinality(Copies(i)) < row.replicas
  /\ \A k \in Slots : inst[k] # NoInst /\ inst[k].alias = row.alias => inst[k].host # h

Plans(c) ==
  LET i == job[c].intent
      row == job[c].snap[i]
      a == job[c].act IN
  /\ pc[c] \in Acting \union {"observe"} => <<c, i>> \notin backoff
  /\ pc[c] = "observe" /\ ~job[c].refresh /\ row.phase # "deleting" => <<c, i>> \notin settle
  /\ pc[c] = "act" /\ a.type = "create" => Room(row, i, a.host)
  /\ pc[c] \in {"act", "disown", "tombstone"} /\ a.type = "disown" =>
       /\ row.phase = "deleting"
       /\ inst[a.slot] # NoInst => inst[a.slot].owner = i
  /\ pc[c] = "disown" => \A k \in Slots :
       job[c].view[k] # NoInst /\ inst[k] # NoInst => Identifies(job[c].view[k], k)

DupInv ==
  /\ Fleet /\ Counted /\ Apart
  /\ \A c \in Controls : Reads(c) /\ Session(c) /\ Plans(c)

(* What a step leaves as it was. *)
RowStays(i) ==
  rows[i] # NoRow =>
    rows'[i] # NoRow /\ rows'[i].alias = rows[i].alias /\ rows'[i].replicas = rows[i].replicas

Onward ==
  \A i \in Intents :
    /\ RowStays(i)
    /\ Doomed(i) => Doomed(i)'
    /\ Condemned(i) => Condemned(i)'

CacheFollows ==
  \A k \in Slots : inst'[k] # NoInst =>
    /\ cache'[k] # NoInst => Identifies(cache[k], k)'
    /\ cache[k] # NoInst => cache'[k] # NoInst \/ Given(k)'

StillAwaited ==
  PushDelay = "settle" => \A i \in Intents : ~Condemned(i) =>
    Shown(i) \/ ((\E c \in Controls : Awaits(c, i)) => (\E c \in Controls : Awaits(c, i)'))

DisownedFits ==
  \A k \in Slots : k \in disowned' /\ inst'[k] # NoInst =>
    k \in disowned \/ Given(k)'

LEMMA CopiesFinite ==
  ASSUME NEW i
  PROVE  IsFiniteSet(Copies(i)) /\ Cardinality(Copies(i)) \in Nat
BY ReconcilerAssumption, FS_Subset, FS_CardinalityType DEF Copies

LEMMA Replicas ==
  ASSUME Inv, NEW i \in Intents, rows[i] # NoRow
  PROVE  rows[i] \in Row /\ rows[i].replicas \in Nat
BY StoreAssumption DEF Inv, StoreInv, StoreTypeOK, Row

(* The instances, when none is new. *)
LEMMA FleetKept ==
  ASSUME Inv', DupInv, NoneNew, Onward, CacheFollows, StillAwaited, DisownedFits
  PROVE  Fleet' /\ Counted' /\ Apart'
<1>1. Fleet'
  <2> SUFFICES ASSUME NEW k \in Slots, inst'[k] # NoInst
               PROVE  /\ inst'[k].owner \in Intents /\ rows'[inst'[k].owner] # NoRow
                      /\ inst'[k].alias = rows'[inst'[k].owner].alias
                      /\ cache'[k] # NoInst => Identifies(cache[k], k)'
                      /\ k \in disowned' => Given(k)'
    BY DEF Fleet
  <2>1. /\ inst[k] # NoInst /\ inst'[k].owner = inst[k].owner /\ inst'[k].alias = inst[k].alias
    BY DEF NoneNew
  <2>2. /\ inst[k].owner \in Intents /\ rows[inst[k].owner] # NoRow
        /\ inst[k].alias = rows[inst[k].owner].alias
        /\ k \in disowned => Given(k)
    BY <2>1 DEF DupInv, Fleet
  <2>3. PICK i \in Intents : i = inst[k].owner
    BY <2>2
  <2>4. RowStays(i) /\ (Given(k) => Given(k)')
    BY <2>1, <2>3 DEF Onward, Given
  <2> QED BY <2>1, <2>2, <2>3, <2>4 DEF RowStays, CacheFollows, DisownedFits
<1>2. ASSUME NEW i \in Intents
      PROVE  Copies(i)' \subseteq Copies(i)
  BY DEF NoneNew, Copies
<1>3. Counted'
  <2> SUFFICES ASSUME NEW i \in Intents, ~Condemned(i)'
               PROVE  /\ rows'[i] # NoRow => Cardinality(Copies(i))' <= rows'[i].replicas
                      /\ Shown(i)' \/ (PushDelay = "settle" /\ \E c \in Controls : Awaits(c, i)')
    BY DEF Counted
  <2>1. ~Condemned(i)
    BY DEF Onward
  <2>2. rows'[i] # NoRow => Cardinality(Copies(i)') <= rows'[i].replicas
    <3>1. CASE rows[i] = NoRow
      <4>1. Copies(i) = {}
        BY <3>1 DEF Copies, DupInv, Fleet
      <4>2. Copies(i)' = {}
        BY <1>2, <4>1
      <4>3. rows'[i] # NoRow => rows'[i].replicas \in Nat
        BY StoreAssumption DEF Inv, StoreInv, StoreTypeOK, Row
      <4> QED BY <4>2, <4>3, FS_EmptySet
    <3>2. CASE rows[i] # NoRow
      <4>1. rows'[i].replicas = rows[i].replicas /\ Cardinality(Copies(i)) <= rows[i].replicas
        BY <2>1, <3>2 DEF Onward, RowStays, DupInv, Counted
      <4>2. IsFiniteSet(Copies(i)) /\ Cardinality(Copies(i)) \in Nat
        BY CopiesFinite
      <4>3. Cardinality(Copies(i)') <= Cardinality(Copies(i)) /\ Cardinality(Copies(i)') \in Nat
        BY <1>2, <4>2, FS_Subset, FS_CardinalityType
      <4>4. rows'[i] # NoRow => rows'[i].replicas \in Nat
        BY StoreAssumption DEF Inv, StoreInv, StoreTypeOK, Row
      <4> QED BY <4>1, <4>2, <4>3, <4>4
    <3> QED BY <3>1, <3>2
  <2>3. ASSUME Shown(i)
        PROVE  Shown(i)'
    <3> SUFFICES ASSUME NEW k \in Copies(i)'
                 PROVE  cache'[k] # NoInst /\ cache'[k].owner = i
      BY DEF Shown
    <3>1. k \in Slots /\ inst'[k] # NoInst /\ inst'[k].owner = i /\ cache[k] # NoInst
      BY <1>2, <2>3 DEF Copies, Shown
    <3>2. ~Given(k)'
      BY <3>1 DEF Given
    <3> QED BY <3>1, <3>2 DEF CacheFollows, Identifies
  <2> QED BY <2>1, <2>2, <2>3 DEF DupInv, Counted, StillAwaited
<1>4. Apart'
  BY DEF NoneNew, DupInv, Apart
<1> QED BY <1>1, <1>3, <1>4

(* Entries of the cache that stay, or are made new from the hosts. *)
LEMMA CacheRefreshed ==
  ASSUME DupInv, NoneNew, Onward, \A k \in Slots : cache'[k] \in {cache[k], inst'[k]}
  PROVE  CacheFollows
<1> SUFFICES ASSUME NEW k \in Slots, inst'[k] # NoInst
             PROVE  /\ cache'[k] # NoInst => Identifies(cache[k], k)'
                    /\ cache[k] # NoInst => cache'[k] # NoInst
  BY DEF CacheFollows
<1>1. /\ inst[k] # NoInst /\ inst'[k].owner = inst[k].owner
      /\ inst'[k].alias = inst[k].alias /\ inst'[k].host = inst[k].host
  BY DEF NoneNew
<1>2. CASE cache'[k] = inst'[k]
  BY <1>2 DEF Identifies
<1>3. CASE cache'[k] = cache[k] /\ cache[k] # NoInst
  <2>1. Identifies(cache[k], k)
    BY <1>1, <1>3 DEF DupInv, Fleet
  <2>2. Given(k) => Given(k)'
    BY <1>1 DEF Onward, Given
  <2> QED BY <1>1, <1>3, <2>1, <2>2 DEF Identifies
<1> QED BY <1>2, <1>3

(* A pass that reads nothing new. *)
LEMMA OnwardPass ==
  ASSUME UNCHANGED <<rows, txn>>,
         \A c \in Controls, i \in Intents :
           Watches(c, i)' => Watches(c, i) /\ job'[c].snap[i] = job[c].snap[i]
  PROVE  Onward
<1>1. \A i \in Intents : RowStays(i) /\ (Doomed(i) => Doomed(i)')
  BY DEF RowStays, Doomed
<1>2. \A i \in Intents : Condemned(i) => Condemned(i)'
  BY <1>1 DEF Condemned
<1> QED BY <1>1, <1>2 DEF Onward

LEMMA ReadsKept ==
  ASSUME NEW c \in Controls, Reads(c), Onward,
         \A i \in Intents : Watches(c, i)' => Watches(c, i) /\ job'[c].snap[i] = job[c].snap[i]
  PROVE  Reads(c)'
<1> SUFFICES ASSUME NEW i \in Intents, Watches(c, i)'
             PROVE  /\ rows'[i] # NoRow
                    /\ job'[c].snap[i].alias = rows'[i].alias
                    /\ job'[c].snap[i].replicas = rows'[i].replicas
                    /\ job'[c].snap[i].phase = "deleting" => Doomed(i)'
  BY DEF Reads
<1> QED BY DEF Reads, Onward, RowStays

LEMMA PlansOver ==
  ASSUME NEW c \in Controls,
         pc'[c] \in {"idle", "choose", "enter", "status", "commit", "unlock", "delete", "start",
                     "reobserve"},
         pc'[c] \in {"delete", "start", "reobserve"} => <<c, job'[c].intent>> \notin backoff'
  PROVE  Plans(c)'
BY DEF Plans, Acting


(* A step of a pass that touches no host. *)
Still ==
  /\ UNCHANGED <<rows, txn, inst, cache>>
  /\ disowned' \subseteq disowned

LEMMA StillKeeps ==
  ASSUME Inv', DupInv, Still, Onward, StillAwaited
  PROVE  Fleet' /\ Counted' /\ Apart'
<1>1. NoneNew /\ \A k \in Slots : cache'[k] = cache[k]
  BY DEF Still, NoneNew
<1>2. CacheFollows
  BY <1>1, CacheRefreshed
<1>3. DisownedFits
  BY DEF Still, DisownedFits
<1> QED BY <1>1, <1>2, <1>3, FleetKept

(* With one replica, what holds of its pass holds of every pass. *)
LEMMA OnePass ==
  ASSUME OneReplica, NEW c \in Controls, Fleet', Counted', Apart',
         Reads(c)', Session(c)', Plans(c)'
  PROVE  DupInv'
BY DEF OneReplica, DupInv

LEMMA SessionIdle ==
  ASSUME DupInv, NEW c \in Controls, pc[c] # "commit", pc'[c] # "commit", UNCHANGED txn
  PROVE  Session(c)'
BY DEF DupInv, Session

(* The intents a pass still watches, when it takes up or leaves one. *)
LEMMA StillAwaitedIf ==
  ASSUME \A c \in Controls, i \in Intents : Awaits(c, i) => Awaits(c, i)'
  PROVE  StillAwaited
BY DEF StillAwaited

LEMMA ListIntentsDup ==
  ASSUME OneReplica, Inv, Inv', DupInv, NEW c \in Controls, ListIntents(c)
  PROVE  DupInv'
<1> DEFINE active == {i \in Intents : Active(i)}
           snap == [i \in Intents |-> IF i \in active THEN rows[i] ELSE NoRow]
<1>1. Still /\ UNCHANGED <<settle, backoff>> /\ pc[c] = "idle"
  BY DEF ListIntents, Still
<1>2. /\ job'[c].todo = active /\ job'[c].snap = snap
      /\ pc'[c] \in {"idle", "choose"} /\ pc[c] = "idle"
      /\ \A d \in Controls \ {c} : job'[d] = job[d] /\ pc'[d] = pc[d]
  BY DEF ListIntents, Goto, Inv, ControlOK, NoJob
<1>3. \A i \in active : rows[i] # NoRow /\ ~rows[i].retired /\ snap[i] = rows[i] /\ rows'[i] = rows[i]
  BY <1>1 DEF Active, Still
<1>4. \A i \in Intents : Doomed(i) <=> Doomed(i)'
  BY <1>1 DEF Doomed, Still
<1>5. \A i \in active : rows[i].phase = "deleting" <=> Doomed(i)
  BY <1>1, <1>3 DEF Doomed, DupInv, Session, OneReplica
<1>6. \A i \in Intents : Watches(c, i)' => i \in active /\ job'[c].snap[i] = rows[i]
  BY <1>2, <1>3 DEF Watches, InSection
<1>7. Onward
  BY <1>1, <1>2, <1>4, <1>5, <1>6 DEF Onward, RowStays, Condemned, OneReplica, Still
<1>8. Reads(c)'
  BY <1>1, <1>3, <1>4, <1>5, <1>6 DEF Reads, Still
<1>9. Session(c)' /\ Plans(c)'
  BY <1>1, <1>2, SessionIdle, PlansOver DEF Still
<1>10. StillAwaited
  BY <1>1, <1>2, StillAwaitedIf DEF Awaits
<1> QED BY <1>1, <1>7, <1>8, <1>9, <1>10, StillKeeps, OnePass

(* A pass that leaves intent i, or takes it up. *)
LEMMA TurnsTo ==
  ASSUME OneReplica, Inv, Inv', DupInv, NEW c \in Controls, Still, UNCHANGED <<settle, backoff>>,
         pc[c] \notin {"start", "reobserve", "commit"},
         pc'[c] \in {"idle", "choose", "enter", "unlock"},
         \A i \in Intents : Watches(c, i)' => Watches(c, i) /\ job'[c].snap[i] = job[c].snap[i]
  PROVE  DupInv'
<1>1. Onward
  BY OnwardPass DEF OneReplica, Still
<1>2. Reads(c)'
  BY <1>1, ReadsKept DEF DupInv
<1>3. Session(c)' /\ Plans(c)'
  BY SessionIdle, PlansOver DEF Still
<1>4. StillAwaited
  BY StillAwaitedIf DEF Awaits, OneReplica
<1> QED BY <1>1, <1>2, <1>3, <1>4, StillKeeps, OnePass

LEMMA RestWatches ==
  ASSUME Inv, NEW c \in Controls, NEW i \in Intents, job' = [job EXCEPT ![c] = Rest(c, i)],
         pc'[c] \in {"idle", "choose"}
  PROVE  \A j \in Intents : Watches(c, j)' => Watches(c, j) /\ job'[c].snap[j] = job[c].snap[j]
<1>1. job'[c].todo = job[c].todo \ {i} /\ job'[c].snap = [job[c].snap EXCEPT ![i] = NoRow]
  BY DEF Rest, NoJob, Inv, ControlOK
<1>2. job[c].snap \in [Intents -> Row \union {NoRow}]
  BY DEF Inv, ControlOK, Job
<1> QED BY <1>1, <1>2 DEF Watches, InSection

LEMMA TryLockDup ==
  ASSUME OneReplica, Inv, Inv', DupInv, NEW c \in Controls, NEW i \in Intents, TryLock(c, i)
  PROVE  DupInv'
<1>1. Still /\ UNCHANGED <<settle, backoff>> /\ pc[c] = "choose"
  BY DEF TryLock, Still
<1>2. CASE i \in lock
  <2>1. pc'[c] \in {"idle", "choose"} /\ job' = [job EXCEPT ![c] = Rest(c, i)]
    BY <1>2 DEF TryLock, Goto, After, Inv, ControlOK
  <2> QED BY <1>1, <2>1, RestWatches, TurnsTo
<1>3. CASE i \notin lock
  <2> DEFINE j == [job[c] EXCEPT !.todo = @ \ {i}, !.intent = i]
  <2>1. job[c] \in Job
    BY DEF Inv, ControlOK
  <2>2. j.todo = job[c].todo \ {i} /\ j.intent = i /\ j.snap = job[c].snap
    BY <2>1 DEF Job
  <2>3. job'[c] = j /\ pc'[c] = "enter" /\ i \in job[c].todo
    BY <1>3 DEF TryLock, Goto, Inv, ControlOK
  <2>4. \A k \in Intents : Watches(c, k)' => Watches(c, k) /\ job'[c].snap[k] = job[c].snap[k]
    BY <2>2, <2>3 DEF Watches, InSection
  <2> QED BY <1>1, <2>3, <2>4, TurnsTo
<1> QED BY <1>2, <1>3

LEMMA UnlockDup ==
  ASSUME OneReplica, Inv, Inv', DupInv, NEW c \in Controls, Unlock(c)
  PROVE  DupInv'
<1>1. PICK i \in Intents : i = job[c].intent
  BY DEF Unlock, Inv, ControlOK, Pass
<1>2. Still /\ UNCHANGED <<settle, backoff>> /\ pc[c] = "unlock"
  BY DEF Unlock, Still
<1>3. job' = [job EXCEPT ![c] = Rest(c, i)] /\ pc'[c] \in {"idle", "choose"}
  BY <1>1 DEF Unlock, Goto, After, Inv, ControlOK
<1> QED BY <1>2, <1>3, RestWatches, TurnsTo

LEMMA EnterDup ==
  ASSUME OneReplica, Inv, Inv', DupInv, NEW c \in Controls, Enter(c)
  PROVE  DupInv'
<1> DEFINE i == job[c].intent
           settling == <<c, i>> \in settle
           deleting == Active(i) /\ rows[i].phase = "deleting"
           row == IF settling /\ deleting THEN rows[i] ELSE job[c].snap[i]
<1>1. Still /\ UNCHANGED <<settle, backoff>> /\ pc[c] = "enter"
  BY DEF Enter, Still
<1>2. job[c] \in Job /\ i \in Intents
  BY DEF Enter, Inv, ControlOK, Pass
<1>3. CASE Goto(c, "unlock") /\ job' = job
  <2>1. pc'[c] = "unlock" /\ job'[c] = job[c]
    BY <1>3 DEF Goto, Inv, ControlOK
  <2>2. \A k \in Intents : Watches(c, k)' => Watches(c, k) /\ job'[c].snap[k] = job[c].snap[k]
    BY <1>1, <2>1 DEF Watches, InSection
  <2> QED BY <1>1, <2>1, <2>2, TurnsTo
<1>4. CASE /\ ~ (<<c, i>> \in backoff) /\ Goto(c, "observe")
           /\ job' = [job EXCEPT ![c] = [job[c] EXCEPT
                 !.refresh = settling /\ ~deleting,
                 !.snap[i] = IF settling /\ deleting THEN rows[i] ELSE @]]
  <2>1. /\ job'[c].todo = job[c].todo /\ job'[c].intent = i
        /\ job'[c].snap = [job[c].snap EXCEPT ![i] = row] /\ pc'[c] = "observe"
        /\ job'[c].refresh = (settling /\ ~deleting)
    BY <1>2, <1>4 DEF Goto, Inv, ControlOK, Job
  <2>2. /\ job'[c].snap[i] = row
        /\ \A k \in Intents \ {i} : job'[c].snap[k] = job[c].snap[k]
    BY <1>2, <2>1 DEF Job
  <2>3. \A k \in Intents : Watches(c, k)' => Watches(c, k)
    BY <1>1, <2>1 DEF Watches, InSection
  <2>4. \A k \in Intents : RowStays(k) /\ (Doomed(k) <=> Doomed(k)')
    BY <1>1 DEF RowStays, Doomed, Still
  <2>5. deleting => Doomed(i)
    BY <1>1 DEF Doomed, Active, DupInv, Session, OneReplica
  <2>6. Watches(c, i)
    BY <1>1 DEF Watches, InSection
  <2>7. row.phase # "deleting" => row = job[c].snap[i]
    OBVIOUS
  <2>8. \A k \in Intents : Condemned(k) => Condemned(k)'
    BY <2>2, <2>3, <2>4, <2>6, <2>7 DEF Condemned, OneReplica
  <2>9. Onward
    BY <2>4, <2>8 DEF Onward
  <2>10. Reads(c)'
    <3> SUFFICES ASSUME NEW k \in Intents, Watches(c, k)'
                 PROVE  /\ rows'[k] # NoRow
                        /\ job'[c].snap[k].alias = rows'[k].alias
                        /\ job'[c].snap[k].replicas = rows'[k].replicas
                        /\ job'[c].snap[k].phase = "deleting" => Doomed(k)'
      BY DEF Reads
    <3>1. /\ rows[k] # NoRow /\ rows'[k] = rows[k]
          /\ job[c].snap[k].alias = rows[k].alias /\ job[c].snap[k].replicas = rows[k].replicas
          /\ job[c].snap[k].phase = "deleting" => Doomed(k)
      BY <1>1, <2>3 DEF DupInv, Reads, Still
    <3>2. CASE k # i
      BY <2>2, <2>4, <3>1, <3>2
    <3>3. CASE k = i
      BY <2>2, <2>4, <2>5, <3>1, <3>3
    <3> QED BY <3>2, <3>3
  <2>11. Session(c)'
    BY <1>1, <2>1, SessionIdle DEF Still
  <2>12. ~job'[c].refresh /\ row.phase # "deleting" => ~settling
    BY <2>1 DEF Active
  <2>13. Plans(c)'
    BY <1>1, <1>4, <2>1, <2>2, <2>12 DEF Plans, Acting
  <2>14. StillAwaited
    BY <1>1, StillAwaitedIf DEF Awaits, OneReplica
  <2> QED BY <1>1, <2>9, <2>10, <2>11, <2>13, <2>14, StillKeeps, OnePass
<1> QED BY <1>3, <1>4 DEF Enter

(* What an action of _diff says. *)
LEMMA DiffMeans ==
  ASSUME NEW row, NEW S, NEW fit, NEW a \in Diff(row, S, fit)
  PROVE  /\ a.type = "disown" => row.phase = "deleting" /\ a.slot \in S
         /\ a.type = "create" =>
              /\ row.phase # "deleting"
              /\ Cardinality(S) < row.replicas
              /\ a.host \in Candidates(row.alias, fit)
<1>1. \A T : \A b \in Stops(T) : b.type = "stop"
  BY DEF Stops, Action
<1>2. CASE row.phase = "deleting" /\ row.orphan
  BY <1>2 DEF Diff, Action
<1>3. CASE \E T : a \in Stops(T)
  BY <1>1, <1>3
<1>4. CASE a \in {Action("recreate", k, cache[k].host) : k \in Broken(S)}
  BY <1>4 DEF Action
<1>5. CASE /\ row.phase # "deleting" /\ Cardinality(S) < row.replicas
           /\ a \in {Action("create", "none", h) : h \in Candidates(row.alias, fit)}
  BY <1>5 DEF Action
<1> HIDE DEF Stops
<1> QED BY <1>2, <1>3, <1>4, <1>5 DEF Diff

(* A pass that finds fewer than it should has counted all there are. *)
LEMMA ObserveCounts ==
  ASSUME OneReplica, PushedInTime, PushDelay = "none" => LeakInv, Inv, DupInv,
         NEW c \in Controls, pc[c] = "observe", ~job[c].refresh,
         NEW i \in Intents, i = job[c].intent, NEW row, row = job[c].snap[i],
         row.phase # "deleting", Cardinality(Managed(i, row.alias)) < row.replicas,
         NEW fit, NEW h \in Candidates(row.alias, fit)
  PROVE  Room(row, i, h)
<1> DEFINE S == Managed(i, row.alias)
<1>1. Watches(c, i) /\ ~Condemned(i)
  BY DEF Watches, InSection, Condemned
<1>2. Shown(i)
  <2>1. ~Awaits(c, i)
    BY DEF Awaits, DupInv, Plans
  <2> QED BY <1>1, <2>1 DEF DupInv, Counted, OneReplica
<1>3. rows[i] # NoRow /\ row.alias = rows[i].alias /\ row.replicas = rows[i].replicas
  BY <1>1 DEF DupInv, Reads
<1>4. ASSUME NEW k \in Slots, inst[k] # NoInst, cache[k] # NoInst
      PROVE  cache[k].host = inst[k].host /\ cache[k].alias = inst[k].alias
  BY <1>4 DEF DupInv, Fleet, Identifies
<1>5. Copies(i) \subseteq S
  <2> SUFFICES ASSUME NEW k \in Copies(i) PROVE k \in S
    OBVIOUS
  <2>1. k \in Slots /\ inst[k] # NoInst /\ inst[k].owner = i /\ cache[k] # NoInst /\ cache[k].owner = i
    BY <1>2 DEF Copies, Shown
  <2>2. inst[k].alias = row.alias /\ k \notin disowned
    BY <1>1, <1>3, <2>1 DEF DupInv, Fleet, Given
  <2> QED BY <1>4, <2>1, <2>2 DEF Managed
<1>6. S \subseteq Slots /\ IsFiniteSet(S)
  BY ReconcilerAssumption, FS_Subset DEF Managed
<1>7. Cardinality(Copies(i)) <= Cardinality(S) /\ Cardinality(Copies(i)) \in Nat /\ Cardinality(S) \in Nat
  BY <1>5, <1>6, FS_Subset, FS_CardinalityType
<1>8. row.replicas \in Nat
  BY <1>3, Replicas
<1>9. ASSUME NEW k \in Slots, inst[k] # NoInst, inst[k].alias = row.alias, inst[k].host = h
      PROVE  FALSE
  <2>1. cache[k] # NoInst
    <3>1. CASE PushDelay = "none"
      BY <1>9, <3>1 DEF LeakInv, Mirrored
    <3>2. CASE \A j, l \in Intents : j = l
      <4>1. k \in Copies(i)
        BY <1>9, <3>2 DEF Copies, DupInv, Fleet
      <4> QED BY <1>2, <4>1 DEF Shown
    <3> QED BY <3>1, <3>2 DEF PushedInTime
  <2> QED BY <1>4, <1>9, <2>1 DEF Candidates
<1> HIDE DEF S
<1>10. Cardinality(Copies(i)) < row.replicas
  BY <1>7, <1>8 DEF S
<1> QED BY <1>9, <1>10 DEF Room

LEMMA ObserveDup ==
  ASSUME OneReplica, PushedInTime, PushDelay = "none" => LeakInv, Inv, Inv', DupInv,
         NEW c \in Controls, Observe(c)
  PROVE  DupInv'
<1>1. Still /\ UNCHANGED <<settle, backoff>> /\ pc[c] = "observe"
  BY DEF Observe, Still
<1>2. PICK i \in Intents : i = job[c].intent
  BY DEF Observe, Inv, ControlOK, Pass
<1> DEFINE row == job[c].snap[i]
           S == Managed(i, row.alias)
           looked == [job[c] EXCEPT !.seen = S, !.ready = Running(S)]
<1>3. /\ job[c] \in Job /\ looked.todo = job[c].todo /\ looked.intent = i
      /\ looked.snap = job[c].snap
  BY <1>2 DEF Inv, ControlOK, Job
<1>4. <<c, i>> \notin backoff
  BY <1>1, <1>2 DEF DupInv, Plans
<1>5. ASSUME job'[c].todo = job[c].todo, job'[c].intent = i, job'[c].snap = job[c].snap,
             pc'[c] \in {"act", "status"}, Plans(c)'
      PROVE  DupInv'
  <2>1. \A k \in Intents : Watches(c, k)' => Watches(c, k) /\ job'[c].snap[k] = job[c].snap[k]
    BY <1>1, <1>2, <1>5 DEF Watches, InSection
  <2>2. Onward
    BY <1>1, <2>1, OnwardPass DEF OneReplica, Still
  <2>3. Reads(c)'
    BY <2>1, <2>2, ReadsKept DEF DupInv
  <2>4. Session(c)'
    BY <1>1, <1>5, SessionIdle DEF Still
  <2>5. StillAwaited
    BY <1>1, StillAwaitedIf DEF Awaits, OneReplica
  <2> QED BY <1>1, <1>5, <2>2, <2>3, <2>4, <2>5, StillKeeps, OnePass
<1>6. CASE job' = [job EXCEPT ![c] = looked] /\ Goto(c, "status")
  <2>1. job'[c] = looked /\ pc'[c] = "status"
    BY <1>6 DEF Goto, Inv, ControlOK
  <2>2. Plans(c)'
    BY <2>1, PlansOver
  <2> QED BY <1>3, <1>5, <2>1, <2>2
<1>7. ASSUME ~job[c].refresh, NEW fit, NEW a \in Diff(row, S, fit),
             job' = [job EXCEPT ![c] = [looked EXCEPT !.act = a]], Goto(c, "act")
      PROVE  DupInv'
  <2> DEFINE j == [looked EXCEPT !.act = a]
  <2>1. /\ j.todo = job[c].todo /\ j.intent = i /\ j.snap = job[c].snap /\ j.act = a
    BY <1>2, <1>3 DEF Job
  <2>2. job'[c] = j /\ pc'[c] = "act"
    BY <1>7 DEF Goto, Inv, ControlOK
  <2> HIDE DEF j, looked
  <2>3. /\ a.type = "disown" => row.phase = "deleting" /\ a.slot \in S
        /\ a.type = "create" =>
             /\ row.phase # "deleting" /\ Cardinality(S) < row.replicas
             /\ a.host \in Candidates(row.alias, fit)
    BY <1>7, DiffMeans
  <2>4. a.type = "create" => Room(row, i, a.host)
    BY <1>1, <1>2, <1>7, <2>3, ObserveCounts
  <2>5. a.type = "disown" /\ inst[a.slot] # NoInst => inst[a.slot].owner = i
    <3>1. a.type = "disown" => a.slot \in Slots /\ cache[a.slot] # NoInst /\ cache[a.slot].owner = i
      BY <2>3 DEF Managed
    <3>2. i # "none"
      BY StoreAssumption
    <3> QED BY <3>1, <3>2 DEF DupInv, Fleet, Identifies
  <2>6. \A r, h : Room(r, i, h) => Room(r, i, h)'
    BY <1>1 DEF Room, Copies, Still
  <2>7. /\ pc'[c] = "act" /\ job'[c].todo = job[c].todo /\ job'[c].intent = i
        /\ job'[c].snap = job[c].snap /\ job'[c].act = a /\ backoff' = backoff /\ inst' = inst
    BY <1>1, <2>1, <2>2 DEF Still
  <2> HIDE DEF S
  <2>8. Plans(c)'
    BY <1>4, <2>3, <2>4, <2>5, <2>6, <2>7 DEF Plans, Acting
  <2> QED BY <1>5, <2>7, <2>8
<1>8. PICK fit : LET acts == IF job[c].refresh THEN {} ELSE Diff(row, S, fit) IN
        \/ job' = [job EXCEPT ![c] = looked] /\ Goto(c, "status")
        \/ \E a \in acts : job' = [job EXCEPT ![c] = [looked EXCEPT !.act = a]] /\ Goto(c, "act")
  BY <1>2 DEF Observe
<1> HIDE DEF looked, S, row
<1> QED BY <1>6, <1>7, <1>8

(* What a host does with an instance, and how the cache learns of it. *)
LEMMA HostMoves ==
  ASSUME HostOK, NEW k \in Slots, NEW v, HostSets([inst EXCEPT ![k] = v]),
         v # NoInst => /\ inst[k] # NoInst
                       /\ v.host = inst[k].host /\ v.alias = inst[k].alias /\ v.owner = inst[k].owner
  PROVE  NoneNew /\ \A l \in Slots : cache'[l] \in {cache[l], inst'[l]}
<1>1. inst'[k] = v /\ \A l \in Slots \ {k} : inst'[l] = inst[l]
  BY DEF HostSets, HostOK, View
<1>2. \A l \in Slots : cache'[l] \in {cache[l], inst'[l]}
  BY DEF HostSets
<1> QED BY <1>1, <1>2 DEF NoneNew

LEMMA StateMoves ==
  ASSUME HostOK, NEW k \in Slots, inst[k] # NoInst,
         NEW state \in {"stopped", "starting", "running", "failed"},
         HostSets([inst EXCEPT ![k].state = state])
  PROVE  NoneNew /\ \A l \in Slots : cache'[l] \in {cache[l], inst'[l]}
<1> DEFINE v == [inst[k] EXCEPT !.state = state]
<1>1. inst[k] \in Inst
  BY DEF HostOK, View
<1>2. v # NoInst /\ v.host = inst[k].host /\ v.alias = inst[k].alias /\ v.owner = inst[k].owner
  BY <1>1, NoInstIsNotInst DEF Inst
<1>3. HostSets([inst EXCEPT ![k] = v])
  OBVIOUS
<1> HIDE DEF v
<1> QED BY <1>2, <1>3, HostMoves

(* An action that goes on or ends, and creates nothing. *)
LEMMA ActionDup ==
  ASSUME OneReplica, Inv, Inv', DupInv, NEW c \in Controls, pc[c] \in Acting,
         pc'[c] \in {"delete", "reobserve", "status"}, UNCHANGED <<rows, txn, job, settle>>,
         NoneNew, CacheFollows, DisownedFits,
         backoff \ {<<c, job[c].intent>>} \subseteq backoff',
         pc'[c] # "status" => backoff' = backoff,
         pc[c] \in {"start", "reobserve"} =>
           pc'[c] = "reobserve" \/ <<c, job[c].intent>> \in backoff'
  PROVE  DupInv'
<1>1. <<c, job[c].intent>> \notin backoff
  BY DEF DupInv, Plans
<1>2. \A i \in Intents : Watches(c, i)' => Watches(c, i) /\ job'[c].snap[i] = job[c].snap[i]
  BY DEF Watches, InSection, Acting
<1>3. Onward
  BY <1>2, OnwardPass DEF OneReplica
<1>4. Reads(c)'
  BY <1>2, <1>3, ReadsKept DEF DupInv
<1>5. Session(c)'
  BY SessionIdle DEF Acting
<1>6. Plans(c)'
  BY <1>1, PlansOver
<1>7. StillAwaited
  <2>1. ASSUME NEW i \in Intents, Awaits(c, i)
        PROVE  Awaits(c, i)'
    BY <1>1, <2>1 DEF Awaits
  <2> QED BY <2>1, StillAwaitedIf DEF OneReplica
<1> QED BY <1>3, <1>4, <1>5, <1>6, <1>7, FleetKept, OnePass

(* The same, when the host changes, loses or keeps the instance.            *)
LEMMA HostActionDup ==
  ASSUME OneReplica, Inv, Inv', DupInv, NEW c \in Controls, pc[c] \in Acting,
         pc'[c] \in {"delete", "reobserve", "status"}, UNCHANGED <<rows, txn, job, settle>>,
         disowned' \subseteq disowned,
         UNCHANGED hostVars \/ (NoneNew /\ \A l \in Slots : cache'[l] \in {cache[l], inst'[l]}),
         backoff \ {<<c, job[c].intent>>} \subseteq backoff',
         pc'[c] # "status" => backoff' = backoff,
         pc[c] \in {"start", "reobserve"} =>
           pc'[c] = "reobserve" \/ <<c, job[c].intent>> \in backoff'
  PROVE  DupInv'
<1>1. NoneNew /\ \A l \in Slots : cache'[l] \in {cache[l], inst'[l]}
  BY DEF hostVars, NoneNew
<1>2. \A i \in Intents : Watches(c, i)' => Watches(c, i) /\ job'[c].snap[i] = job[c].snap[i]
  BY DEF Watches, InSection, Acting
<1>3. CacheFollows
  BY <1>1, <1>2, OnwardPass, CacheRefreshed DEF OneReplica
<1>4. DisownedFits
  BY DEF DisownedFits
<1> QED BY <1>1, <1>3, <1>4, ActionDup

(* How an action ends. *)
LEMMA Ends ==
  ASSUME Inv, NEW c \in Controls,
         Fails(c) \/ Succeeds(c) \/ Proceeds(c, "delete") \/ Proceeds(c, "reobserve")
  PROVE  /\ UNCHANGED <<rows, txn, job, settle>>
         /\ pc'[c] \in {"delete", "reobserve", "status"}
         /\ backoff \ {<<c, job[c].intent>>} \subseteq backoff'
         /\ pc'[c] # "status" => backoff' = backoff
         /\ Fails(c) => <<c, job[c].intent>> \in backoff'
         /\ Proceeds(c, "reobserve") => pc'[c] = "reobserve"
BY DEF Fails, Succeeds, Proceeds, Goto, Inv, ControlOK

LEMMA StopInstanceDup ==
  ASSUME OneReplica, Inv, Inv', DupInv, NEW c \in Controls, StopInstance(c)
  PROVE  DupInv'
<1>1. pc[c] = "act" /\ pc[c] \in Acting
  BY DEF StopInstance, Acting
<1>2. PICK k \in Slots : k = job[c].act.slot
  BY DEF StopInstance, Inv, ControlOK, Pass, Known
<1>3. disowned' = disowned /\ (Fails(c) \/ Proceeds(c, "delete"))
  BY DEF StopInstance, Fails, Proceeds
<1>4. UNCHANGED hostVars \/ (inst[k] # NoInst /\ HostSets([inst EXCEPT ![k].state = "stopped"]))
  BY <1>2 DEF StopInstance, hostVars
<1>5. UNCHANGED hostVars \/ (NoneNew /\ \A l \in Slots : cache'[l] \in {cache[l], inst'[l]})
  BY <1>4, StateMoves DEF Inv
<1> QED BY <1>1, <1>3, <1>5, Ends, HostActionDup

LEMMA DeleteInstanceDup ==
  ASSUME OneReplica, Inv, Inv', DupInv, NEW c \in Controls, DeleteInstance(c)
  PROVE  DupInv'
<1>1. pc[c] = "delete" /\ pc[c] \in Acting
  BY DEF DeleteInstance, Acting
<1>2. PICK k \in Slots : k = job[c].act.slot
  BY DEF DeleteInstance, Inv, ControlOK, Pass, Known
<1>3. disowned' = disowned /\ (Fails(c) \/ Succeeds(c))
  BY DEF DeleteInstance, Fails
<1>4. UNCHANGED hostVars \/ (NoneNew /\ \A l \in Slots : cache'[l] \in {cache[l], inst'[l]})
  BY <1>2, HostMoves DEF DeleteInstance, Inv
<1> QED BY <1>1, <1>3, <1>4, Ends, HostActionDup

LEMMA StartInstanceDup ==
  ASSUME OneReplica, Inv, Inv', DupInv, NEW c \in Controls, StartInstance(c)
  PROVE  DupInv'
<1>1. pc[c] \in {"start", "act"} /\ pc[c] \in Acting
  BY DEF StartInstance, Acting
<1>2. PICK k \in Slots : k = job[c].act.slot
  BY DEF StartInstance, Inv, ControlOK, Pass, Known
<1>3. /\ disowned' = disowned
      /\ Fails(c) \/ Succeeds(c) \/ Proceeds(c, "delete") \/ Proceeds(c, "reobserve")
  BY DEF StartInstance, Fails, Proceeds
<1>4. pc[c] = "start" => Fails(c) \/ Proceeds(c, "reobserve")
  BY DEF StartInstance, Inv, ControlOK, Pass
<1>5. UNCHANGED hostVars \/ (inst[k] # NoInst /\ HostSets(Started(k)))
  BY <1>2 DEF StartInstance, hostVars
<1>6. inst[k] # NoInst => inst[k].state \in {"stopped", "starting", "running", "failed"}
  BY DEF Inv, HostOK, View, Inst
<1>7. PICK s : s = IF inst[k].state \in {"stopped", "failed"} THEN "starting" ELSE inst[k].state
  OBVIOUS
<1>8. Started(k) = [inst EXCEPT ![k].state = s]
  BY <1>7 DEF Started
<1>9. UNCHANGED hostVars \/ (NoneNew /\ \A l \in Slots : cache'[l] \in {cache[l], inst'[l]})
  BY <1>5, <1>6, <1>7, <1>8, StateMoves DEF Inv
<1> QED BY <1>1, <1>3, <1>4, <1>9, Ends, HostActionDup

LEMMA ActionTimeoutDup ==
  ASSUME OneReplica, Inv, Inv', DupInv, NEW c \in Controls, ActionTimeout(c)
  PROVE  DupInv'
<1>1. pc[c] \in Acting /\ Fails(c) /\ UNCHANGED hostVars /\ disowned' = disowned
  BY DEF ActionTimeout, Acting, Fails
<1> QED BY <1>1, Ends, HostActionDup

(* What was disowned is not to come back. *)
LEMMA DisownsForGood ==
  ASSUME OneReplica, DupInv, NEW c \in Controls, pc[c] \in {"disown", "tombstone"}, Inv,
         inst[job[c].act.slot] # NoInst
  PROVE  Given(job[c].act.slot)
<1>1. PICK i \in Intents : i = job[c].intent
  BY DEF Inv, ControlOK, Pass
<1>2. inst[job[c].act.slot].owner = i /\ job[c].snap[i].phase = "deleting"
  BY <1>1 DEF DupInv, Plans, Inv, ControlOK, Pass
<1>3. Watches(c, i) /\ Doomed(i)
  BY <1>1, <1>2 DEF Watches, InSection, DupInv, Reads
<1>4. Condemned(i)
  BY <1>2, <1>3 DEF Condemned, OneReplica
<1> QED BY <1>2, <1>4 DEF Given

LEMMA ReadForDisownDup ==
  ASSUME OneReplica, Inv, Inv', DupInv, NEW c \in Controls, ReadForDisown(c)
  PROVE  DupInv'
<1> DEFINE a == job[c].act
           view == [k \in Slots |->
                      IF cache[k] # NoInst /\ cache[k].host = a.host THEN cache[k] ELSE NoInst]
           j == [job[c] EXCEPT !.view = view]
<1>1. pc[c] = "act" /\ pc[c] \in Acting /\ a.type = "disown" /\ UNCHANGED <<inst, cache>>
  BY DEF ReadForDisown, Acting
<1>2. CASE Succeeds(c) /\ UNCHANGED disowned
  BY <1>1, <1>2, Ends, HostActionDup DEF hostVars
<1>3. CASE /\ job' = [job EXCEPT ![c] = j] /\ Goto(c, "disown")
           /\ UNCHANGED <<rows, txn, lock, backoff, settle, disowned>>
  <2>1. /\ job'[c].todo = job[c].todo /\ job'[c].intent = job[c].intent
        /\ job'[c].snap = job[c].snap /\ job'[c].act = a /\ job'[c].view = view
        /\ pc'[c] = "disown"
    BY <1>3 DEF Inv, ControlOK, Job, Goto
  <2>2. Still
    BY <1>1, <1>3 DEF Still
  <2>3. \A k \in Intents : Watches(c, k)' => Watches(c, k) /\ job'[c].snap[k] = job[c].snap[k]
    BY <1>1, <2>1 DEF Watches, InSection
  <2>4. Onward
    BY <2>2, <2>3, OnwardPass DEF OneReplica, Still
  <2>5. Reads(c)'
    BY <2>3, <2>4, ReadsKept DEF DupInv
  <2>6. Session(c)'
    BY <1>1, <2>1, <2>2, SessionIdle DEF Still
  <2>7. StillAwaited
    BY <1>1, <1>3, <2>1, StillAwaitedIf DEF Awaits, OneReplica
  <2>8. Fleet' /\ Counted' /\ Apart'
    BY <2>2, <2>4, <2>7, StillKeeps
  <2>9. \A k \in Slots : view[k] # NoInst => view[k] = cache[k]
    OBVIOUS
  <2> HIDE DEF view
  <2>10. \A k \in Slots : view[k] # NoInst /\ inst[k] # NoInst => Identifies(view[k], k)
    BY <2>9 DEF DupInv, Fleet
  <2>11. PICK v : v = view
    OBVIOUS
  <2>12. \A k \in Slots : Given(k) => Given(k)'
    BY <1>1, <2>4 DEF Given, Onward
  <2>13. \A k \in Slots : v[k] # NoInst /\ inst'[k] # NoInst => Identifies(v[k], k)'
    BY <1>1, <2>10, <2>11, <2>12 DEF Identifies
  <2>14. /\ <<c, job[c].intent>> \notin backoff /\ job[c].snap[job[c].intent].phase = "deleting"
         /\ inst[a.slot] # NoInst => inst[a.slot].owner = job[c].intent
    BY <1>1 DEF DupInv, Plans
  <2>15. Plans(c)'
    BY <1>1, <1>3, <2>1, <2>11, <2>13, <2>14 DEF Plans
  <2> QED BY <2>5, <2>6, <2>8, <2>15, OnePass
<1> QED BY <1>2, <1>3 DEF ReadForDisown

(* A step that touches no host, and what it does to the table. *)
LEMMA HostsStay ==
  ASSUME Inv', DupInv, UNCHANGED <<inst, cache>>, disowned' \subseteq disowned, Onward, StillAwaited
  PROVE  Fleet' /\ Counted' /\ Apart'
<1>1. NoneNew /\ \A k \in Slots : cache'[k] = cache[k]
  BY DEF NoneNew
<1>2. CacheFollows
  BY <1>1, CacheRefreshed
<1>3. DisownedFits
  BY DEF DisownedFits
<1> QED BY <1>1, <1>2, <1>3, FleetKept

(* An instance is created where there is room for it. *)
LEMMA Created ==
  ASSUME OneReplica, PushedInTime, Inv, Inv', DupInv, Onward, UNCHANGED <<rows, settle, disowned>>,
         NEW c \in Controls, pc[c] = "act", NEW i \in Intents, i = job[c].intent,
         NEW new \in Inst, new.owner = i, rows[i] # NoRow, new.alias = rows[i].alias,
         ~Condemned(i), Room(job[c].snap[i], i, new.host),
         job[c].snap[i].alias = rows[i].alias, job[c].snap[i].replicas = rows[i].replicas,
         NEW k \in Slots, Free(k), HostSets([inst EXCEPT ![k] = new]),
         backoff \subseteq backoff', Awaits(c, i)'
  PROVE  Fleet' /\ Counted' /\ Apart'
<1>1. /\ inst[k] = NoInst /\ cache[k] = NoInst /\ k \notin disowned
      /\ inst'[k] = new /\ new # NoInst
      /\ \A l \in Slots \ {k} : inst'[l] = inst[l]
  BY NoInstIsNotInst DEF Free, HostSets, Inv, HostOK, View
<1>2. /\ \A l \in Slots \ {k} : cache'[l] = cache[l]
      /\ cache'[k] = IF PushDelay = "none" THEN new ELSE NoInst
  BY <1>1 DEF HostSets, Inv, HostOK, View
<1>3. \A j \in Intents : Condemned(j) => Condemned(j)'
  BY DEF Onward
<1>4. \A l \in Slots \ {k} : Given(l) => Given(l)'
  BY <1>1, <1>3 DEF Given
<1>5. Fleet'
  <2> SUFFICES ASSUME NEW l \in Slots, inst'[l] # NoInst
               PROVE  /\ inst'[l].owner \in Intents /\ rows'[inst'[l].owner] # NoRow
                      /\ inst'[l].alias = rows'[inst'[l].owner].alias
                      /\ cache'[l] # NoInst => Identifies(cache[l], l)'
                      /\ l \in disowned' => Given(l)'
    BY DEF Fleet
  <2>1. CASE l = k
    BY <1>1, <1>2, <2>1 DEF Identifies
  <2>2. CASE l # k
    <3>1. inst'[l] = inst[l] /\ cache'[l] = cache[l] /\ (Given(l) => Given(l)')
      BY <1>1, <1>2, <1>4, <2>2
    <3> QED BY <3>1 DEF DupInv, Fleet, Identifies
  <2> QED BY <2>1, <2>2
<1>6. Copies(i)' = Copies(i) \union {k} /\ k \notin Copies(i)
  BY <1>1 DEF Copies
<1>7. \A j \in Intents \ {i} : Copies(j)' = Copies(j) /\ k \notin Copies(j)
  BY <1>1 DEF Copies
<1>8. Counted'
  <2> SUFFICES ASSUME NEW j \in Intents, ~Condemned(j)'
               PROVE  /\ rows'[j] # NoRow => Cardinality(Copies(j))' <= rows'[j].replicas
                      /\ Shown(j)' \/ (PushDelay = "settle" /\ \E d \in Controls : Awaits(d, j)')
    BY DEF Counted
  <2>1. CASE j = i
    <3>1. Cardinality(Copies(i)) < rows[i].replicas /\ rows[i].replicas \in Nat
      BY Replicas DEF Room
    <3>2. IsFiniteSet(Copies(i)) /\ Cardinality(Copies(i)) \in Nat
      BY CopiesFinite
    <3>3. Cardinality(Copies(i)') = Cardinality(Copies(i)) + 1
      BY <1>6, <3>2, FS_AddElement
    <3>4. Cardinality(Copies(i)') <= rows[i].replicas
      BY <3>1, <3>2, <3>3
    <3>5. CASE PushDelay = "none"
      <4>1. Shown(i)
        BY <3>5 DEF DupInv, Counted
      <4>2. cache'[k] = new
        BY <1>2, <3>5
      <4>3. \A l \in Copies(i)' : cache'[l] # NoInst /\ cache'[l].owner = i
        BY <1>1, <1>2, <1>6, <4>1, <4>2 DEF Shown, Copies
      <4>4. Shown(j)'
        BY <2>1, <4>3 DEF Shown
      <4> QED BY <2>1, <3>4, <4>4
    <3>6. CASE PushDelay = "settle"
      <4>1. \E d \in Controls : Awaits(d, j)'
        BY <2>1 DEF Awaits
      <4> QED BY <2>1, <3>4, <3>6, <4>1
    <3> QED BY <3>5, <3>6 DEF PushedInTime
  <2>2. CASE j # i
    <3>1. ~Condemned(j)
      BY <1>3
    <3>2. /\ rows[j] # NoRow => Cardinality(Copies(j)) <= rows[j].replicas
          /\ Shown(j) \/ (PushDelay = "settle" /\ \E d \in Controls : Awaits(d, j))
      BY <3>1 DEF DupInv, Counted
    <3>3. Shown(j) => Shown(j)'
      BY <1>2, <1>7, <2>2 DEF Shown, Copies
    <3>4. \A d \in Controls : Awaits(d, j) => Awaits(d, j)'
      BY <2>2 DEF Awaits, OneReplica
    <3>5. Copies(j)' = Copies(j)
      BY <1>7, <2>2
    <3> QED BY <3>2, <3>3, <3>4, <3>5
  <2> QED BY <2>1, <2>2
<1>9. Apart'
  <2> SUFFICES ASSUME NEW l \in Slots, NEW m \in Slots, l # m, inst'[l] # NoInst, inst'[m] # NoInst,
                      inst'[l].alias = inst'[m].alias, inst'[l].host = inst'[m].host
               PROVE  FALSE
    BY DEF Apart
  <2>1. CASE l # k /\ m # k
    BY <1>1, <2>1 DEF DupInv, Apart
  <2>2. CASE l = k
    BY <1>1, <2>2 DEF Room
  <2>3. CASE m = k
    BY <1>1, <2>3 DEF Room
  <2> QED BY <2>1, <2>2, <2>3
<1> QED BY <1>5, <1>8, <1>9

LEMMA CreateInstanceDup ==
  ASSUME OneReplica, PushedInTime, Inv, Inv', DupInv, NEW c \in Controls, CreateInstance(c)
  PROVE  DupInv'
<1>1. pc[c] = "act" /\ pc[c] \in Acting /\ job[c].act.type = "create" /\ job[c] \in Job
  BY DEF CreateInstance, Acting, Inv, ControlOK
<1>2. PICK i \in Intents : i = job[c].intent
  BY <1>1 DEF Inv, ControlOK, Pass
<1> DEFINE new == [host |-> job[c].act.host, alias |-> job[c].snap[i].alias,
                   owner |-> i, state |-> "stopped"]
<1>3. CASE Fails(c) /\ UNCHANGED hostVars
  <2>1. disowned' = disowned
    BY <1>3 DEF Fails
  <2> QED BY <1>1, <1>3, <2>1, Ends, HostActionDup
<1>4. ASSUME NEW k \in Slots, Free(k), HostSets([inst EXCEPT ![k] = new]),
             \/ /\ job' = [job EXCEPT ![c] = [job[c] EXCEPT !.act.slot = k]]
                /\ Goto(c, "start")
                /\ UNCHANGED <<rows, txn, lock, backoff, settle, disowned, budget>>
             \/ Fails(c)
      PROVE  DupInv'
  <2> DEFINE j == [job[c] EXCEPT !.act.slot = k]
  <2>1. j.todo = job[c].todo /\ j.intent = i /\ j.snap = job[c].snap
    BY <1>1, <1>2 DEF Job
  <2>2. \/ job'[c] = j /\ pc'[c] = "start" /\ backoff' = backoff
        \/ job'[c] = job[c] /\ pc'[c] = "status" /\ backoff' = backoff \union {<<c, i>>}
    BY <1>2, <1>4 DEF Fails, Goto, Inv, ControlOK
  <2>3. UNCHANGED <<rows, txn, settle, disowned>>
    BY <1>4 DEF Fails
  <2> HIDE DEF j
  <2>4. /\ job'[c].todo = job[c].todo /\ job'[c].intent = i /\ job'[c].snap = job[c].snap
        /\ pc'[c] \in {"start", "status"} /\ backoff \subseteq backoff'
        /\ pc'[c] = "start" => backoff' = backoff
        /\ pc'[c] = "status" => <<c, i>> \in backoff'
    BY <1>2, <2>1, <2>2
  <2>5. \A l \in Intents : Watches(c, l)' => Watches(c, l) /\ job'[c].snap[l] = job[c].snap[l]
    BY <1>1, <1>2, <2>4 DEF Watches, InSection
  <2>6. Onward
    BY <2>3, <2>5, OnwardPass DEF OneReplica
  <2>7. Reads(c)'
    BY <2>5, <2>6, ReadsKept DEF DupInv
  <2>8. Session(c)'
    BY <1>1, <2>3, <2>4, SessionIdle
  <2>9. Plans(c)'
    <3>1. <<c, i>> \notin backoff
      BY <1>1, <1>2 DEF DupInv, Plans
    <3> QED BY <2>4, <3>1, PlansOver
  <2>10. Awaits(c, i)'
    BY <2>4 DEF Awaits
  <2>11. Watches(c, i) /\ Room(job[c].snap[i], i, job[c].act.host)
    BY <1>1, <1>2 DEF Watches, InSection, DupInv, Plans
  <2>12. /\ rows[i] # NoRow /\ job[c].snap[i].alias = rows[i].alias
         /\ job[c].snap[i].replicas = rows[i].replicas
    BY <2>11 DEF DupInv, Reads
  <2>13. ~Condemned(i)
    BY <2>11 DEF Condemned, Room
  <2>14. new \in Inst
    <3>1. Pass("act", job[c])
      BY <1>1 DEF Inv, ControlOK
    <3> QED BY <1>1, <1>2, <3>1 DEF Pass, Known, Inst, Row
  <2>15. new.owner = i /\ new.alias = job[c].snap[i].alias /\ new.host = job[c].act.host
    OBVIOUS
  <2>16. PICK v : v = new
    OBVIOUS
  <2> HIDE DEF new
  <2>17. Fleet' /\ Counted' /\ Apart'
    BY <1>1, <1>2, <1>4, <2>3, <2>4, <2>6, <2>10, <2>11, <2>12, <2>13, <2>14, <2>15, Created
  <2> QED BY <2>7, <2>8, <2>9, <2>17, OnePass
<1> QED BY <1>2, <1>3, <1>4 DEF CreateInstance, hostVars

LEMMA WriteDisownDup ==
  ASSUME OneReplica, PushedInTime, PushDelay = "none" => LeakInv, Inv, Inv', DupInv,
         NEW c \in Controls, WriteDisown(c)
  PROVE  DupInv'
<1> DEFINE a == job[c].act
           v == job[c].view
           bare == [v[a.slot] EXCEPT !.owner = "none"]
<1>1. /\ pc[c] = "disown" /\ pc'[c] = "tombstone"
      /\ UNCHANGED <<rows, txn, job, inst, disowned, backoff, settle>>
      /\ Pass("disown", job[c])
  BY DEF WriteDisown, Proceeds, Goto, Inv, ControlOK
<1>2. PICK i \in Intents : i = job[c].intent
  BY <1>1 DEF Pass
<1>3. a.slot \in Slots /\ v[a.slot] \in Inst /\ v[a.slot] # NoInst /\ a.type = "disown"
  BY <1>1, NoInstIsNotInst DEF Pass, Known
<1>4. bare.owner = "none" /\ bare.host = v[a.slot].host /\ bare.alias = v[a.slot].alias
  BY <1>3 DEF Inst
<1>5. \A l \in Intents : Watches(c, l)' => Watches(c, l) /\ job'[c].snap[l] = job[c].snap[l]
  BY <1>1 DEF Watches, InSection
<1>6. Onward
  BY <1>1, <1>5, OnwardPass DEF OneReplica
<1>7. Condemned(i)
  <2>1. Watches(c, i) /\ job[c].snap[i].phase = "deleting"
    BY <1>1, <1>2, <1>3 DEF Watches, InSection, DupInv, Plans
  <2>2. Doomed(i)
    BY <2>1 DEF DupInv, Reads
  <2> QED BY <2>1, <2>2 DEF Condemned, OneReplica
<1>8. \A k \in Slots : Given(k) => Given(k)'
  BY <1>1, <1>6 DEF Given, Onward
<1>9. inst[a.slot] # NoInst => Given(a.slot)
  BY <1>1, DisownsForGood
<1>10. ASSUME NEW k \in Slots, inst[k] # NoInst
       PROVE  /\ v[k] # NoInst => Identifies(v[k], k)
              /\ cache[k] # NoInst => Identifies(cache[k], k)
  BY <1>1, <1>10 DEF DupInv, Plans, Fleet
<1>11. CacheFollows
  <2> SUFFICES ASSUME NEW k \in Slots, inst[k] # NoInst
               PROVE  /\ cache'[k] # NoInst => Identifies(cache[k], k)'
                      /\ cache[k] # NoInst => cache'[k] # NoInst \/ Given(k)'
    BY <1>1 DEF CacheFollows
  <2>1. CASE k = a.slot
    <3>1. cache'[k] = bare
      BY <2>1 DEF WriteDisown
    <3>2. Given(k)'
      BY <1>8, <1>9, <2>1
    <3>3. bare.host = inst'[k].host /\ bare.alias = inst'[k].alias
      BY <1>1, <1>3, <1>4, <1>10, <2>1 DEF Identifies
    <3> HIDE DEF bare
    <3> QED BY <1>4, <3>1, <3>2, <3>3 DEF Identifies
  <2>2. CASE k # a.slot
    <3>1. cache'[k] = IF v[k] # NoInst \/ (cache[k] # NoInst /\ cache[k].host = a.host)
                      THEN v[k] ELSE cache[k]
      BY <2>2 DEF WriteDisown
    <3> HIDE DEF v, a
    <3>2. cache'[k] # NoInst => Identifies(cache[k], k)'
      BY <1>1, <1>8, <1>10, <3>1 DEF Identifies
    <3>3. ASSUME cache[k] # NoInst, cache'[k] = NoInst
          PROVE  Given(k)'
      <4>1. v[k] = NoInst /\ cache[k].host = a.host
        BY <3>1, <3>3
      <4>2. CASE PushDelay = "none"
        <5>1. v[k] # NoInst <=> inst[k] # NoInst /\ inst[k].host = a.host
          BY <1>1, <4>2 DEF LeakInv, Aware, v, a
        <5> QED BY <1>10, <3>3, <4>1, <5>1 DEF Identifies
      <4>3. CASE \A l, m \in Intents : l = m
        <5>1. \A l \in Intents : l = i
          BY <4>3
        <5>2. Given(k)
          BY <1>7, <5>1 DEF Given
        <5> QED BY <1>8, <5>2
      <4> QED BY <4>2, <4>3 DEF PushedInTime
    <3> QED BY <3>2, <3>3
  <2> QED BY <2>1, <2>2
<1>12. NoneNew /\ DisownedFits /\ StillAwaited
  <2>1. \A d \in Controls, l \in Intents : Awaits(d, l) => Awaits(d, l)'
    BY <1>1 DEF Awaits, OneReplica
  <2> QED BY <1>1, <2>1, StillAwaitedIf DEF NoneNew, DisownedFits
<1>13. Fleet' /\ Counted' /\ Apart'
  BY <1>6, <1>11, <1>12, FleetKept
<1>14. Reads(c)' /\ Session(c)'
  BY <1>1, <1>5, <1>6, ReadsKept, SessionIdle DEF DupInv
<1>15. Plans(c)'
  <2>1. /\ <<c, i>> \notin backoff
        /\ job[c].snap[i].phase = "deleting"
        /\ inst[a.slot] # NoInst => inst[a.slot].owner = i
    BY <1>1, <1>2, <1>3 DEF DupInv, Plans, Acting
  <2> QED BY <1>1, <1>2, <2>1 DEF Plans, Acting
<1> QED BY <1>13, <1>14, <1>15, OnePass

LEMMA TombstoneDup ==
  ASSUME OneReplica, Inv, Inv', DupInv, NEW c \in Controls, Tombstone(c)
  PROVE  DupInv'
<1>1. /\ pc[c] = "tombstone" /\ pc[c] \in Acting /\ Succeeds(c) /\ UNCHANGED <<inst, cache>>
      /\ disowned' \subseteq disowned \union {job[c].act.slot}
  BY DEF Tombstone, Acting
<1>2. NoneNew /\ \A k \in Slots : cache'[k] = cache[k]
  BY <1>1 DEF NoneNew
<1>3. Onward
  <2>1. \A l \in Intents : Watches(c, l)' => Watches(c, l) /\ job'[c].snap[l] = job[c].snap[l]
    BY <1>1, Ends DEF Watches, InSection
  <2> QED BY <1>1, <2>1, OnwardPass, Ends DEF OneReplica
<1>4. CacheFollows
  BY <1>2, <1>3, CacheRefreshed
<1>5. DisownedFits
  <2> SUFFICES ASSUME NEW k \in Slots, k \in disowned', inst'[k] # NoInst, k \notin disowned
               PROVE  Given(k)'
    BY DEF DisownedFits
  <2>1. k = job[c].act.slot /\ inst[k] # NoInst
    BY <1>1
  <2>2. Given(k)
    BY <1>1, <2>1, DisownsForGood
  <2> QED BY <1>1, <1>3, <2>2 DEF Given, Onward
<1> QED BY <1>1, <1>2, <1>4, <1>5, Ends, ActionDup

LEMMA ReobserveDup ==
  ASSUME OneReplica, Inv, Inv', DupInv, NEW c \in Controls, Reobserve(c)
  PROVE  DupInv'
<1>1. PICK i \in Intents : i = job[c].intent
  BY DEF Reobserve, Inv, ControlOK, Pass
<1> DEFINE S == Managed(i, job[c].snap[i].alias)
           j == [job[c] EXCEPT !.seen = S, !.ready = Running(S)]
<1>2. /\ Still /\ pc[c] = "reobserve" /\ pc'[c] = "status"
      /\ settle' = settle \union {<<c, i>>} /\ backoff' = backoff \ {<<c, i>>}
  BY <1>1 DEF Reobserve, Still, Goto, Inv, ControlOK
<1>3. /\ job'[c].todo = job[c].todo /\ job'[c].intent = i /\ job'[c].snap = job[c].snap
  <2>1. j.todo = job[c].todo /\ j.intent = i /\ j.snap = job[c].snap
    BY <1>1 DEF Inv, ControlOK, Job
  <2>2. job'[c] = j
    BY <1>1 DEF Reobserve, Inv, ControlOK
  <2> QED BY <2>1, <2>2
<1>4. \A l \in Intents : Watches(c, l)' => Watches(c, l) /\ job'[c].snap[l] = job[c].snap[l]
  BY <1>1, <1>2, <1>3 DEF Watches, InSection
<1>5. Onward
  BY <1>2, <1>4, OnwardPass DEF OneReplica, Still
<1>6. Reads(c)'
  BY <1>4, <1>5, ReadsKept DEF DupInv
<1>7. Session(c)' /\ Plans(c)'
  BY <1>2, SessionIdle, PlansOver DEF Still
<1>8. StillAwaited
  <2>1. ASSUME NEW l \in Intents, Awaits(c, l)
        PROVE  Awaits(c, l)'
    BY <1>1, <1>2, <2>1 DEF Awaits
  <2> QED BY <2>1, StillAwaitedIf DEF OneReplica
<1> QED BY <1>2, <1>5, <1>6, <1>7, <1>8, StillKeeps, OnePass

LEMMA ReadRowDup ==
  ASSUME OneReplica, Inv, Inv', DupInv, NEW c \in Controls, ReadRow(c)
  PROVE  DupInv'
<1>1. PICK i \in Intents : i = job[c].intent
  BY DEF ReadRow, Inv, ControlOK, Pass
<1>2. PICK phase : phase = NextPhase(job[c].snap[i], job[c].seen, Cardinality(job[c].ready))
  OBVIOUS
<1>3. UNCHANGED <<rows, job, backoff, settle, inst, cache, disowned>> /\ pc[c] = "status" /\ c \in Clients
  BY ReconcilerAssumption DEF ReadRow, ReadForStatus
<1>4. CASE Goto(c, "unlock") /\ UNCHANGED <<rows, txn>>
  <2>1. pc'[c] = "unlock"
    BY <1>4 DEF Goto, Inv, ControlOK
  <2>2. \A l \in Intents : Watches(c, l)' => Watches(c, l) /\ job'[c].snap[l] = job[c].snap[l]
    BY <1>3, <2>1 DEF Watches, InSection
  <2> QED BY <1>3, <1>4, <2>1, <2>2, TurnsTo DEF Still
<1>5. CASE ReadForStatus(c, i, phase) /\ Goto(c, "commit")
  <2> DEFINE t == [op |-> "status", intent |-> i, row |-> rows[i], phase |-> phase, orphan |-> FALSE]
  <2>1. txn'[c] = t /\ Active(i) /\ \A d \in Clients \ {c} : txn'[d] = txn[d]
    BY <1>3, <1>5 DEF ReadForStatus, Open, Inv, StoreInv, StoreTypeOK
  <2>2. txn'[c].op = "status" /\ txn'[c].intent = i /\ txn'[c].row = rows[i] /\ pc'[c] = "commit"
    BY <1>5, <2>1 DEF Goto, Inv, ControlOK
  <2> HIDE DEF t
  <2>3. \A l \in Intents : Watches(c, l)' => Watches(c, l) /\ job'[c].snap[l] = job[c].snap[l]
    BY <1>3, <2>2 DEF Watches, InSection
  <2>4. ASSUME NEW l \in Intents
        PROVE  RowStays(l) /\ (Doomed(l) => Doomed(l)')
    BY <1>3, <2>1, <2>2 DEF RowStays, Doomed, OneReplica, Active
  <2>5. ASSUME NEW l \in Intents, Condemned(l)
        PROVE  Condemned(l)'
    BY <2>3, <2>4, <2>5 DEF Condemned, OneReplica
  <2>6. Onward
    BY <2>4, <2>5 DEF Onward
  <2>7. Reads(c)'
    BY <2>3, <2>6, ReadsKept DEF DupInv
  <2>8. Session(c)' /\ Plans(c)'
    BY <1>1, <1>3, <2>2, PlansOver DEF Session
  <2>9. StillAwaited
    BY <1>3, StillAwaitedIf DEF Awaits, OneReplica
  <2> QED BY <1>3, <2>6, <2>7, <2>8, <2>9, HostsStay, OnePass
<1> QED BY <1>1, <1>2, <1>4, <1>5 DEF ReadRow

(* The status of a row that is being deleted never brings it back. *)
LEMMA CommitDup ==
  ASSUME OneReplica, Inv, Inv', DupInv, NEW c \in Controls, CommitStatus(c)
  PROVE  DupInv'
<1>1. PICK i \in Intents : i = job[c].intent
  BY DEF CommitStatus, Inv, ControlOK, Pass
<1> DEFINE old == rows[i]
           phase == Guarded(txn[c].row.phase, txn[c].phase)
           new == [old EXCEPT !.phase = IF phase = txn[c].row.phase THEN @ ELSE phase,
                              !.retired = @ \/ phase = "deleted"]
<1>2. /\ UNCHANGED <<job, inst, cache, disowned, backoff, settle>> /\ pc[c] = "commit"
      /\ pc'[c] = "unlock" /\ c \in Clients /\ WriteStatus(c)
  BY ReconcilerAssumption DEF CommitStatus, Goto, Inv, ControlOK
<1>3. txn[c].op = "status" /\ txn[c].intent = i
  BY <1>1, <1>2 DEF DupInv, Session
<1>4. rows' = [rows EXCEPT ![i] = new] /\ old \in Row /\ new \in Row
  BY <1>2, <1>3, WriteStatusRow DEF Inv
<1>5. /\ new.alias = old.alias /\ new.replicas = old.replicas
      /\ new.retired = (old.retired \/ phase = "deleted")
      /\ new.phase = IF phase = txn[c].row.phase THEN old.phase ELSE phase
  BY <1>4 DEF Row
<1>6. rows'[i] = new /\ new # NoRow /\ old # NoRow /\ \A j \in Intents \ {i} : rows'[j] = rows[j]
  BY <1>4, EmptyIsNotARecord DEF Inv, StoreInv, StoreTypeOK
<1>7. txn[c].row.phase = "deleting" => phase \in {"deleting", "deleted"}
  BY DEF Guarded
<1>8. txn'[c] = NoTxn
  BY <1>2 DEF WriteStatus, Close, Inv, StoreInv, StoreTypeOK
<1> HIDE DEF new, phase
<1>9. \A l \in Intents : RowStays(l)
  BY <1>5, <1>6 DEF RowStays
<1>10. ASSUME NEW l \in Intents, Doomed(l)
       PROVE  Doomed(l)'
  <2>1. \A d \in Controls : txn'[d].op # "status"
    BY <1>8 DEF OneReplica, NoTxn
  <2>2. CASE l # i
    BY <1>6, <1>10, <2>1, <2>2 DEF Doomed
  <2>3. CASE l = i
    <3>1. txn[c].row.phase = "deleting" /\ (old.retired \/ old.phase = "deleting")
      BY <1>3, <1>10, <2>3 DEF Doomed
    <3>2. new.retired \/ new.phase = "deleting"
      BY <1>5, <1>7, <3>1
    <3> QED BY <1>6, <2>1, <2>3, <3>2 DEF Doomed
  <2> QED BY <2>2, <2>3
<1>11. \A l \in Intents : Watches(c, l)' => Watches(c, l) /\ job'[c].snap[l] = job[c].snap[l]
  BY <1>2 DEF Watches, InSection
<1>12. \A l \in Intents : Condemned(l) => Condemned(l)'
  BY <1>10, <1>11 DEF Condemned, OneReplica
<1>13. Onward
  BY <1>9, <1>10, <1>12 DEF Onward
<1>14. Reads(c)'
  BY <1>11, <1>13, ReadsKept DEF DupInv
<1>15. Session(c)' /\ Plans(c)'
  <2>1. Session(c)'
    BY <1>2, <1>8 DEF Session, NoTxn
  <2> QED BY <1>2, <2>1, PlansOver
<1>16. StillAwaited
  BY <1>2, StillAwaitedIf DEF Awaits, OneReplica
<1> QED BY <1>2, <1>13, <1>14, <1>15, <1>16, HostsStay, OnePass

(* A pass that dies, alone or with its replica, drops its session; a crash  *)
(* also drops the windows that say what the cache may not show yet.         *)
LEMMA AbandonDup ==
  ASSUME OneReplica, PushedInTime, Inv, Inv', DupInv, NEW c \in Controls,
         PassFails(c) \/ Crash(c) \/ ShutDown(c)
  PROVE  DupInv'
<1>1. UNCHANGED <<rows, inst, cache, disowned>> /\ txn'[c] = NoTxn
  BY ReconcilerAssumption DEF PassFails, Crash, ShutDown, Forget, Close, Inv, StoreInv, StoreTypeOK
<1>2. ASSUME NEW l \in Intents
      PROVE  RowStays(l) /\ (Doomed(l) => Doomed(l)')
  BY <1>1 DEF RowStays, Doomed, OneReplica, NoTxn
<1>3. ASSUME StillAwaited, pc'[c] \in {"idle", "unlock"},
             \A l \in Intents : Watches(c, l)' => Watches(c, l) /\ job'[c].snap[l] = job[c].snap[l]
      PROVE  DupInv'
  <2>1. \A l \in Intents : Condemned(l) => Condemned(l)'
    BY <1>2, <1>3 DEF Condemned, OneReplica
  <2>2. Onward
    BY <1>2, <2>1 DEF Onward
  <2>3. Reads(c)'
    BY <1>3, <2>2, ReadsKept DEF DupInv
  <2>4. Session(c)'
    BY <1>1, <1>3 DEF Session, NoTxn
  <2>5. Plans(c)'
    BY <1>3, PlansOver
  <2> QED BY <1>1, <1>3, <2>2, <2>3, <2>4, <2>5, HostsStay, OnePass
<1>4. CASE PassFails(c)
  <2>1. /\ pc[c] \in {"enter", "observe", "status", "commit"} /\ pc'[c] = "unlock"
        /\ UNCHANGED <<job, backoff, settle>>
    BY <1>4 DEF PassFails, Goto, Inv, ControlOK
  <2>2. StillAwaited
    BY <2>1, StillAwaitedIf DEF Awaits, OneReplica
  <2> QED BY <1>3, <2>1, <2>2 DEF Watches, InSection
<1>5. CASE Crash(c) \/ ShutDown(c)
  <2>1. "crash" \in Faults /\ pc'[c] = "idle" /\ job'[c] = NoJob
    BY <1>5 DEF Crash, ShutDown, Spend, Forget, Goto, Inv, ControlOK
  <2>2. StillAwaited
    BY <2>1 DEF PushedInTime, StillAwaited
  <2>3. \A l \in Intents : ~Watches(c, l)'
    BY <2>1 DEF Watches, InSection, NoJob
  <2> QED BY <1>3, <2>1, <2>2, <2>3
<1> QED BY <1>4, <1>5

(* A step of a host, a push, a timer or a user. *)
LEMMA OutsideDup ==
  ASSUME Inv, Inv', DupInv, UNCHANGED <<pc, job>>, disowned' \subseteq disowned, NoneNew,
         \A k \in Slots : cache'[k] \in {cache[k], inst'[k]},
         \A i \in Intents : RowStays(i) /\ (Doomed(i) => Doomed(i)'),
         \A c \in Controls : txn'[c] = txn[c],
         backoff' \subseteq backoff, settle' \subseteq settle, StillAwaited
  PROVE  DupInv'
<1>1. \A d \in Controls, l \in Intents : Watches(d, l)' <=> Watches(d, l)
  BY DEF Watches, InSection
<1>2. \A l \in Intents : Condemned(l) => Condemned(l)'
  BY <1>1 DEF Condemned
<1>3. Onward
  BY <1>2 DEF Onward
<1>4. Fleet' /\ Counted' /\ Apart'
  <2>1. CacheFollows
    BY <1>3, CacheRefreshed
  <2>2. DisownedFits
    BY DEF DisownedFits
  <2> QED BY <1>3, <2>1, <2>2, FleetKept
<1>5. ASSUME NEW c \in Controls
      PROVE  Reads(c)' /\ Session(c)'
  <2>1. Reads(c)'
    BY <1>1, <1>3, ReadsKept DEF DupInv
  <2> QED BY <2>1 DEF DupInv, Session
<1>6. ASSUME NEW c \in Controls
      PROVE  Plans(c)'
  <2>1. PICK j : j = job[c]
    OBVIOUS
  <2>2. PICK p : p = pc[c]
    OBVIOUS
  <2>3. Pass(p, j)
    BY <2>1, <2>2 DEF Inv, ControlOK
  <2>4. ASSUME NEW i, NEW row, NEW h, Room(row, i, h), row.replicas \in Nat
        PROVE  Room(row, i, h)'
    <3>1. Copies(i)' \subseteq Copies(i) /\ IsFiniteSet(Copies(i)) /\ Cardinality(Copies(i)) \in Nat
      BY CopiesFinite DEF Copies, NoneNew
    <3>2. Cardinality(Copies(i)') <= Cardinality(Copies(i)) /\ Cardinality(Copies(i)') \in Nat
      BY <3>1, FS_Subset, FS_CardinalityType
    <3>3. Cardinality(Copies(i)') < row.replicas
      BY <2>4, <3>1, <3>2 DEF Room
    <3> QED BY <2>4, <3>3 DEF Room, NoneNew
  <2>5. p = "act" /\ j.act.type = "create" => Room(j.snap[j.intent], j.intent, j.act.host)'
    <3>1. p = "act" => j.snap[j.intent].replicas \in Nat
      BY <2>3, StoreAssumption DEF Pass, Row
    <3> QED BY <2>1, <2>2, <2>4, <3>1 DEF DupInv, Plans
  <2>6. p \in {"act", "disown", "tombstone"} /\ j.act.type = "disown" =>
          /\ j.snap[j.intent].phase = "deleting"
          /\ inst'[j.act.slot] # NoInst => inst'[j.act.slot].owner = j.intent
    <3>1. p \in {"act", "disown", "tombstone"} /\ j.act.type = "disown" => j.act.slot \in Slots
      BY <2>3 DEF Pass, Known
    <3> QED BY <2>1, <2>2, <3>1 DEF DupInv, Plans, NoneNew
  <2>7. p = "disown" => \A k \in Slots :
          j.view[k] # NoInst /\ inst'[k] # NoInst => Identifies(j.view[k], k)'
    <3> SUFFICES ASSUME p = "disown", NEW k \in Slots, j.view[k] # NoInst, inst'[k] # NoInst
                 PROVE  Identifies(j.view[k], k)'
      OBVIOUS
    <3>1. Identifies(j.view[k], k) /\ inst[k] # NoInst
      BY <2>1, <2>2 DEF DupInv, Plans, NoneNew
    <3>2. Given(k) => Given(k)'
      BY <1>2 DEF Given, NoneNew
    <3> QED BY <3>1, <3>2 DEF Identifies, NoneNew
  <2>8. /\ p \in Acting \union {"observe"} => <<c, j.intent>> \notin backoff'
        /\ p = "observe" /\ ~j.refresh /\ j.snap[j.intent].phase # "deleting" =>
             <<c, j.intent>> \notin settle'
    BY <2>1, <2>2 DEF DupInv, Plans
  <2> QED BY <2>1, <2>2, <2>5, <2>6, <2>7, <2>8 DEF Plans
<1> QED BY <1>4, <1>5, <1>6 DEF DupInv

LEMMA InstanceDup ==
  ASSUME Inv, Inv', DupInv, NEW k \in Slots, Boot(k) \/ Break(k)
  PROVE  DupInv'
<1>1. inst[k] # NoInst
  BY DEF Boot, Break, NoInst
<1>2. PICK state \in {"running", "failed"} : HostSets([inst EXCEPT ![k].state = state])
  BY DEF Boot, Break
<1>3. UNCHANGED <<rows, txn, pc, job, disowned, backoff, settle>>
  BY DEF Boot, Break
<1>4. NoneNew /\ \A l \in Slots : cache'[l] \in {cache[l], inst'[l]}
  BY <1>1, <1>2, StateMoves DEF Inv
<1>5. \A i \in Intents : RowStays(i) /\ (Doomed(i) => Doomed(i)')
  BY <1>3 DEF RowStays, Doomed
<1>6. StillAwaited
  BY <1>3, StillAwaitedIf DEF Awaits
<1> QED BY <1>3, <1>4, <1>5, <1>6, OutsideDup

LEMMA PushDup ==
  ASSUME Inv, Inv', DupInv, UNCHANGED <<rows, txn, pc, job, inst, disowned, backoff, settle>>,
         UNCHANGED cache \/ \E h \in Hosts : Push(h)
  PROVE  DupInv'
<1>1. NoneNew /\ \A k \in Slots : cache'[k] \in {cache[k], inst'[k]}
  BY DEF Push, NoneNew, Inv, HostOK, View
<1>2. \A i \in Intents : RowStays(i) /\ (Doomed(i) => Doomed(i)')
  BY DEF RowStays, Doomed
<1>3. StillAwaited
  BY StillAwaitedIf DEF Awaits
<1> QED BY <1>1, <1>2, <1>3, OutsideDup

(* A window closes once the instances of its intent are in the cache. *)
LEMMA WindowDup ==
  ASSUME PushedInTime, Inv, Inv', DupInv, NEW c \in Controls, NEW i \in Intents,
         EndBackoff(c, i) \/ EndSettle(c, i)
  PROVE  DupInv'
<1>1. /\ UNCHANGED <<rows, txn, pc, job, inst, cache, disowned>>
      /\ backoff \ {<<c, i>>} \subseteq backoff' /\ backoff' \subseteq backoff
      /\ settle \ {<<c, i>>} \subseteq settle' /\ settle' \subseteq settle
      /\ Landed(i)
  BY DEF EndBackoff, EndSettle, PushedInTime
<1>2. NoneNew /\ \A k \in Slots : cache'[k] \in {cache[k], inst'[k]}
  BY <1>1 DEF NoneNew
<1>3. \A j \in Intents : RowStays(j) /\ (Doomed(j) => Doomed(j)')
  BY <1>1 DEF RowStays, Doomed
<1>4. StillAwaited
  <2> SUFFICES ASSUME NEW j \in Intents, ~Condemned(j), ~Shown(j),
                      NEW d \in Controls, Awaits(d, j)
               PROVE  Awaits(d, j)'
    BY DEF StillAwaited
  <2>1. j # i
    <3> SUFFICES ASSUME j = i, NEW k \in Copies(j)
                 PROVE  cache[k] # NoInst /\ cache[k].owner = j
      BY DEF Shown
    <3>1. k \in Slots /\ inst[k] # NoInst /\ inst[k].owner = j
      BY DEF Copies
    <3>2. cache[k] # NoInst
      BY <1>1, <3>1 DEF Landed
    <3>3. ~Given(k)
      BY <3>1 DEF Given
    <3> QED BY <3>1, <3>2, <3>3 DEF DupInv, Fleet, Identifies
  <2> QED BY <1>1, <2>1 DEF Awaits
<1> QED BY <1>1, <1>2, <1>3, <1>4, OutsideDup

(* What a user's request does to the table. *)
LEMMA ReplyKeeps ==
  ASSUME Inv, NEW u \in Users, Reply(u)
  PROVE  /\ \A i \in Intents : RowStays(i)
         /\ \A i \in Intents : rows[i] # NoRow /\ (rows[i].retired \/ rows[i].phase = "deleting") =>
              rows'[i].retired \/ rows'[i].phase = "deleting"
         /\ \A c \in Controls : txn'[c] = txn[c]
<1>1. /\ u \in Clients \ Controls /\ Controls \subseteq Clients
      /\ txn \in [Clients -> Txn \union {NoTxn}] /\ rows \in [Intents -> Row \union {NoRow}]
  BY ReconcilerAssumption DEF Users, Inv, StoreInv, StoreTypeOK
<1>2. \A c \in Controls : txn'[c] = txn[c]
  BY <1>1 DEF Reply, InsertIntent, SoftDelete, Close
<1>3. CASE InsertIntent(u)
  <2>1. rows[txn[u].intent] = NoRow /\ rows' = [rows EXCEPT ![txn[u].intent] = txn[u].row]
    BY <1>1, <1>3 DEF InsertIntent, Inv, StoreInv, Grounded, Pending, NoTxn
  <2> QED BY <1>1, <1>2, <2>1 DEF RowStays
<1>4. CASE SoftDelete(u)
  <2>1. PICK i \in Intents : i = txn[u].intent
    BY <1>1, <1>4 DEF SoftDelete, Txn, NoTxn
  <2> DEFINE new == [rows[i] EXCEPT !.phase = IF txn[u].row.phase = "deleting" THEN @ ELSE "deleting",
                                    !.orphan = @ \/ txn[u].orphan]
  <2>2. rows' = [rows EXCEPT ![i] = new] /\ rows[i] \in Row /\ new \in Row
    BY <1>1, <1>4, <2>1, SoftDeleteRow DEF Inv
  <2>3. /\ new.alias = rows[i].alias /\ new.replicas = rows[i].replicas
        /\ new.retired = rows[i].retired
        /\ rows[i].phase = "deleting" => new.phase = "deleting"
    BY <2>2 DEF Row
  <2>4. rows'[i] = new /\ new # NoRow /\ \A j \in Intents \ {i} : rows'[j] = rows[j]
    BY <1>1, <2>2, EmptyIsNotARecord
  <2> HIDE DEF new
  <2> QED BY <1>2, <2>3, <2>4 DEF RowStays
<1> QED BY <1>3, <1>4 DEF Reply

LEMMA RequestDup ==
  ASSUME Inv, Inv', DupInv, NEW u \in Users, Request(u) \/ Reply(u)
  PROVE  DupInv'
<1>1. UNCHANGED <<pc, job, inst, cache, disowned, backoff, settle>>
  BY DEF Request, Reply
<1>2. /\ \A i \in Intents : RowStays(i)
      /\ \A i \in Intents : rows[i] # NoRow /\ (rows[i].retired \/ rows[i].phase = "deleting") =>
           rows'[i].retired \/ rows'[i].phase = "deleting"
      /\ \A c \in Controls : txn'[c] = txn[c]
  <2>1. CASE Reply(u)
    BY <2>1, ReplyKeeps
  <2>2. CASE Request(u)
    <3>1. rows' = rows
      BY <2>2 DEF Request, CheckAlias, ReadForDelete
    <3>2. /\ u \in Clients \ Controls /\ Controls \subseteq Clients
          /\ txn \in [Clients -> Txn \union {NoTxn}]
      BY ReconcilerAssumption DEF Users, Inv, StoreInv, StoreTypeOK
    <3>3. \A c \in Controls : txn'[c] = txn[c]
      BY <2>2, <3>2 DEF Request, CheckAlias, ReadForDelete, Open
    <3> QED BY <3>1, <3>3 DEF RowStays
  <2> QED BY <2>1, <2>2
<1>3. \A i \in Intents : Doomed(i) => Doomed(i)'
  BY <1>2 DEF Doomed, RowStays
<1>4. NoneNew /\ \A k \in Slots : cache'[k] \in {cache[k], inst'[k]}
  BY <1>1 DEF NoneNew
<1>5. StillAwaited
  BY <1>1, StillAwaitedIf DEF Awaits
<1> QED BY <1>1, <1>2, <1>3, <1>4, <1>5, OutsideDup

LEMMA InitDup == Init => DupInv
<1> SUFFICES ASSUME Init PROVE DupInv
  OBVIOUS
<1>1. /\ \A i \in Intents : rows[i] = NoRow
      /\ \A k \in Slots : inst[k] = NoInst /\ cache[k] = NoInst
      /\ \A c \in Controls : pc[c] = "idle" /\ job[c] = NoJob /\ txn[c] = NoTxn
  BY ReconcilerAssumption DEF Init, StoreInit, NoView
<1>2. Fleet /\ Counted /\ Apart
  BY <1>1 DEF Fleet, Counted, Apart, Shown, Copies
<1>3. \A c \in Controls : Reads(c) /\ Session(c) /\ Plans(c)
  BY <1>1 DEF Reads, Watches, InSection, NoJob, Session, NoTxn, Plans, Acting
<1> QED BY <1>2, <1>3 DEF DupInv

LEMMA NextDup ==
  ASSUME OneReplica, PushedInTime, PushDelay = "none" => LeakInv, Inv, Inv', DupInv, [Next]_vars
  PROVE  DupInv'
<1>1. ASSUME NEW c \in Controls,
             Step(c) \/ ActionTimeout(c) \/ PassFails(c) \/ Crash(c) \/ ShutDown(c)
      PROVE  DupInv'
  BY <1>1, ListIntentsDup, TryLockDup, EnterDup, ObserveDup, StopInstanceDup, DeleteInstanceDup,
     CreateInstanceDup, StartInstanceDup, ReobserveDup, ReadForDisownDup, WriteDisownDup,
     TombstoneDup, ReadRowDup, CommitDup, UnlockDup, AbandonDup, ActionTimeoutDup DEF Step
<1>2. CASE UNCHANGED <<rows, txn, pc, job, inst, cache, disowned, backoff, settle>>
  BY <1>2, PushDup
<1>3. ASSUME NEW h \in Hosts, Push(h) PROVE DupInv'
  BY <1>3, PushDup DEF Push
<1> QED BY <1>1, <1>2, <1>3, WindowDup, InstanceDup, RequestDup DEF Next, vars, ExpireLock

LEMMA DupInvSuffices == Inv /\ DupInv => NoDuplicates
<1> SUFFICES ASSUME Inv, DupInv PROVE NoDuplicates
  OBVIOUS
<1>1. ASSUME NEW i \in Intents, Active(i), rows[i].phase # "deleting"
      PROVE  Cardinality(Owned(i)) <= rows[i].replicas
  <2>1. ~Condemned(i) /\ rows[i] # NoRow
    BY <1>1 DEF Condemned, Doomed, Active
  <2>2. Cardinality(Copies(i)) <= rows[i].replicas /\ rows[i].replicas \in Nat
    BY <2>1, Replicas DEF DupInv, Counted
  <2>3. Owned(i) \subseteq Copies(i) /\ IsFiniteSet(Copies(i)) /\ Cardinality(Copies(i)) \in Nat
    BY CopiesFinite DEF Owned, Copies
  <2>4. Cardinality(Owned(i)) <= Cardinality(Copies(i)) /\ Cardinality(Owned(i)) \in Nat
    BY <2>3, FS_Subset, FS_CardinalityType
  <2> QED BY <2>2, <2>3, <2>4
<1>2. Apart
  BY DEF DupInv
<1> QED BY <1>1, <1>2 DEF NoDuplicates, Apart

(* With one replica, a live intent never has more instances than it asks    *)
(* for, and no host two of one alias, whatever fails, times out or is       *)
(* deleted in the middle of a pass: with pushes that land at once, or, for  *)
(* one intent and no crash, before the settle window and the backoff end.   *)
THEOREM NeverTooMany ==
  ASSUME OneReplica, PushedInTime
  PROVE  Spec => []NoDuplicates
<1> DEFINE DInv == (PushDelay = "none" => LeakInv) /\ DupInv
<1>1. Init => DInv
  BY InitLeak, InitDup
<1>2. Inv /\ Inv' /\ DInv /\ [Next]_vars => DInv'
  BY NextLeak, NextDup
<1>3. Inv /\ DInv => NoDuplicates
  BY DupInvSuffices
<1> QED BY <1>1, <1>2, <1>3, Invariant, PTL DEF Spec
================================================================================
