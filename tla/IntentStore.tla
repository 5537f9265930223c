------------------------------ MODULE IntentStore ------------------------------
(***************************************************************************)
(* The table of deployment intents (app/database/intents.py) and the three *)
(* transactions that change it.  Each one reads a row, decides, and        *)
(* commits: a session runs at PostgreSQL's default READ COMMITTED level    *)
(* and never locks the row, so two of them may overlap.  SQLAlchemy writes *)
(* only the columns whose value differs from the one it read.              *)
(***************************************************************************)
EXTENDS Naturals, FiniteSets

CONSTANTS
  Intents,        \* identifiers a row may get
  Aliases,        \* gateway aliases an intent may ask for
  ReplicaCounts,  \* numbers of replicas an intent may ask for
  Clients,        \* API requests and control replicas, one session each
  Overlap         \* whether two transactions may be open at once

ASSUME StoreAssumption ==
  /\ ReplicaCounts \subseteq Nat
  /\ Overlap \in BOOLEAN
  /\ "none" \notin Intents

VARIABLES
  rows,  \* rows[i]: the committed row of intent i
  txn    \* txn[c]: the transaction client c has open, with the row it read

storeVars == <<rows, txn>>

Phases == {"pending", "reconciling", "ready", "degraded", "failed",
           "deleting", "deleted"}

(* phase, metadata["orphan"], deleted_at # NULL, and what was asked for. *)
Row == [alias: Aliases, replicas: ReplicaCounts,
        phase: Phases, orphan: BOOLEAN, retired: BOOLEAN]

NoRow == [phase |-> "absent"]

Txn == [op: {"create", "delete", "status"}, intent: Intents,
        row: Row, phase: Phases, orphan: BOOLEAN]

NoTxn == [op |-> "none"]

StoreTypeOK ==
  /\ rows \in [Intents -> Row \union {NoRow}]
  /\ txn \in [Clients -> Txn \union {NoTxn}]

StoreInit ==
  /\ rows = [i \in Intents |-> NoRow]
  /\ txn = [c \in Clients |-> NoTxn]

(* The rows that deleted_at IS NULL selects: get_intent finds these only. *)
Active(i) == rows[i] # NoRow /\ ~rows[i].retired

MayOpen(c) ==
  /\ txn[c] = NoTxn
  /\ Overlap \/ \A d \in Clients : txn[d] = NoTxn

Open(c, op, i, row, phase, orphan) ==
  txn' = [txn EXCEPT ![c] = [op |-> op, intent |-> i, row |-> row,
                             phase |-> phase, orphan |-> orphan]]

Close(c) == txn' = [txn EXCEPT ![c] = NoTxn]

--------------------------------------------------------------------------------
(* POST /intents: check_alias_conflict in one session, the INSERT in the   *)
(* next.  The request ends without effect when an active row has the alias.*)

NewRow(a, n) == [alias |-> a, replicas |-> n, phase |-> "pending",
                 orphan |-> FALSE, retired |-> FALSE]

(* Slip: the check is forgotten. *)
CreateUnchecked(c, i, a, n) ==
  /\ MayOpen(c)
  /\ rows[i] = NoRow
  /\ \A d \in Clients : txn[d] # NoTxn => txn[d].intent # i
  /\ Open(c, "create", i, NewRow(a, n), "pending", FALSE)
  /\ UNCHANGED rows

CheckAlias(c, i, a, n) ==
  /\ MayOpen(c)
  /\ rows[i] = NoRow
  /\ \A d \in Clients : txn[d] # NoTxn => txn[d].intent # i
  /\ \A j \in Intents : Active(j) => rows[j].alias # a
  /\ Open(c, "create", i, NewRow(a, n), "pending", FALSE)
  /\ UNCHANGED rows

InsertIntent(c) ==
  /\ txn[c].op = "create"
  /\ rows' = [rows EXCEPT ![txn[c].intent] = txn[c].row]
  /\ Close(c)

(* DELETE /intents/{id}: soft_delete_intent. *)
ReadForDelete(c, i, orphan) ==
  /\ MayOpen(c)
  /\ Active(i)
  /\ Open(c, "delete", i, rows[i], "deleting", orphan)
  /\ UNCHANGED rows

(* Slip: the session writes back every column it read. *)
SoftDeleteWholeRow(c) ==
  /\ txn[c].op = "delete"
  /\ rows' = [rows EXCEPT ![txn[c].intent] =
       [txn[c].row EXCEPT !.phase = "deleting", !.orphan = @ \/ txn[c].orphan]]
  /\ Close(c)

SoftDelete(c) ==
  /\ txn[c].op = "delete"
  /\ LET t == txn[c] IN
       rows' = [rows EXCEPT
         ![t.intent].phase = IF t.row.phase = "deleting" THEN @ ELSE "deleting",
         ![t.intent].orphan = @ \/ t.orphan]
  /\ Close(c)

(* update_status: a row that is gone or soft-deleted is left alone. *)
ReadForStatus(c, i, phase) ==
  /\ MayOpen(c)
  /\ Active(i)
  /\ Open(c, "status", i, rows[i], phase, FALSE)
  /\ UNCHANGED rows

(* Slip: the phase is written whatever the row says. *)
Unguarded(old, new) == new

(* "deleting" is terminal: nothing but "deleted" may move it. *)
Guarded(old, new) == IF old = "deleting" /\ new # "deleted" THEN old ELSE new

WriteStatus(c) ==
  /\ txn[c].op = "status"
  /\ LET t == txn[c]
         phase == Guarded(t.row.phase, t.phase) IN
       rows' = [rows EXCEPT
         ![t.intent].phase = IF phase = t.row.phase THEN @ ELSE phase,
         ![t.intent].retired = @ \/ phase = "deleted"]
  /\ Close(c)

(* A session that dies or raises before its commit is rolled back. *)
Rollback(c) == txn[c] # NoTxn /\ Close(c) /\ UNCHANGED rows

--------------------------------------------------------------------------------
(* The store on its own: any client may run any transaction. *)

StoreNext ==
  \E c \in Clients :
    \/ \E i \in Intents, a \in Aliases, n \in ReplicaCounts : CheckAlias(c, i, a, n)
    \/ InsertIntent(c)
    \/ \E i \in Intents, orphan \in BOOLEAN : ReadForDelete(c, i, orphan)
    \/ SoftDelete(c)
    \/ \E i \in Intents, p \in Phases : ReadForStatus(c, i, p)
    \/ WriteStatus(c)
    \/ Rollback(c)

StoreSpec == StoreInit /\ [][StoreNext]_storeVars

--------------------------------------------------------------------------------
(* Properties. *)

(* update_status' guard: once a row is "deleting", the only phase it moves  *)
(* to is "deleted", so that no stale status write undoes a user's DELETE.   *)
DeletingIsTerminal ==
  [][\A i \in Intents : rows[i].phase = "deleting" =>
        rows'[i].phase \in {"deleting", "deleted"}]_rows

(* deleted_at is set once and for all: no transaction that read the row     *)
(* before may bring it back to the reconciler's list.                       *)
RetiredIsFinal ==
  [][\A i \in Intents : rows[i] # NoRow /\ rows[i].retired => rows'[i].retired]_rows

(* At most one active intent has an alias: create_intent answers 409 to a   *)
(* second one, and get_intent_by_alias expects one row at most.             *)
OneActivePerAlias ==
  \A i, j \in Intents :
    i # j /\ Active(i) /\ Active(j) => rows[i].alias # rows[j].alias
================================================================================
