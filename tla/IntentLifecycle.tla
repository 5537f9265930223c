---------------------------- MODULE IntentLifecycle ----------------------------
(***************************************************************************)
(* What the intents API promises its users: an intent is submitted, served *)
(* by instances while it lives, deleted once, and gone only when nothing   *)
(* that carries its name is left; then nothing ever serves it again.  The  *)
(* instances an orphaning DELETE leaves behind no longer count.            *)
(***************************************************************************)
CONSTANT Intents

VARIABLES
  life,   \* life[i]: where intent i stands
  served  \* the intents some host holds an instance of

vars == <<life, served>>

TypeOK ==
  /\ life \in [Intents -> {"absent", "live", "deleting", "gone"}]
  /\ served \subseteq Intents

Init == life = [i \in Intents |-> "absent"] /\ served = {}

Moves(i, from, to) == life[i] = from /\ life' = [life EXCEPT ![i] = to]

Submit(i) == Moves(i, "absent", "live") /\ UNCHANGED served

(* Instances come and go, until the intent is gone. *)
Serve(i) ==
  /\ life[i] \in {"live", "deleting"}
  /\ served' \in {served \union {i}, served \ {i}}
  /\ UNCHANGED life

Delete(i) == Moves(i, "live", "deleting") /\ served' \in {served, served \ {i}}

Finish(i) == Moves(i, "deleting", "gone") /\ i \notin served /\ UNCHANGED served

Next == \E i \in Intents : Submit(i) \/ Serve(i) \/ Delete(i) \/ Finish(i)

Spec == Init /\ [][Next]_vars
================================================================================
