------------------------------- MODULE JobsProofs -------------------------------
(***************************************************************************)
(* What holds of the jobs table for any number of jobs and hosts and under *)
(* every race: the row exists before anything of the job exists elsewhere, *)
(* and "completed" only ever travels from the host to the row.             *)
(***************************************************************************)
EXTENDS Jobs, TLAPS

(* Until the row is inserted, nobody but create_job knows the job. *)
Unborn(j) ==
  row[j] = NoRow =>
    /\ j \notin wire
    /\ work[j] = "absent"
    /\ events[j] = {}
    /\ known[j] = "absent"
    /\ cancel[j] = "idle"
    /\ api[j] # "wait"

Ordered(j) ==
  /\ api[j] \in {"idle", "insert"} => row[j] = NoRow
  /\ j \in wire => work[j] = "absent"
  /\ "job_completed" \in events[j] => work[j] = "completed"

Inv ==
  /\ TypeOK
  /\ \A j \in Jobs : Unborn(j)
  /\ \A j \in Jobs : Ordered(j)
  /\ NoFalseCompletion
  /\ Enriched

LEMMA NoRowIsNotARow == NoRow \notin Row
BY DEF NoRow, Row, Statuses

LEMMA InitInv == Init => Inv
BY NoRowIsNotARow DEF Init, Inv, TypeOK, Unborn, Ordered, NoFalseCompletion, Enriched, NoRow

LEMMA SetStatusTypes ==
  ASSUME TypeOK, NEW j \in Jobs, NEW s \in Statuses, SetStatus(j, s)
  PROVE  /\ row' \in [Jobs -> Row \union {NoRow}]
         /\ \A k \in Jobs : row'[k] = NoRow <=> row[k] = NoRow
         /\ \A k \in Jobs \ {j} : row'[k] = row[k]
         /\ row'[j].status = s \/ row'[j] = NoRow
BY NoRowIsNotARow DEF SetStatus, TypeOK, Row

(* Steps of create_job. *)
LEMMA SubmitInv ==
  ASSUME Inv, NEW j \in Jobs, Submit(j) \/ Unanswered(j) \/ Crash(j)
  PROVE  Inv'
<1>1. CASE SelectHost(j)
  BY <1>1 DEF SelectHost, Api, Inv, TypeOK, Unborn, Ordered, NoFalseCompletion, Enriched
<1>2. CASE AddJob(j)
  <2> DEFINE new == [status |-> "pending", host |-> target[j]]
  <2>1. target[j] \in registered => new \in Row
    BY DEF Inv, TypeOK, Row, Statuses
  <2>2. new # NoRow
    BY DEF NoRow
  <2> QED BY <1>2, <2>1, <2>2
       DEF AddJob, Api, Inv, TypeOK, Unborn, Ordered, NoFalseCompletion, Enriched
<1>3. CASE Answered(j) \/ Unanswered(j)
  <2>1. PICK s \in {"pending", "running", "failed"} : SetStatus(j, s)
    BY <1>3 DEF Answered, Unanswered
  <2>2. api[j] = "wait" /\ api' = [api EXCEPT ![j] = "done"]
    BY <1>3 DEF Answered, Unanswered, Api
  <2>3. UNCHANGED <<registered, target, wire, answer, work, events, cancel, known>>
    BY <1>3 DEF Answered, Unanswered
  <2>4. /\ row' \in [Jobs -> Row \union {NoRow}]
        /\ \A k \in Jobs : row'[k] = NoRow <=> row[k] = NoRow
        /\ \A k \in Jobs \ {j} : row'[k] = row[k]
        /\ row'[j].status # "completed"
    BY <2>1, SetStatusTypes DEF Inv, Statuses, NoRow
  <2>5. TypeOK' /\ Enriched'
    BY <2>2, <2>3, <2>4 DEF Inv, TypeOK, Enriched
  <2>6. \A k \in Jobs : Unborn(k)' /\ Ordered(k)'
    BY <2>2, <2>3, <2>4 DEF Inv, TypeOK, Unborn, Ordered
  <2>7. NoFalseCompletion'
    BY <2>3, <2>4 DEF Inv, NoFalseCompletion
  <2> QED BY <2>5, <2>6, <2>7 DEF Inv
<1>4. CASE Crash(j)
  BY <1>4 DEF Crash, Api, Inv, TypeOK, Unborn, Ordered, NoFalseCompletion, Enriched
<1> QED BY <1>1, <1>2, <1>3, <1>4 DEF Submit

(* Steps of the host. *)
LEMMA HostInv ==
  ASSUME Inv, NEW j \in Jobs, Accept(j) \/ Start(j) \/ Finish(j)
  PROVE  Inv'
<1>1. CASE Accept(j)
  BY <1>1 DEF Accept, Inv, TypeOK, Unborn, Ordered, NoFalseCompletion, Enriched
<1>2. CASE Start(j)
  BY <1>2 DEF Start, Emit, submission, Inv, TypeOK, Events, Unborn, Ordered, NoFalseCompletion, Enriched
<1>3. CASE Finish(j)
  BY <1>3 DEF Finish, Emit, submission, Inv, TypeOK, Events, Ended, Unborn, Ordered,
              NoFalseCompletion, Enriched
<1> QED BY <1>1, <1>2, <1>3

(* A lookup that finds the row's table entry keeps no miss. *)
LEMMA RememberTypes ==
  ASSUME Inv, NEW j \in Jobs, row[j] # NoRow
  PROVE  /\ Remember(j) \in [Jobs -> {"absent", "id", "none"}]
         /\ \A k \in Jobs : Remember(j)[k] # "none"
         /\ \A k \in Jobs : row[k] = NoRow => Remember(j)[k] = "absent"
BY DEF Inv, TypeOK, Enriched, Unborn, Remember

(* Steps of the host's event handlers. *)
LEMMA EventsInv ==
  ASSUME Inv, NEW j \in Jobs, StepLog(j) \/ \E e \in Events : Handle(j, e)
  PROVE  Inv'
<1>1. CASE StepLog(j)
  <2>1. row[j] # NoRow /\ known' = Remember(j)
    BY <1>1 DEF StepLog, Inv, Unborn
  <2> QED BY <1>1, <2>1, RememberTypes
       DEF StepLog, submission, Inv, TypeOK, Unborn, Ordered, NoFalseCompletion, Enriched
<1>2. ASSUME NEW e \in Events, Handle(j, e)
      PROVE  Inv'
  <2>1. row[j] # NoRow /\ e \in events[j]
    BY <1>2 DEF Handle, Due, Inv, Unborn
  <2>2. /\ events' = [events EXCEPT ![j] = @ \ {e}]
        /\ UNCHANGED <<registered, submission, work, cancel>>
    BY <1>2 DEF Handle
  <2>3. CASE LookupRaises(j) /\ UNCHANGED <<row, known>>
    BY <2>2, <2>3 DEF submission, Inv, TypeOK, Unborn, Ordered, NoFalseCompletion, Enriched
  <2>4. CASE ~LookupRaises(j)
    <3>1. SetStatus(j, StatusOf(e)) /\ StatusOf(e) \in Statuses
      BY <1>2, <2>4 DEF Handle, StatusOf, Events, Statuses
    <3>2. StatusOf(e) = "completed" => work[j] = "completed"
      BY <2>1 DEF StatusOf, Events, Inv, Ordered
    <3>3. /\ row' \in [Jobs -> Row \union {NoRow}]
          /\ \A k \in Jobs : row'[k] = NoRow <=> row[k] = NoRow
          /\ \A k \in Jobs \ {j} : row'[k] = row[k]
          /\ row'[j].status = StatusOf(e)
      BY <2>1, <3>1, SetStatusTypes DEF Inv
    <3>4. /\ known' \in [Jobs -> {"absent", "id", "none"}]
          /\ \A k \in Jobs : known'[k] # "none"
          /\ \A k \in Jobs : row[k] = NoRow => known'[k] = "absent"
      <4>1. known' = Remember(j) \/ known' = [Remember(j) EXCEPT ![j] = "absent"]
        BY <1>2, <2>4 DEF Handle
      <4> QED BY <2>1, <4>1, RememberTypes
    <3>5. TypeOK' /\ Enriched'
      BY <2>2, <3>3, <3>4 DEF submission, Inv, TypeOK, Enriched
    <3>6. \A k \in Jobs : Unborn(k)' /\ Ordered(k)'
      BY <2>1, <2>2, <3>3, <3>4 DEF submission, Inv, TypeOK, Unborn, Ordered
    <3>7. NoFalseCompletion'
      BY <2>2, <3>2, <3>3 DEF Inv, NoFalseCompletion
    <3> QED BY <3>5, <3>6, <3>7 DEF Inv
  <2> QED BY <1>2, <2>3, <2>4 DEF Handle
<1> QED BY <1>1, <1>2

(* Steps of cancel_job. *)
LEMMA CancelInv ==
  ASSUME Inv, NEW j \in Jobs, CancelReads(j) \/ CancelCalls(j) \/ CancelWrites(j)
  PROVE  Inv'
<1>1. CASE CancelReads(j)
  BY <1>1 DEF CancelReads, GetJob, Cancel, submission, Inv, TypeOK, Unborn, Ordered,
              NoFalseCompletion, Enriched
<1>2. CASE CancelCalls(j)
  <2>1. row[j] # NoRow
    BY <1>2 DEF CancelCalls, Inv, Unborn
  <2>2. \E p \in {"write", "over"} : cancel' = [cancel EXCEPT ![j] = p]
    BY <1>2 DEF CancelCalls, Cancel
  <2>3. \/ UNCHANGED <<work, events>>
        \/ /\ work[j] \in {"accepted", "running"} /\ work' = [work EXCEPT ![j] = "cancelled"]
           /\ events' = [events EXCEPT ![j] = @ \union {"job_cancelled"}]
    BY <1>2 DEF CancelCalls, Stops, Emit
  <2>4. UNCHANGED <<registered, row, api, target, wire, answer, known>>
    BY <1>2 DEF CancelCalls, submission
  <2>5. TypeOK'
    BY <2>2, <2>3, <2>4 DEF Inv, TypeOK, Events, Ended
  <2>6. \A k \in Jobs : Unborn(k)'
    BY <2>1, <2>2, <2>3, <2>4 DEF Inv, TypeOK, Unborn
  <2>7. \A k \in Jobs : Ordered(k)'
    <3>1. \A k \in Jobs : /\ work'[k] = "absent" <=> work[k] = "absent"
                          /\ work[k] = "completed" => work'[k] = "completed"
                          /\ "job_completed" \in events'[k] => "job_completed" \in events[k]
      BY <2>3 DEF Inv, TypeOK
    <3> QED BY <2>4, <3>1 DEF Inv, Ordered
  <2>8. NoFalseCompletion'
    BY <2>3, <2>4 DEF Inv, TypeOK, NoFalseCompletion
  <2>9. Enriched'
    BY <2>4 DEF Inv, Enriched
  <2> QED BY <2>5, <2>6, <2>7, <2>8, <2>9 DEF Inv
<1>3. CASE CancelWrites(j)
  <2>1. /\ cancel' = [cancel EXCEPT ![j] = "over"] /\ row[j] # NoRow
        /\ UNCHANGED <<registered, api, target, wire, answer, work, events, known>>
    BY <1>3 DEF CancelWrites, Cancel, submission, Inv, Unborn
  <2>2. /\ row' \in [Jobs -> Row \union {NoRow}]
        /\ \A k \in Jobs : row'[k] = NoRow <=> row[k] = NoRow
        /\ \A k \in Jobs \ {j} : row'[k] = row[k]
        /\ row'[j].status # "completed"
    BY <1>3, SetStatusTypes DEF CancelWrites, Inv, Statuses, NoRow
  <2>3. TypeOK' /\ Enriched'
    BY <2>1, <2>2 DEF Inv, TypeOK, Enriched
  <2>4. \A k \in Jobs : Unborn(k)' /\ Ordered(k)'
    BY <2>1, <2>2 DEF Inv, TypeOK, Unborn, Ordered
  <2>5. NoFalseCompletion'
    BY <2>1, <2>2 DEF Inv, NoFalseCompletion
  <2> QED BY <2>3, <2>4, <2>5 DEF Inv
<1> QED BY <1>1, <1>2, <1>3

(* A deleted host takes its name out of the rows, not their status. *)
LEMMA RemoveHostInv == ASSUME Inv, NEW h \in Hosts, RemoveHost(h) PROVE Inv'
<1>1. /\ row' \in [Jobs -> Row \union {NoRow}]
      /\ \A j \in Jobs : row'[j] = NoRow <=> row[j] = NoRow
      /\ \A j \in Jobs : row'[j].status = row[j].status
  BY JobsAssumption, NoRowIsNotARow DEF RemoveHost, Inv, TypeOK, Row, NoRow, Statuses
<1> QED BY <1>1 DEF RemoveHost, submission, Inv, TypeOK, Unborn, Ordered, NoFalseCompletion, Enriched

(* The inductive invariant: types, and what must come before what. *)
THEOREM Invariant == Spec => []Inv
<1>1. Inv /\ [Next]_vars => Inv'
  <2> SUFFICES ASSUME Inv, [Next]_vars PROVE Inv'
    OBVIOUS
  <2>1. CASE Next
    BY <2>1, SubmitInv, HostInv, EventsInv, CancelInv, RemoveHostInv DEF Next
  <2>2. CASE UNCHANGED vars
    BY <2>2 DEF vars, Inv, TypeOK, Unborn, Ordered, NoFalseCompletion, Enriched
  <2> QED BY <2>1, <2>2
<1> QED BY <1>1, InitInv, PTL DEF Spec

(* Whatever answers, events and cancellations race, the table calls a job   *)
(* completed only when its host has completed it.                           *)
THEOREM CompletionsAreReal == Spec => []NoFalseCompletion
<1>1. Inv => NoFalseCompletion
  BY DEF Inv
<1> QED BY <1>1, Invariant, PTL

(* create_job inserts the row before its host can send anything, so that    *)
(* _get_correlation_id never caches a miss for a job.                       *)
THEOREM AlwaysEnriched == Spec => []Enriched
<1>1. Inv => Enriched
  BY DEF Inv
<1> QED BY <1>1, Invariant, PTL

(* Whatever races in create_job, the hosts' handlers, cancel_job and the     *)
(* removal of a host, a row keeps one of JobStatus' values and loses its    *)
(* host only to NULL, and the cache of correlation identifiers holds what   *)
(* _get_correlation_id puts there.                                          *)
THEOREM TypeCorrect == Spec => []TypeOK
<1>1. Inv => TypeOK
  BY DEF Inv
<1> QED BY <1>1, Invariant, PTL
--------------------------------------------------------------------------------
(* What the row says when the host has told everything. *)

(* The event by which a host tells how a job ended. *)
EndOf(status) ==
  CASE status = "completed" -> "job_completed"
    [] status = "failed" -> "job_failed"
    [] status = "cancelled" -> "job_cancelled"

Agrees(j) == row[j].status \in {work[j], "cancelled"}

(* Nothing ends before create_job has its answer; the start is told before  *)
(* the end; and until the end is told, the row may say anything.            *)
Told(j) ==
  /\ work[j] \in {"absent", "accepted"} => events[j] = {}
  /\ work[j] = "running" => events[j] \subseteq {"job_started"}
  /\ work[j] \in Ended =>
       /\ api[j] = "done"
       /\ events[j] \subseteq {"job_started", EndOf(work[j])}
       /\ "job_started" \in events[j] => EndOf(work[j]) \in events[j]
       /\ row[j].host # "null" => Agrees(j) \/ EndOf(work[j]) \in events[j]
  /\ cancel[j] # "idle" => api[j] = "done"

ToldInv == Inv /\ \A j \in Jobs : Told(j)

(* The part of Truthful that is about states: of a job that has ended and   *)
(* whose events were handled, the row says what became of it.               *)
InTheEnd ==
  \A j \in Jobs : work[j] \in Ended /\ events[j] = {} /\ row[j].host # "null" => Agrees(j)
LEMMA Untouched ==
  ASSUME NEW k \in Jobs, Told(k),
         work'[k] = work[k], events'[k] = events[k], api'[k] = api[k], cancel'[k] = cancel[k],
         row'[k].status = row[k].status, row'[k].host # "null" => row[k].host # "null"
  PROVE  Told(k)'
BY DEF Told, Agrees

(* A status update leaves the host of a row, and other rows, alone. *)
LEMMA SetStatusKeeps ==
  ASSUME TypeOK, NEW j \in Jobs, NEW s \in Statuses, SetStatus(j, s)
  PROVE  /\ \A k \in Jobs : row'[k].host = row[k].host
         /\ \A k \in Jobs \ {j} : row'[k] = row[k]
         /\ row[j] # NoRow => row'[j].status = s
<1>1. row[j] = NoRow \/ \E r \in Statuses, h \in Hosts \union {"null"} :
                          row[j] = [status |-> r, host |-> h]
  BY DEF TypeOK, Row
<1> QED BY <1>1 DEF SetStatus, TypeOK

(* While create_job is at work nothing has ended, so what it writes is not  *)
(* what the row says in the end.                                            *)
LEMMA SubmitTold ==
  ASSUME ToldInv, NEW j \in Jobs, Submit(j) \/ Unanswered(j) \/ Crash(j), NEW k \in Jobs
  PROVE  Told(k)'
<1>1. Told(k) /\ Told(j) /\ TypeOK
  BY DEF ToldInv, Inv
<1>2. UNCHANGED <<work, events, cancel>>
  BY DEF Submit, SelectHost, AddJob, Answered, Unanswered, Crash
<1>3. api[j] \in {"idle", "insert", "wait"}
  BY DEF Submit, SelectHost, AddJob, Answered, Unanswered, Crash
<1>4. \E p \in {"insert", "wait", "done"} : api' = [api EXCEPT ![j] = p]
  BY DEF Submit, SelectHost, AddJob, Answered, Unanswered, Crash, Api
<1>5. work[j] \notin Ended /\ cancel[j] = "idle"
  BY <1>1, <1>3 DEF Told
<1>6. CASE k = j
  BY <1>1, <1>2, <1>5, <1>6 DEF Told
<1>7. CASE k # j
  <2>1. row'[k] = row[k]
    <3>1. CASE Answered(j) \/ Unanswered(j)
      <4>1. PICK s \in Statuses : SetStatus(j, s)
        BY <3>1 DEF Answered, Unanswered, Statuses
      <4> QED BY <1>1, <1>7, <4>1, SetStatusKeeps
    <3>2. CASE ~(Answered(j) \/ Unanswered(j))
      BY <1>1, <1>7, <3>2 DEF Submit, SelectHost, AddJob, Crash, TypeOK
    <3> QED BY <3>1, <3>2
  <2> QED BY <1>1, <1>2, <1>4, <1>7, <2>1, Untouched DEF TypeOK
<1> QED BY <1>6, <1>7

(* The host ends a job only when create_job has its answer, and says so.    *)
LEMMA HostTold ==
  ASSUME ToldInv, "late_answer" \notin Races,
         NEW j \in Jobs, Accept(j) \/ Start(j) \/ Finish(j), NEW k \in Jobs
  PROVE  Told(k)'
<1>1. Told(k) /\ Told(j) /\ Ordered(j) /\ TypeOK
  BY DEF ToldInv, Inv
<1>2. UNCHANGED <<row, api, cancel>>
  BY DEF Accept, Start, Finish, submission
<1>3. CASE Accept(j)
  <2>1. work[j] = "absent" /\ events[j] = {} /\ UNCHANGED events
    BY <1>1, <1>3 DEF Accept, Ordered, Told
  <2>2. work' = work \/ work' = [work EXCEPT ![j] = "accepted"]
    BY <1>3 DEF Accept
  <2>3. CASE work' = work
    BY <1>1, <1>2, <2>1, <2>3 DEF Told, Agrees
  <2>4. CASE work' = [work EXCEPT ![j] = "accepted"]
    BY <1>1, <1>2, <2>1, <2>4 DEF Told, Agrees, TypeOK, Ended
  <2> QED BY <2>2, <2>3, <2>4
<1>4. CASE Start(j)
  BY <1>1, <1>2, <1>4 DEF Start, Emit, Told, Agrees, TypeOK, Ended
<1>5. CASE Finish(j)
  <2>1. work[j] = "running" /\ api[j] = "done" /\ events[j] \subseteq {"job_started"}
    BY <1>1, <1>5 DEF Finish, Settled, Told
  <2>2. \E s \in {"completed", "failed"} :
          /\ work' = [work EXCEPT ![j] = s]
          /\ events' = [events EXCEPT ![j] = @ \union {EndOf(s)}]
    BY <1>5 DEF Finish, Emit, EndOf
  <2> QED BY <1>1, <1>2, <2>1, <2>2 DEF Told, Agrees, TypeOK, Ended
<1> QED BY <1>3, <1>4, <1>5

(* The end is handled after the start, and brings the row what became of    *)
(* the job; if the lookup raises, the row has no host any more.             *)
LEMMA EventsTold ==
  ASSUME ToldInv, "overtaking" \notin Races,
         NEW j \in Jobs, StepLog(j) \/ \E e \in Events : Handle(j, e), NEW k \in Jobs
  PROVE  Told(k)'
<1>1. Told(k) /\ Told(j) /\ Unborn(j) /\ TypeOK
  BY DEF ToldInv, Inv
<1>2. CASE StepLog(j)
  BY <1>1, <1>2, Untouched DEF StepLog, submission
<1>3. ASSUME NEW e \in Events, Handle(j, e)
      PROVE  Told(k)'
  <2>1. /\ e \in events[j] /\ (e = "job_started" \/ "job_started" \notin events[j])
        /\ events' = [events EXCEPT ![j] = @ \ {e}]
        /\ UNCHANGED <<api, work, cancel>>
    BY <1>3 DEF Handle, Due, submission
  <2>2. row[j] # NoRow
    BY <1>1, <2>1 DEF Unborn
  <2>3. \/ UNCHANGED row /\ row[j].host = "null"
        \/ SetStatus(j, StatusOf(e)) /\ StatusOf(e) \in Statuses
    BY <1>3 DEF Handle, LookupRaises, GetJob, StatusOf, Events, Statuses
  <2>4. /\ \A i \in Jobs : row'[i].host = row[i].host
        /\ \A i \in Jobs \ {j} : row'[i] = row[i]
        /\ row[j].host # "null" => row'[j].status = StatusOf(e)
    BY <1>1, <2>2, <2>3, SetStatusKeeps
  <2>5. CASE k # j
    BY <1>1, <2>1, <2>4, <2>5, Untouched DEF TypeOK
  <2>6. CASE k = j
    <3>1. events'[j] = events[j] \ {e}
      BY <1>1, <2>1 DEF TypeOK
    <3>2. CASE work[j] \notin Ended
      BY <1>1, <2>1, <2>6, <3>1, <3>2 DEF Told
    <3>3. CASE work[j] \in Ended
      <4>1. e = "job_started" \/ e = EndOf(work[j])
        BY <1>1, <2>1, <3>3 DEF Told
      <4>2. CASE e = "job_started"
        <5>1. EndOf(work[j]) # "job_started"
          BY <3>3 DEF EndOf, Ended
        <5>2. EndOf(work[j]) \in events'[j]
          BY <1>1, <2>1, <3>1, <3>3, <4>2, <5>1 DEF Told
        <5> QED BY <1>1, <2>1, <2>6, <3>1, <3>3, <5>2 DEF Told, Agrees, Ended
      <4>3. CASE e = EndOf(work[j])
        <5>1. e # "job_started" /\ StatusOf(e) = work[j]
          BY <3>3, <4>3 DEF EndOf, StatusOf, Ended
        <5>2. events'[j] = {}
          BY <1>1, <2>1, <3>1, <3>3, <4>3, <5>1 DEF Told
        <5> QED BY <1>1, <2>1, <2>4, <2>6, <3>3, <5>1, <5>2 DEF Told, Agrees, Ended
      <4> QED BY <4>1, <4>2, <4>3
    <3> QED BY <3>2, <3>3
  <2> QED BY <2>5, <2>6
<1> QED BY <1>2, <1>3

(* A cancellation that stops the job has its own event; one that writes     *)
(* after the end writes "cancelled".                                        *)
LEMMA CancelTold ==
  ASSUME ToldInv, "late_answer" \notin Races,
         NEW j \in Jobs, CancelReads(j) \/ CancelCalls(j) \/ CancelWrites(j), NEW k \in Jobs
  PROVE  Told(k)'
<1>1. Told(k) /\ Told(j) /\ Unborn(j) /\ TypeOK
  BY DEF ToldInv, Inv
<1>2. CASE CancelReads(j)
  <2>1. api[j] = "done" /\ UNCHANGED <<row, api, work, events>>
    BY <1>2 DEF CancelReads, Settled, submission
  <2>2. cancel' = [cancel EXCEPT ![j] = "call"]
    BY <1>2 DEF CancelReads, Cancel
  <2> QED BY <1>1, <2>1, <2>2 DEF Told, Agrees, TypeOK
<1>3. CASE CancelCalls(j)
  <2>1. api[j] = "done" /\ UNCHANGED <<row, api>>
    BY <1>1, <1>3 DEF CancelCalls, Told, submission
  <2>2. \E p \in {"write", "over"} : cancel' = [cancel EXCEPT ![j] = p]
    BY <1>3 DEF CancelCalls, Cancel
  <2>3. \/ UNCHANGED <<work, events>>
        \/ /\ work[j] \in {"accepted", "running"} /\ work' = [work EXCEPT ![j] = "cancelled"]
           /\ events' = [events EXCEPT ![j] = @ \union {"job_cancelled"}]
    BY <1>3 DEF CancelCalls, Stops, Emit
  <2>4. CASE k # j
    BY <1>1, <2>1, <2>2, <2>3, <2>4, Untouched DEF TypeOK
  <2>5. CASE k = j /\ UNCHANGED <<work, events>>
    BY <1>1, <2>1, <2>5 DEF Told, Agrees
  <2>6. CASE k = j /\ ~UNCHANGED <<work, events>>
    <3>1. events[j] \subseteq {"job_started"}
      BY <1>1, <2>3, <2>6 DEF Told
    <3> QED BY <1>1, <2>1, <2>3, <2>6, <3>1 DEF Told, TypeOK, EndOf, Ended
  <2> QED BY <2>4, <2>5, <2>6
<1>4. CASE CancelWrites(j)
  <2>1. /\ cancel[j] = "write" /\ cancel' = [cancel EXCEPT ![j] = "over"]
        /\ UNCHANGED <<api, work, events>> /\ SetStatus(j, "cancelled")
    BY <1>4 DEF CancelWrites, Cancel, submission
  <2>2. row[j] # NoRow
    BY <1>1, <2>1 DEF Unborn
  <2>3. /\ row'[j].status = "cancelled"
        /\ \A i \in Jobs \ {j} : row'[i] = row[i]
    BY <1>1, <2>1, <2>2, SetStatusKeeps DEF Statuses
  <2>4. CASE k # j
    BY <1>1, <2>1, <2>3, <2>4, Untouched DEF TypeOK
  <2>5. CASE k = j
    BY <1>1, <2>1, <2>3, <2>5 DEF Told, Agrees
  <2> QED BY <2>4, <2>5
<1> QED BY <1>2, <1>3, <1>4

LEMMA RemoveHostTold ==
  ASSUME ToldInv, NEW h \in Hosts, RemoveHost(h), NEW k \in Jobs
  PROVE  Told(k)'
<1>1. Told(k) /\ TypeOK
  BY DEF ToldInv, Inv
<1>2. UNCHANGED <<api, work, events, cancel>>
  BY DEF RemoveHost, submission
<1>3. row'[k].status = row[k].status /\ (row'[k].host # "null" => row[k].host # "null")
  <2>1. row[k] = NoRow \/ \E r \in Statuses, g \in Hosts \union {"null"} :
                            row[k] = [status |-> r, host |-> g]
    BY <1>1 DEF TypeOK, Row
  <2> QED BY <2>1 DEF RemoveHost
<1> QED BY <1>1, <1>2, <1>3, Untouched

LEMMA ToldInitInv == Init => ToldInv
<1> SUFFICES ASSUME Init PROVE \A j \in Jobs : Told(j)
  BY InitInv DEF ToldInv
<1> QED BY DEF Init, Told, Ended

(* When the host's submission is answered before the job ends and its       *)
(* events keep their order, the row of a job that has ended and whose       *)
(* events were handled (_handle_job_lifecycle) says what became of it, or   *)
(* that it was cancelled, whichever of create_job's answers, its timeout,   *)
(* cancel_job's writes, the events and a crash wrote it before; and nothing *)
(* that comes later brings such a job a new event.                          *)
THEOREM ToldInTheEnd ==
  ASSUME "late_answer" \notin Races, "overtaking" \notin Races
  PROVE  Spec => /\ []InTheEnd
                 /\ [][\A j \in Jobs : work[j] \in Ended =>
                         work'[j] = work[j] /\ events'[j] \subseteq events[j]]_vars
<1> DEFINE Over == \A j \in Jobs : work[j] \in Ended =>
                     work'[j] = work[j] /\ events'[j] \subseteq events[j]
<1>1. ToldInv /\ [Next]_vars => ToldInv'
  <2> SUFFICES ASSUME ToldInv, [Next]_vars PROVE ToldInv'
    OBVIOUS
  <2>1. CASE Next
    <3>1. Inv'
      BY <2>1, SubmitInv, HostInv, EventsInv, CancelInv, RemoveHostInv DEF Next, ToldInv
    <3>2. \A k \in Jobs : Told(k)'
      BY <2>1, SubmitTold, HostTold, EventsTold, CancelTold, RemoveHostTold DEF Next
    <3> QED BY <3>1, <3>2 DEF ToldInv
  <2>2. CASE UNCHANGED vars
    BY <2>2 DEF vars, ToldInv, Told, Agrees, Inv, TypeOK, Unborn, Ordered, NoFalseCompletion,
                Enriched
  <2> QED BY <2>1, <2>2
<1>2. ToldInv => InTheEnd
  BY DEF ToldInv, Told, InTheEnd
<1>3. ToldInv /\ [Next]_vars => [Over]_vars
  <2> SUFFICES ASSUME ToldInv, Next, NEW k \in Jobs, work[k] \in Ended
               PROVE  work'[k] = work[k] /\ events'[k] \subseteq events[k]
    BY DEF Over
  <2>1. TypeOK
    BY DEF ToldInv, Inv
  <2>2. CASE \E j \in Jobs : Submit(j) \/ Unanswered(j) \/ Crash(j) \/ StepLog(j)
                             \/ CancelReads(j) \/ CancelWrites(j)
    BY <2>2 DEF Submit, SelectHost, AddJob, Answered, Unanswered, Crash, StepLog, CancelReads,
                CancelWrites
  <2>3. ASSUME NEW j \in Jobs, Accept(j) \/ Start(j) \/ Finish(j)
        PROVE  work'[k] = work[k] /\ events'[k] \subseteq events[k]
    <3>1. work[j] \notin Ended
      BY <2>3 DEF Accept, Start, Finish, Ended, ToldInv, Inv, Ordered
    <3> QED BY <2>1, <2>3, <3>1 DEF Accept, Start, Finish, Emit, TypeOK
  <2>4. ASSUME NEW j \in Jobs, NEW e \in Events, Handle(j, e)
        PROVE  work'[k] = work[k] /\ events'[k] \subseteq events[k]
    BY <2>1, <2>4 DEF Handle, TypeOK
  <2>5. ASSUME NEW j \in Jobs, CancelCalls(j)
        PROVE  work'[k] = work[k] /\ events'[k] \subseteq events[k]
    BY <2>1, <2>5 DEF CancelCalls, Stops, Emit, TypeOK, Ended
  <2>6. CASE \E h \in Hosts : RemoveHost(h)
    BY <2>6 DEF RemoveHost
  <2> QED BY <2>2, <2>3, <2>4, <2>5, <2>6 DEF Next
<1>4. Spec => []ToldInv
  BY <1>1, ToldInitInv, PTL DEF Spec
<1> HIDE DEF Over
<1>5. Spec => []InTheEnd
  BY <1>2, <1>4, PTL
<1>6. Spec => [][Over]_vars
  BY <1>3, <1>4, PTL DEF Spec
<1> QED BY <1>5, <1>6 DEF Over
================================================================================
