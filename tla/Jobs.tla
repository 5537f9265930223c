---------------------------------- MODULE Jobs ----------------------------------
(***************************************************************************)
(* A job step's way through the control plane: POST, GET and DELETE of     *)
(* /api/jobs (app/jobs/router.py), the jobs table, and the lifecycle       *)
(* events its host sends (app/socketio_app/host_handlers.py).  Every write *)
(* of the row is one unconditional UPDATE.  Requests, events and a host    *)
(* that answers late meet in the row in any order the code allows.         *)
(***************************************************************************)
EXTENDS Naturals, FiniteSets

CONSTANTS
  Jobs,        \* identifiers of jobs, each submitted once
  Hosts,       \* training hosts
  CacheLimit,  \* _MAX_CORRELATION_CACHE
  Races        \* what the world may do, see RaceKinds

(* "unreachable": requests to a host fail, whether it served them or not;   *)
(* "late_answer": a job may end before its submission is answered;          *)
(* "overtaking": events are handled in any order.                           *)
RaceKinds == {"unreachable", "late_answer", "overtaking", "crash", "remove_host"}

ASSUME JobsAssumption ==
  /\ CacheLimit \in Nat \ {0}
  /\ Races \subseteq RaceKinds
  /\ "null" \notin Hosts

VARIABLES
  registered,  \* hosts in the hosts table
  row,         \* row[j]: the committed row of job j
  api,         \* api[j]: where create_job stands
  target,      \* target[j]: the host it selected
  wire,        \* jobs whose POST is on its way
  answer,      \* answer[j]: what the host answered to it
  work,        \* work[j]: the job on its host
  events,      \* events[j]: lifecycle events not yet handled
  cancel,      \* cancel[j]: where the request to cancel j stands
  known        \* known[j]: what _correlation_cache has of j

vars == <<registered, row, api, target, wire, answer, work, events, cancel, known>>
submission == <<api, target, wire, answer>>

Statuses == {"pending", "running", "completed", "failed", "cancelled"}
Ended == {"completed", "failed", "cancelled"}

(* host_id becomes NULL when its host is deleted (ON DELETE SET NULL). *)
Row == [status: Statuses, host: Hosts \union {"null"}]
NoRow == [status |-> "absent", host |-> "null"]

Events == {"job_started", "job_completed", "job_failed", "job_cancelled"}

TypeOK ==
  /\ registered \subseteq Hosts
  /\ row \in [Jobs -> Row \union {NoRow}]
  /\ api \in [Jobs -> {"idle", "insert", "wait", "done"}]
  /\ target \in [Jobs -> Hosts \union {"null"}]
  /\ wire \subseteq Jobs
  /\ answer \in [Jobs -> {"none", "accepted", "refused"}]
  /\ work \in [Jobs -> {"absent", "accepted", "running"} \union Ended]
  /\ events \in [Jobs -> SUBSET Events]
  /\ cancel \in [Jobs -> {"idle", "call", "write", "over"}]
  /\ known \in [Jobs -> {"absent", "id", "none"}]

Init ==
  /\ registered = Hosts
  /\ row = [j \in Jobs |-> NoRow]
  /\ api = [j \in Jobs |-> "idle"]
  /\ target = [j \in Jobs |-> "null"]
  /\ wire = {}
  /\ answer = [j \in Jobs |-> "none"]
  /\ work = [j \in Jobs |-> "absent"]
  /\ events = [j \in Jobs |-> {}]
  /\ cancel = [j \in Jobs |-> "idle"]
  /\ known = [j \in Jobs |-> "absent"]

--------------------------------------------------------------------------------
(* The table. *)

(* Slip: a finished job's row is not written any more. *)
SetStatusOnce(j, status) ==
  row' = [row EXCEPT ![j] = IF @.status \in Ended THEN @ ELSE [@ EXCEPT !.status = status]]

(* update_job_status: UPDATE ... WHERE id = j, whatever the row says. *)
SetStatus(j, status) ==
  row' = [row EXCEPT ![j] = IF @ = NoRow THEN @ ELSE [@ EXCEPT !.status = status]]

(* get_job: a Job needs a host_id, so that a row without one raises. *)
GetJob(j) ==
  IF row[j] = NoRow THEN "missing"
  ELSE IF row[j].host = "null" THEN "error" ELSE "job"

--------------------------------------------------------------------------------
(* POST /api/jobs. *)

Api(j, place) == api' = [api EXCEPT ![j] = place]

(* Slip: the job goes to the host before it is in the table. *)
SelectAndPost(j) ==
  /\ api[j] = "idle"
  /\ \E h \in registered : target' = [target EXCEPT ![j] = h]
  /\ Api(j, "insert")
  /\ wire' = wire \union {j}
  /\ UNCHANGED <<registered, row, answer, work, events, cancel, known>>

(* select_host: the eligible host with the most disk. *)
SelectHost(j) ==
  /\ api[j] = "idle"
  /\ \E h \in registered : target' = [target EXCEPT ![j] = h]
  /\ Api(j, "insert")
  /\ UNCHANGED <<registered, row, wire, answer, work, events, cancel, known>>

(* Insert the pending row, then POST to the host.  A host that was deleted   *)
(* in between violates the row's foreign key.                               *)
AddJob(j) ==
  /\ api[j] = "insert"
  /\ \/ /\ target[j] \in registered
        /\ row' = [row EXCEPT ![j] = [status |-> "pending", host |-> target[j]]]
        /\ wire' = wire \union {j}
        /\ Api(j, "wait")
     \/ /\ target[j] \notin registered
        /\ Api(j, "done")
        /\ UNCHANGED <<row, wire>>
  /\ UNCHANGED <<registered, target, answer, work, events, cancel, known>>

(* The host answers the status it put the job in, or refuses it; an unknown  *)
(* status counts as running.                                                *)
Answered(j) ==
  /\ api[j] = "wait"
  /\ \/ answer[j] = "accepted" /\ \E s \in {"pending", "running"} : SetStatus(j, s)
     \/ answer[j] = "refused" /\ SetStatus(j, "failed")
  /\ Api(j, "done")
  /\ UNCHANGED <<registered, target, wire, answer, work, events, cancel, known>>

(* job_submission_timeout_s, or the connection fails; the host may already   *)
(* have the job, or get it yet.                                             *)
Unanswered(j) ==
  /\ "unreachable" \in Races
  /\ api[j] = "wait"
  /\ SetStatus(j, "failed")
  /\ Api(j, "done")
  /\ UNCHANGED <<registered, target, wire, answer, work, events, cancel, known>>

(* The replica that runs create_job dies. *)
Crash(j) ==
  /\ "crash" \in Races
  /\ api[j] \in {"insert", "wait"}
  /\ Api(j, "done")
  /\ UNCHANGED <<registered, row, target, wire, answer, work, events, cancel, known>>

Submit(j) == SelectHost(j) \/ AddJob(j) \/ Answered(j)

--------------------------------------------------------------------------------
(* The host. *)

Emit(j, e) == events' = [events EXCEPT ![j] = @ \union {e}]

Accept(j) ==
  /\ j \in wire
  /\ wire' = wire \ {j}
  /\ \/ /\ work' = [work EXCEPT ![j] = "accepted"]
        /\ answer' = [answer EXCEPT ![j] = "accepted"]
     \/ answer' = [answer EXCEPT ![j] = "refused"] /\ UNCHANGED work
  /\ UNCHANGED <<registered, row, api, target, events, cancel, known>>

Start(j) ==
  /\ work[j] = "accepted"
  /\ work' = [work EXCEPT ![j] = "running"]
  /\ Emit(j, "job_started")
  /\ UNCHANGED <<registered, row, submission, cancel, known>>

Settled(j) == "late_answer" \in Races \/ api[j] = "done"

Finish(j) ==
  /\ work[j] = "running"
  /\ Settled(j)
  /\ \/ work' = [work EXCEPT ![j] = "completed"] /\ Emit(j, "job_completed")
     \/ work' = [work EXCEPT ![j] = "failed"] /\ Emit(j, "job_failed")
  /\ UNCHANGED <<registered, row, submission, cancel, known>>

--------------------------------------------------------------------------------
(* The host's events. *)

(* Slip: the event's own name is stored. *)
StatusOfName(e) == e
(* _LIFECYCLE_STATUS *)
StatusOf(e) ==
  CASE e = "job_started" -> "running"
    [] e = "job_completed" -> "completed"
    [] e = "job_failed" -> "failed"
    [] e = "job_cancelled" -> "cancelled"

Kept == {k \in Jobs : known[k] # "absent"}

(* _get_correlation_id: looked up once, and the cache emptied when full. *)
Remember(j) ==
  IF known[j] # "absent" THEN known
  ELSE [k \in Jobs |-> IF k = j THEN IF row[j] = NoRow THEN "none" ELSE "id"
                       ELSE IF Cardinality(Kept) >= CacheLimit THEN "absent" ELSE known[k]]

(* get_job raises inside the handler. *)
LookupRaises(j) == known[j] = "absent" /\ GetJob(j) = "error"

StepLog(j) ==
  /\ work[j] # "absent"
  /\ ~LookupRaises(j)
  /\ known' = Remember(j)
  /\ UNCHANGED <<registered, row, submission, work, events, cancel>>

Due(j, e) ==
  e \in events[j] /\ ("overtaking" \in Races \/ e = "job_started" \/ "job_started" \notin events[j])

(* _handle_job_lifecycle: events may wait for each other in any order, since  *)
(* the server runs each handler in a task of its own.                        *)
Handle(j, e) ==
  /\ Due(j, e)
  /\ events' = [events EXCEPT ![j] = @ \ {e}]
  /\ \/ /\ ~LookupRaises(j)
        /\ SetStatus(j, StatusOf(e))
        /\ known' = IF e = "job_started" THEN Remember(j)
                    ELSE [Remember(j) EXCEPT ![j] = "absent"]
     \/ LookupRaises(j) /\ UNCHANGED <<row, known>>
  /\ UNCHANGED <<registered, submission, work, cancel>>

--------------------------------------------------------------------------------
(* DELETE /api/jobs/{id}. *)

Cancel(j, place) == cancel' = [cancel EXCEPT ![j] = place]

CancelReads(j) ==
  /\ cancel[j] = "idle"
  /\ Settled(j)
  /\ GetJob(j) = "job"
  /\ row[j].status \notin {"cancelled", "completed"}
  /\ Cancel(j, "call")
  /\ UNCHANGED <<registered, row, submission, work, events, known>>

Stops(j) ==
  /\ work' = [work EXCEPT ![j] = "cancelled"]
  /\ Emit(j, "job_cancelled")

(* DELETE on the host: 404 for a job it does not have and 409 for one that   *)
(* has ended count as done, and so does a host that cannot be reached; any  *)
(* other status is a 502, a deleted host a 404.                             *)
CancelCalls(j) ==
  /\ cancel[j] = "call"
  /\ \/ target[j] \notin registered /\ Cancel(j, "over") /\ UNCHANGED <<work, events>>
     \/ /\ target[j] \in registered
        /\ \/ work[j] \in {"accepted", "running"} /\ Stops(j)
           \/ work[j] \notin {"accepted", "running"} /\ UNCHANGED <<work, events>>
        /\ Cancel(j, "write")
     \/ /\ target[j] \in registered
        /\ "unreachable" \in Races
        /\ Cancel(j, "write") \/ Cancel(j, "over")
        /\ UNCHANGED <<work, events>>
  /\ UNCHANGED <<registered, row, submission, known>>

(* Slip: 409 is taken for a completed job. *)
CancelWritesOutcome(j) ==
  /\ cancel[j] = "write"
  /\ SetStatus(j, IF work[j] \in {"completed", "failed"} THEN "completed" ELSE "cancelled")
  /\ Cancel(j, "over")
  /\ UNCHANGED <<registered, submission, work, events, known>>

CancelWrites(j) ==
  /\ cancel[j] = "write"
  /\ SetStatus(j, "cancelled")
  /\ Cancel(j, "over")
  /\ UNCHANGED <<registered, submission, work, events, known>>

--------------------------------------------------------------------------------

(* DELETE /hosts/{id}. *)
RemoveHost(h) ==
  /\ "remove_host" \in Races
  /\ h \in registered
  /\ registered' = registered \ {h}
  /\ row' = [j \in Jobs |-> IF row[j].host = h THEN [row[j] EXCEPT !.host = "null"] ELSE row[j]]
  /\ UNCHANGED <<submission, work, events, cancel, known>>

Next ==
  \/ \E j \in Jobs :
       \/ Submit(j) \/ Unanswered(j) \/ Crash(j)
       \/ Accept(j) \/ Start(j) \/ Finish(j)
       \/ StepLog(j) \/ \E e \in Events : Handle(j, e)
       \/ CancelReads(j) \/ CancelCalls(j) \/ CancelWrites(j)
  \/ \E h \in Hosts : RemoveHost(h)

Spec == Init /\ [][Next]_vars

(* Coroutines go on and delivered events are handled. *)
Fairness ==
  \A j \in Jobs :
    /\ WF_vars(Submit(j))
    /\ WF_vars(CancelCalls(j) \/ CancelWrites(j))
    /\ \A e \in Events : WF_vars(Handle(j, e))

FairSpec == Spec /\ Fairness

--------------------------------------------------------------------------------
(* Properties. *)

(* The table never calls a job completed that its host has not completed:   *)
(* neither a late answer, an event nor a cancellation that met 409 does.    *)
NoFalseCompletion ==
  \A j \in Jobs : row[j].status = "completed" => work[j] = "completed"

(* The correlation cache never holds a miss for a job of this API: the row  *)
(* is there before its host can send anything, so every log line and event  *)
(* is enriched (_get_correlation_id would keep the miss).                   *)
Enriched == \A j \in Jobs : known[j] # "none"

(* What a job's row says in the end is what became of the job on its host,  *)
(* or that it was cancelled, even when the submission timed out and the row *)
(* said failed.  Not so when answers come after the end, events overtake    *)
(* each other, or the host was deleted.                                     *)
Truthful ==
  \A j \in Jobs :
    <>[](work[j] \in Ended /\ row[j].host # "null" => row[j].status \in {work[j], "cancelled"})

(* "Look up a job by ID or raise 404" (router.py): every job in the table   *)
(* can be read.                                                             *)
Readable == \A j \in Jobs : GetJob(j) # "error"
================================================================================
