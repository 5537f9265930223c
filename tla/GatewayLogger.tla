----------------------------- MODULE GatewayLogger -----------------------------
(***************************************************************************)
(* What one replica records of its requests (database/logs.py): the events *)
(* of route_request and stream_request (gateway.py) become one summary per *)
(* request, which waits in a buffer until a flush writes it.               *)
(***************************************************************************)
EXTENDS Integers, SequencesExt

CONSTANTS
  Requests,    \* what clients send
  Endpoints,   \* the API endpoints they come in by
  EndpointOf,  \* EndpointOf[r]: the one that r's API key was found to stand for
  Flushers,    \* who flush: Loop, and those who do it besides
  Loop,        \* the flush loop, and then stop()
  MaxAttempts, \* route_max_attempts
  Faults,      \* what may go wrong, see Spend
  MaxFaults    \* how many of them happen (a bound)

ASSUME LoggerAssumption ==
  /\ EndpointOf \in [Requests -> Endpoints]
  /\ Loop \in Flushers
  /\ MaxAttempts \in Nat \ {0}
  /\ MaxFaults \in Nat

VARIABLES
  pc,        \* pc[r]: where the request stands
  tries,     \* tries[r]: how many instances it was routed to
  inflight,  \* inflight[r]: what _inflight has for it
  buffer,    \* _request_buffer
  batch,     \* batch[f]: what a flush under way has taken from it
  table,     \* table[r]: the row of gateway_requests
  deleted,   \* the endpoints that were deleted
  up,        \* whether the process runs
  budget     \* faults that may still happen

requestVars == <<pc, tries>>
logVars == <<inflight, buffer, batch, table>>
vars == <<requestVars, logVars, deleted, up, budget>>

(* whole: made by request_start, so that client and start time are known;   *)
(* dated: it has a created_at.                                              *)
InProgress == [attempts: 0..MaxAttempts, whole: BOOLEAN, dated: BOOLEAN]
NoProgress == [attempts |-> -1, whole |-> FALSE, dated |-> FALSE]

Summary == [of: Requests, status: {"success", "missed", "error"},
            attempts: 1..MaxAttempts, whole: BOOLEAN]
NoSummary == [status |-> "none"]

TypeOK ==
  /\ pc \in [Requests -> {"idle", "find", "send", "rejected", "over", "broken"}]
  /\ tries \in [Requests -> 0..MaxAttempts]
  /\ inflight \in [Requests -> InProgress \union {NoProgress}]
  /\ buffer \in Seq(Summary)
  /\ batch \in [Flushers -> Seq(Summary)]
  /\ table \in [Requests -> Summary \union {NoSummary}]
  /\ deleted \subseteq Endpoints
  /\ up \in BOOLEAN
  /\ budget \in 0..MaxFaults

Init ==
  /\ pc = [r \in Requests |-> "idle"]
  /\ tries = [r \in Requests |-> 0]
  /\ inflight = [r \in Requests |-> NoProgress]
  /\ buffer = <<>>
  /\ batch = [f \in Flushers |-> <<>>]
  /\ table = [r \in Requests |-> NoSummary]
  /\ deleted = {}
  /\ up = TRUE
  /\ budget = MaxFaults

(* "unreported": a request breaks off outside of the try; "long_request":   *)
(* one takes longer than INFLIGHT_MAX_AGE_S; "db_error": a transaction      *)
(* fails; "overtaking": a flush overtakes an earlier one; "abandoned": the  *)
(* process ends while a flush is under way.                                 *)
Spend(kind) == kind \in Faults /\ budget > 0 /\ budget' = budget - 1

Goto(r, place) == pc' = [pc EXCEPT ![r] = place]

--------------------------------------------------------------------------------
(* log_event: it never waits, whatever its locks. *)

Progress(r, value) == inflight' = [inflight EXCEPT ![r] = value]

(* A request that was never routed counts one attempt all the same. *)
Counted(n) == IF n < 1 THEN 1 ELSE n

(* request_success or request_error: the summary is queued, from what is    *)
(* known of the request, if anything.                                       *)
Ends(r, status) ==
  /\ buffer' = Append(buffer, [of |-> r, status |-> status,
                               attempts |-> Counted(inflight[r].attempts),
                               whole |-> inflight[r].whole])
  /\ Progress(r, NoProgress)
  /\ UNCHANGED <<batch, table>>

(* _reap_stale_inflight, of an entry older than INFLIGHT_MAX_AGE_S: of a    *)
(* request that ended without an event, or of one that takes that long.     *)
Reap(r) ==
  /\ up
  /\ inflight[r] # NoProgress /\ inflight[r].dated
  /\ IF pc[r] = "broken" THEN UNCHANGED budget ELSE Spend("long_request")
  /\ Progress(r, NoProgress)
  /\ UNCHANGED <<requestVars, buffer, batch, table, deleted, up>>

--------------------------------------------------------------------------------
(* The events of a request. *)

(* Authenticated, perhaps by a cache that still has a deleted endpoint. *)
StartRequest(r) ==
  /\ up
  /\ pc[r] = "idle"
  /\ Goto(r, "find")
  /\ Progress(r, [attempts |-> 0, whole |-> TRUE, dated |-> TRUE])
  /\ UNCHANGED <<tries, buffer, batch, table, deleted, up, budget>>

(* Slip: what request_routed makes up for a reaped entry has no created_at. *)
RoutedUndated(r) ==
  /\ pc[r] = "find"
  /\ tries[r] < MaxAttempts
  /\ tries' = [tries EXCEPT ![r] = @ + 1]
  /\ Goto(r, "send")
  /\ Progress(r, IF inflight[r] = NoProgress
                 THEN [attempts |-> 1, whole |-> FALSE, dated |-> FALSE]
                 ELSE [inflight[r] EXCEPT !.attempts = @ + 1])
  /\ UNCHANGED <<buffer, batch, table, deleted, up, budget>>

Routed(r) ==
  /\ pc[r] = "find"
  /\ tries[r] < MaxAttempts
  /\ tries' = [tries EXCEPT ![r] = @ + 1]
  /\ Goto(r, "send")
  /\ Progress(r, IF inflight[r] = NoProgress
                 THEN [attempts |-> 1, whole |-> FALSE, dated |-> TRUE]
                 ELSE [inflight[r] EXCEPT !.attempts = @ + 1])
  /\ UNCHANGED <<buffer, batch, table, deleted, up, budget>>

(* request_reroute is an event only. *)
Reroute(r) ==
  /\ pc[r] = "send"
  /\ Goto(r, "find")
  /\ UNCHANGED <<tries, logVars, deleted, up, budget>>

Succeed(r) ==
  /\ pc[r] = "send"
  /\ Goto(r, "over") /\ Ends(r, "success")
  /\ UNCHANGED <<tries, deleted, up, budget>>

(* A status that is not retried: the error is reported, and raised ...  *)
Reject(r) ==
  /\ pc[r] = "send"
  /\ Goto(r, "rejected")
  /\ \E status \in {"missed", "error"} : Ends(r, status)
  /\ UNCHANGED <<tries, deleted, up, budget>>

(* ... and then caught, and reported once more.  Any other exception, and   *)
(* a client that hangs up between two lines of its stream, are reported     *)
(* once.                                                                    *)
Catch(r) ==
  /\ pc[r] \in {"send", "rejected"}
  /\ Goto(r, "over")
  /\ \E status \in {"missed", "error"} : Ends(r, status)
  /\ UNCHANGED <<tries, deleted, up, budget>>

GiveUp(r) ==
  /\ pc[r] = "find"
  /\ Goto(r, "over") /\ Ends(r, IF tries[r] = 0 THEN "missed" ELSE "error")
  /\ UNCHANGED <<tries, deleted, up, budget>>

(* The request ends where nothing reports it: it is cancelled, or Redis or  *)
(* the database fails outside of the try.                                   *)
Break(r) ==
  /\ pc[r] \in {"find", "send", "rejected"}
  /\ Spend("unreported")
  /\ Goto(r, "broken")
  /\ UNCHANGED <<tries, logVars, deleted, up>>

--------------------------------------------------------------------------------
(* _flush_all *)

Take(f) ==
  /\ up
  /\ batch[f] = <<>> /\ buffer # <<>>
  /\ batch' = [batch EXCEPT ![f] = buffer]
  /\ buffer' = <<>>
  /\ UNCHANGED <<requestVars, inflight, table, deleted, up, budget>>

First(r, taken) == SelectInSeq(taken, LAMBDA s : s.of = r)

(* Slip: on conflict, update. *)
InsertedOver(taken) ==
  [r \in Requests |-> IF First(r, taken) = 0 THEN table[r]
                     ELSE taken[SelectLastInSeq(taken, LAMBDA s : s.of = r)]]

(* A request has at most one row: on conflict, do nothing. *)
Inserted(taken) ==
  [r \in Requests |-> IF table[r] # NoSummary \/ First(r, taken) = 0 THEN table[r]
                     ELSE taken[First(r, taken)]]

(* gateway_requests.endpoint_id refers to an endpoint. *)
Refused(taken) ==
  \E r \in Requests : table[r] = NoSummary /\ First(r, taken) # 0
                       /\ EndpointOf[r] \in deleted

(* Two flushes under way, the later of which writes first: it has the       *)
(* second report of an error whose first one the other has still to write.  *)
Overtakes(f) ==
  \E g \in Flushers \ {f} : \E s \in Range(batch[f]), t \in Range(batch[g]) :
    s.of = t.of /\ t.whole /\ ~s.whole

(* Slip: what was queued meanwhile is cleared with what was written. *)
WriteAndClear(f) ==
  /\ batch[f] # <<>>
  /\ batch' = [batch EXCEPT ![f] = <<>>]
  /\ buffer' = <<>>
  /\ table' = IF Refused(batch[f]) THEN table ELSE Inserted(batch[f])
  /\ UNCHANGED <<requestVars, inflight, deleted, up, budget>>

(* One transaction; an error loses all of the batch. *)
Write(f) ==
  /\ batch[f] # <<>>
  /\ batch' = [batch EXCEPT ![f] = <<>>]
  /\ \/ ~Refused(batch[f]) /\ table' = Inserted(batch[f])
        /\ IF Overtakes(f) THEN Spend("overtaking") ELSE UNCHANGED budget
     \/ Refused(batch[f]) /\ UNCHANGED <<table, budget>>
     \/ Spend("db_error") /\ UNCHANGED table
  /\ UNCHANGED <<requestVars, inflight, buffer, deleted, up>>

(* The server has waited for its requests and stop() for the loop, whose    *)
(* last flush empties the buffer; nobody waits for the flushes that a full  *)
(* buffer has started.                                                      *)
Stop ==
  /\ up
  /\ \A r \in Requests : pc[r] \in {"idle", "over", "broken"}
  /\ buffer = <<>> /\ batch[Loop] = <<>>
  /\ IF \A f \in Flushers : batch[f] = <<>> THEN UNCHANGED budget ELSE Spend("abandoned")
  /\ up' = FALSE
  /\ batch' = [f \in Flushers |-> <<>>]
  /\ inflight' = [r \in Requests |-> NoProgress]
  /\ UNCHANGED <<requestVars, buffer, table, deleted>>

--------------------------------------------------------------------------------

Handle(r) ==
  StartRequest(r) \/ Routed(r) \/ Reroute(r) \/ Succeed(r) \/ Reject(r) \/ Catch(r) \/ GiveUp(r)

(* DELETE /api/endpoints/{id}, here or on another replica. *)
DeleteEndpoint(e) ==
  /\ up
  /\ e \notin deleted
  /\ deleted' = deleted \union {e}
  /\ UNCHANGED <<requestVars, logVars, up, budget>>

Next ==
  \/ \E r \in Requests : Handle(r) \/ Break(r) \/ Reap(r)
  \/ \E f \in Flushers : Take(f) \/ Write(f)
  \/ Stop
  \/ \E e \in Endpoints : DeleteEndpoint(e)

Spec == Init /\ [][Next]_vars

(* Requests have timeouts, and the loop goes round. *)
FairSpec ==
  /\ Spec
  /\ \A r \in Requests : WF_vars(Handle(r)) /\ WF_vars(Reap(r))
  /\ WF_vars(Take(Loop)) /\ \A f \in Flushers : WF_vars(Write(f))

--------------------------------------------------------------------------------
(* Properties. *)

Reported(r) == pc[r] \in {"rejected", "over"}
Recorded(r) ==
  \/ table[r] # NoSummary
  \/ First(r, buffer) # 0
  \/ \E f \in Flushers : First(r, batch[f]) # 0

Undisturbed == budget = MaxFaults /\ deleted = {}

(* Undisturbed, no summary is lost between the buffer, the flushes that run *)
(* side by side and the table, up to an orderly stop.                       *)
NoneLost == Undisturbed => \A r \in Requests : Reported(r) => Recorded(r)

(* Undisturbed, the row of a request says how it ended and after how many   *)
(* attempts, for which client and since when: that an error is reported     *)
(* twice does not overwrite what the first report knew.                     *)
RowsTrue ==
  Undisturbed =>
    \A r \in Requests : table[r] # NoSummary =>
      table[r].whole /\ table[r].attempts = Counted(tries[r])

(* Nothing stays in _inflight: what no event ends is reaped, even if it was *)
(* reaped before and made up again.                                         *)
InflightDrains == <>[](\A r \in Requests : inflight[r] = NoProgress)

(* Tenants have separate logs: what is recorded of a request is lost by a   *)
(* failure only, or with its own endpoint.                                  *)
SeparateLogs ==
  budget = MaxFaults =>
    \A r \in Requests : Reported(r) => Recorded(r) \/ EndpointOf[r] \in deleted
================================================================================
