------------------------------ MODULE HostChannel ------------------------------
(***************************************************************************)
(* How control knows a solar-host: the Socket.IO namespace it connects to  *)
(* (app/socketio_app/host_handlers.py), the connection maps in Redis       *)
(* (app/redis_state/hosts.py), the administrator's answers to a host that  *)
(* is not known yet, and the refresh of the model registry that every      *)
(* replica runs (app/gateway.py).  One machine, with one API key, connects *)
(* again and again; every handler is cut at its awaits.                    *)
(***************************************************************************)
EXTENDS Integers, FiniteSets

CONSTANTS
  Rows,        \* identifiers that rows of the host table may have (a bound)
  Sids,        \* the machine's connections, numbered in their order (a bound)
  Models,      \* what the machine may have running
  Refreshers,  \* the tasks that refresh the registry, on any replica
  Admins,      \* the administrator's requests
  Task,        \* Task[a]: what request a may ask for
  Faults,      \* what may go wrong, see FaultKinds
  MaxFaults    \* how many of them happen (a bound)

Tasks == {"approve", "reject", "register", "remove"}

(* "drop": a connection breaks; "halt": the machine stops, and may start    *)
(* again; "change": it runs something else; "poll_error": it answers a poll *)
(* with an error; "db_error": a row cannot be added; "crash": control dies. *)
FaultKinds == {"drop", "halt", "change", "poll_error", "db_error", "crash"}

ASSUME HostChannelAssumption ==
  /\ Sids \subseteq Nat \ {0} /\ Rows \subseteq Nat \ {0}
  /\ IsFiniteSet(Sids) /\ IsFiniteSet(Rows)
  /\ Task \in [Admins -> SUBSET Tasks]
  /\ Faults \subseteq FaultKinds
  /\ MaxFaults \in Nat

VARIABLES
  rows,       \* rows[h]: the status of host h in the table, or "none"
  seat,       \* SID_MAP: the host a connection speaks for, or 0
  current,    \* CONNECTED_MAP: the connection a host speaks through, or 0
  listed,     \* INSTANCES_MAP: what runs on a host
  since,      \* DISCONNECT_TS_MAP: how long ago a host disconnected
  pending,    \* PENDING_MAP: the hosts waiting for approval, by connection
  pendingSid, \* PENDING_SID_MAP: the connections that have such an entry
  registry,   \* the published registry
  up,         \* the machine is running
  link,       \* link[s]: the machine's end of connection s
  running,    \* what it runs
  unsent,     \* it has yet to tell control what it runs
  at,         \* at[s]: where the handlers of connect and disconnect stand
  row,        \* row[s]: the host those handlers have looked up
  events,     \* what the machine has sent and control has not yet stored
  admin,      \* admin[a]: where the administrator's request stands
  ref,        \* ref[r]: the local variables of a refresh
  steady,     \* the lists are known and stay what they are (a choice)
  budget      \* faults that may still happen

redis == <<seat, current, listed, since, pending, pendingSid, registry>>
machine == <<up, link, running, unsent>>
handlers == <<at, row>>
vars == <<rows, redis, machine, handlers, events, admin, ref, steady, budget>>

Lists == SUBSET Models
NoEntry == [waiting |-> FALSE, list |-> {}]
Entry == {NoEntry} \union [waiting: {TRUE}, list: Lists]

(* Its row is known once its task has found whom it is about. *)
Event == [sid: Sids, list: Lists, at: {"read", "pending"}, row: {0}]
           \union [sid: Sids, list: Lists, at: {"host"}, row: Rows]

Admin == [at: {"idle", "remove", "add", "register", "list", "disconnect", "failed", "done"},
          task: Tasks \union {"none"}, sid: Sids \union {0},
          list: Lists, row: Rows \union {0}]
NoAdmin == [at |-> "idle", task |-> "none", sid |-> 0, list |-> {}, row |-> 0]

(* unsorted .. poll: the hosts still to be checked, read, aged and polled;  *)
(* answers: those whose answer is still to be stored, with what they run.   *)
Ref == [at: {"idle", "busy"}, hosts: SUBSET Rows, unsorted: SUBSET Rows,
        ws: SUBSET Rows, http: SUBSET Rows, poll: SUBSET Rows,
        answers: SUBSET (Rows \X Lists), found: SUBSET (Rows \X Models),
        failed: BOOLEAN]
NoRef == [at |-> "idle", hosts |-> {}, unsorted |-> {}, ws |-> {}, http |-> {},
          poll |-> {}, answers |-> {}, found |-> {}, failed |-> FALSE]

TypeOK ==
  /\ rows \in [Rows -> {"none", "online", "offline", "error"}]
  /\ seat \in [Sids -> Rows \union {0}]
  /\ current \in [Rows -> Sids \union {0}]
  /\ listed \in [Rows -> Lists]
  /\ since \in [Rows -> {"never", "grace", "long"}]
  /\ pending \in [Sids -> Entry]
  /\ pendingSid \subseteq Sids
  /\ registry \subseteq Rows \X Models
  /\ up \in BOOLEAN
  /\ link \in [Sids -> {"unused", "open", "closed"}]
  /\ running \in Lists
  /\ unsent \in BOOLEAN
  /\ at \in [Sids -> {"unused", "lookup", "register", "clear", "online", "served",
                      "stamp", "offline", "unpend", "done"}]
  /\ row \in [Sids -> Rows \union {0}]
  /\ events \subseteq Event
  /\ admin \in [Admins -> Admin]
  /\ ref \in [Refreshers -> Ref]
  /\ steady \in BOOLEAN
  /\ budget \in 0..MaxFaults

First(S, h) == h \in S /\ \A g \in S : h <= g

Listing(h, list) == {h} \X list

(* The machine may be registered already, once or twice, and its list known *)
(* from before.                                                             *)
Init ==
  /\ running \in Lists \ {{}}
  /\ \E known \in SUBSET Rows :
       /\ \A h \in known, g \in Rows : g < h => g \in known
       /\ rows = [h \in Rows |-> IF h \in known THEN "offline" ELSE "none"]
  /\ seat = [s \in Sids |-> 0]
  /\ current = [h \in Rows |-> 0]
  /\ listed \in [Rows -> {{}, running}]
  /\ \A h \in Rows : rows[h] = "none" => listed[h] = {}
  /\ since = [h \in Rows |-> "never"]
  /\ pending = [s \in Sids |-> NoEntry]
  /\ pendingSid = {}
  /\ registry = {}
  /\ up = TRUE
  /\ link = [s \in Sids |-> "unused"]
  /\ unsent = FALSE
  /\ at = [s \in Sids |-> "unused"]
  /\ row = [s \in Sids |-> 0]
  /\ events = {}
  /\ admin = [a \in Admins |-> NoAdmin]
  /\ ref = [r \in Refreshers |-> NoRef]
  /\ steady \in {b \in BOOLEAN :
                  b => \A h \in Rows : listed[h] = IF rows[h] = "none" THEN {} ELSE running}
  /\ budget = MaxFaults

Spend(kind) == kind \in Faults /\ budget > 0 /\ budget' = budget - 1

Goto(s, place) == at' = [at EXCEPT ![s] = place]
Forgets(s) == row' = [row EXCEPT ![s] = 0]

(* update_host_status: no row, no effect. *)
SetStatus(h, status) ==
  rows' = [rows EXCEPT ![h] = IF @ = "none" THEN "none" ELSE status]

--------------------------------------------------------------------------------
(* The machine (external). *)

Open(s) == link[s] = "open"

(* It connects whenever it has no connection, and says what it runs once it *)
(* is acknowledged or told to wait, and whenever that changes.              *)
Connect(s) ==
  /\ up /\ ~ \E t \in Sids : Open(t)
  /\ link[s] = "unused" /\ \A t \in Sids : t < s => link[t] # "unused"
  /\ link' = [link EXCEPT ![s] = "open"]
  /\ Goto(s, "lookup")
  /\ UNCHANGED <<rows, redis, up, running, unsent, row, events, admin, ref, steady, budget>>

Close(s) == link' = [link EXCEPT ![s] = "closed"]

Drop(s) ==
  /\ Open(s) /\ Spend("drop")
  /\ Close(s)
  /\ UNCHANGED <<rows, redis, up, running, unsent, handlers, events, admin, ref, steady>>

Halt ==
  /\ up /\ Spend("halt")
  /\ up' = FALSE
  /\ link' = [s \in Sids |-> IF Open(s) THEN "closed" ELSE link[s]]
  /\ unsent' = FALSE
  /\ UNCHANGED <<rows, redis, running, handlers, events, admin, ref, steady>>

Start ==
  /\ ~up /\ up' = TRUE
  /\ UNCHANGED <<rows, redis, link, running, unsent, handlers, events, admin, ref,
                 steady, budget>>

Change ==
  /\ up /\ ~steady /\ Spend("change")
  /\ running' \in Lists \ {running}
  /\ unsent' = \E s \in Sids : Open(s)
  /\ UNCHANGED <<rows, redis, up, link, handlers, events, admin, ref, steady>>

Send(s) ==
  /\ Open(s) /\ at[s] = "served" /\ unsent
  /\ unsent' = FALSE
  /\ events' = events \union {[sid |-> s, list |-> running, at |-> "read", row |-> 0]}
  /\ UNCHANGED <<rows, redis, up, link, running, handlers, admin, ref, steady, budget>>

GraceEnds(h) ==
  /\ since[h] = "grace"
  /\ since' = [since EXCEPT ![h] = "long"]
  /\ UNCHANGED <<rows, seat, current, listed, pending, pendingSid, registry, machine,
                 handlers, events, admin, ref, steady, budget>>

--------------------------------------------------------------------------------
(* host_connect: the key is looked up, then the connection takes the host's *)
(* seat, the disconnect times are cleared and the row is marked online; an  *)
(* unknown key waits for approval.  Two rows with the key are an error that *)
(* the library answers by refusing the connection.                          *)

Keyed == {h \in Rows : rows[h] # "none"}

Seated(s) ==
  /\ \E h \in Keyed : Keyed = {h} /\ row' = [row EXCEPT ![s] = h]
  /\ Goto(s, "register")
  /\ UNCHANGED <<pending, pendingSid, link, unsent>>

Waits(s) ==
  /\ Keyed = {}
  /\ pending' = [pending EXCEPT ![s] = [waiting |-> TRUE, list |-> {}]]
  /\ pendingSid' = pendingSid \union {s}
  /\ Goto(s, "served")
  /\ unsent' = Open(s)
  /\ UNCHANGED <<row, link>>

Refused(s) ==
  /\ Cardinality(Keyed) > 1
  /\ Close(s)
  /\ Goto(s, "done")
  /\ UNCHANGED <<row, pending, pendingSid, unsent>>

(* Slip: a host that waits is not written to the pending maps. *)
LookupForgets(s) ==
  /\ at[s] = "lookup"
  /\ \/ Seated(s)
     \/ Keyed = {} /\ Goto(s, "served") /\ UNCHANGED <<row, link, unsent, pending, pendingSid>>
     \/ Refused(s)
  /\ UNCHANGED <<rows, seat, current, listed, since, registry, up, running, events,
                 admin, ref, steady, budget>>
Lookup(s) ==
  /\ at[s] = "lookup"
  /\ Seated(s) \/ Waits(s) \/ Refused(s)
  /\ UNCHANGED <<rows, seat, current, listed, since, registry, up, running, events,
                 admin, ref, steady, budget>>

(* register_host *)
Seat(s, h) ==
  /\ seat' = [seat EXCEPT ![s] = h]
  /\ current' = [current EXCEPT ![h] = s]

Register(s) ==
  /\ at[s] = "register"
  /\ Seat(s, row[s])
  /\ Goto(s, "clear")
  /\ UNCHANGED <<rows, listed, since, pending, pendingSid, registry, machine, row,
                 events, admin, ref, steady, budget>>

ClearTimes(s) ==
  /\ at[s] = "clear"
  /\ since' = [since EXCEPT ![row[s]] = "never"]
  /\ Goto(s, "online")
  /\ UNCHANGED <<rows, seat, current, listed, pending, pendingSid, registry, machine,
                 row, events, admin, ref, steady, budget>>

Online(s) ==
  /\ at[s] = "online"
  /\ SetStatus(row[s], "online")
  /\ Goto(s, "served") /\ Forgets(s)
  /\ unsent' = (unsent \/ Open(s))
  /\ UNCHANGED <<redis, up, link, running, events, admin, ref, steady, budget>>

--------------------------------------------------------------------------------
(* host_disconnect, which runs once the connect handler is through. *)

(* Slip: the seat is freed whoever holds it now. *)
UnregisterAnyway(s) ==
  /\ at[s] = "served" /\ link[s] = "closed"
  /\ seat' = [seat EXCEPT ![s] = 0]
  /\ IF seat[s] # 0
     THEN /\ current' = [current EXCEPT ![seat[s]] = 0]
          /\ row' = [row EXCEPT ![s] = seat[s]]
          /\ Goto(s, "stamp")
     ELSE Goto(s, "unpend") /\ UNCHANGED <<current, row>>
  /\ UNCHANGED <<rows, listed, since, pending, pendingSid, registry, machine, events,
                 admin, ref, steady, budget>>
Unregister(s) ==
  /\ at[s] = "served" /\ link[s] = "closed"
  /\ seat' = [seat EXCEPT ![s] = 0]
  /\ IF seat[s] # 0 /\ current[seat[s]] = s
     THEN /\ current' = [current EXCEPT ![seat[s]] = 0]
          /\ row' = [row EXCEPT ![s] = seat[s]]
          /\ Goto(s, "stamp")
     ELSE Goto(s, "unpend") /\ UNCHANGED <<current, row>>
  /\ UNCHANGED <<rows, listed, since, pending, pendingSid, registry, machine, events,
                 admin, ref, steady, budget>>

Stamp(s) ==
  /\ at[s] = "stamp"
  /\ since' = [since EXCEPT ![row[s]] = "grace"]
  /\ Goto(s, "offline")
  /\ UNCHANGED <<rows, seat, current, listed, pending, pendingSid, registry, machine,
                 row, events, admin, ref, steady, budget>>

Offline(s) ==
  /\ at[s] = "offline"
  /\ SetStatus(row[s], "offline")
  /\ Goto(s, "done") /\ Forgets(s)
  /\ UNCHANGED <<redis, machine, events, admin, ref, steady, budget>>

(* remove_pending_by_sid *)
Unpend(s) ==
  /\ at[s] = "unpend"
  /\ IF s \in pendingSid
     THEN /\ pendingSid' = pendingSid \ {s}
          /\ pending' = [pending EXCEPT ![s] = NoEntry]
     ELSE UNCHANGED <<pendingSid, pending>>
  /\ Goto(s, "done")
  /\ UNCHANGED <<rows, seat, current, listed, since, registry, machine, row, events,
                 admin, ref, steady, budget>>

--------------------------------------------------------------------------------
(* host_registration and host_instances_update: each event has a task of    *)
(* its own, that looks up whom the connection speaks for and then stores    *)
(* the list; for a host that waits, only a registration does.               *)

(* Slip: an event of a connection that speaks for nobody is stored too. *)
ReadEventAnyway(e) ==
  /\ e \in events /\ e.at = "read"
  /\ events' = (events \ {e}) \union {[e EXCEPT !.at = "host", !.row = seat[e.sid]]}
  /\ UNCHANGED <<rows, redis, machine, handlers, admin, ref, steady, budget>>
ReadEvent(e) ==
  LET known == seat[e.sid] # 0
      waits == e.sid \in pendingSid /\ pending[e.sid].waiting IN
  /\ e \in events /\ e.at = "read"
  /\ events' = (events \ {e}) \union
       (IF known THEN {[e EXCEPT !.at = "host", !.row = seat[e.sid]]}
        ELSE IF waits THEN {[e EXCEPT !.at = "pending"]} ELSE {})
  /\ UNCHANGED <<rows, redis, machine, handlers, admin, ref, steady, budget>>

(* set_host_instances, or update_pending whether or not the entry is there. *)
StoreEvent(e) ==
  /\ e \in events /\ e.at # "read"
  /\ events' = events \ {e}
  /\ IF e.at = "pending"
     THEN /\ pending' = [pending EXCEPT ![e.sid] = [waiting |-> TRUE, list |-> e.list]]
          /\ UNCHANGED listed
     ELSE /\ listed' = [listed EXCEPT ![e.row] = e.list]
          /\ UNCHANGED pending
  /\ UNCHANGED <<rows, seat, current, since, pendingSid, registry, machine, handlers,
                 admin, ref, steady, budget>>

--------------------------------------------------------------------------------
(* The administrator's requests (routes/management/hosts.py). *)

Goes(a, place) == admin' = [admin EXCEPT ![a].at = place]
Ends(a) == admin' = [admin EXCEPT ![a] = [NoAdmin EXCEPT !.at = "done"]]

(* approve_host and reject_host: remove_pending reads the entry, ... *)
Take(a, s) ==
  /\ admin[a].at = "idle" /\ ~steady
  /\ pending[s].waiting
  /\ \E t \in Task[a] \intersect {"approve", "reject"} :
       admin' = [admin EXCEPT ![a] = [NoAdmin EXCEPT !.at = "remove", !.task = t, !.sid = s,
                                                     !.list = pending[s].list]]
  /\ UNCHANGED <<rows, redis, machine, handlers, events, ref, steady, budget>>

(* ... and deletes it in a second trip. *)
RemoveEntry(a) ==
  /\ admin[a].at = "remove"
  /\ pending' = [pending EXCEPT ![admin[a].sid] = NoEntry]
  /\ pendingSid' = pendingSid \ {admin[a].sid}
  /\ Goes(a, IF admin[a].task = "approve" THEN "add" ELSE "disconnect")
  /\ UNCHANGED <<rows, seat, current, listed, since, registry, machine, handlers, events,
                 ref, steady, budget>>

(* An identifier that no row has had: uuid4. *)
Unheard == {h \in Rows :
  /\ rows[h] = "none" /\ current[h] = 0 /\ since[h] = "never" /\ listed[h] = {}
  /\ \A s \in Sids : seat[s] # h /\ row[s] # h
  /\ \A r \in Refreshers : h \notin ref[r].hosts}

AddRow(a) ==
  /\ admin[a].at = "add"
  /\ \/ /\ \E h \in Rows :
             /\ First(Unheard, h)
             /\ rows' = [rows EXCEPT ![h] = "online"]
             /\ admin' = [admin EXCEPT ![a].at = "register", ![a].row = h]
        /\ UNCHANGED budget
     \/ Spend("db_error") /\ Goes(a, "failed") /\ UNCHANGED rows
  /\ UNCHANGED <<redis, machine, handlers, events, ref, steady>>

(* register_host for a connection that may have closed meanwhile. *)
Promote(a) ==
  /\ admin[a].at = "register"
  /\ Seat(admin[a].sid, admin[a].row)
  /\ Goes(a, "list")
  /\ UNCHANGED <<rows, listed, since, pending, pendingSid, registry, machine, handlers,
                 events, ref, steady, budget>>

ListInstances(a) ==
  /\ admin[a].at = "list"
  /\ listed' = IF admin[a].list = {} THEN listed
               ELSE [listed EXCEPT ![admin[a].row] = admin[a].list]
  /\ unsent' = (unsent \/ Open(admin[a].sid))
  /\ Ends(a)
  /\ UNCHANGED <<rows, seat, current, since, pending, pendingSid, registry, up, link,
                 running, handlers, events, ref, steady, budget>>

Disconnect(a) ==
  /\ admin[a].at = "disconnect"
  /\ IF Open(admin[a].sid) THEN Close(admin[a].sid) ELSE UNCHANGED link
  /\ Ends(a)
  /\ UNCHANGED <<rows, redis, up, running, unsent, handlers, events, ref, steady, budget>>

(* register_host and remove_host of the REST API: the table only. *)
PreRegister(a) ==
  /\ admin[a].at = "idle" /\ ~steady /\ "register" \in Task[a]
  /\ \E h \in Rows :
       /\ First(Unheard, h)
       /\ rows' = [rows EXCEPT ![h] = "offline"]
  /\ Ends(a)
  /\ UNCHANGED <<redis, machine, handlers, events, ref, steady, budget>>

RemoveRow(a) ==
  /\ admin[a].at = "idle" /\ ~steady /\ "remove" \in Task[a]
  /\ \E h \in Keyed : rows' = [rows EXCEPT ![h] = "none"]
  /\ Ends(a)
  /\ UNCHANGED <<redis, machine, handlers, events, ref, steady, budget>>

--------------------------------------------------------------------------------
(* refresh_model_registry *)

Begin(r) ==
  /\ ref[r].at = "idle"
  /\ ref' = [ref EXCEPT ![r] = [NoRef EXCEPT !.at = "busy", !.hosts = Keyed, !.unsorted = Keyed]]
  /\ UNCHANGED <<rows, redis, machine, handlers, events, admin, steady, budget>>

(* is_host_connected, for one host after the other. *)
Sort(r, h) ==
  /\ First(ref[r].unsorted, h)
  /\ ref' = [ref EXCEPT ![r].unsorted = @ \ {h},
                        ![r].ws = IF current[h] # 0 THEN @ \union {h} ELSE @,
                        ![r].http = IF current[h] = 0 THEN @ \union {h} ELSE @]
  /\ UNCHANGED <<rows, redis, machine, handlers, events, admin, steady, budget>>

(* A connected host: its list, and its row is marked online; without a list *)
(* it is polled.                                                            *)
(* Slip: its row is left alone. *)
ReadListOnly(r, h) ==
  /\ ref[r].unsorted = {} /\ First(ref[r].ws, h)
  /\ ref' = [ref EXCEPT ![r].ws = @ \ {h},
                        ![r].poll = IF listed[h] = {} THEN @ \union {h} ELSE @,
                        ![r].found = @ \union Listing(h, listed[h])]
  /\ UNCHANGED <<rows, redis, machine, handlers, events, admin, steady, budget>>
ReadList(r, h) ==
  /\ ref[r].unsorted = {} /\ First(ref[r].ws, h)
  /\ SetStatus(h, "online")
  /\ ref' = [ref EXCEPT ![r].ws = @ \ {h},
                        ![r].poll = IF listed[h] = {} THEN @ \union {h} ELSE @,
                        ![r].found = @ \union Listing(h, listed[h])]
  /\ UNCHANGED <<redis, machine, handlers, events, admin, steady, budget>>

(* A host that is not connected: within the grace period its list stands, *)
(* after it or when it never disconnected the host is polled.             *)
(* Slip: within the grace period it is passed over. *)
AgeSkips(r, h) ==
  /\ ref[r].unsorted = {} /\ ref[r].ws = {} /\ First(ref[r].http, h)
  /\ ref' = [ref EXCEPT ![r].http = @ \ {h},
                        ![r].poll = IF since[h] = "grace" THEN @ ELSE @ \union {h}]
  /\ UNCHANGED <<rows, redis, machine, handlers, events, admin, steady, budget>>
Age(r, h) ==
  /\ ref[r].unsorted = {} /\ ref[r].ws = {} /\ First(ref[r].http, h)
  /\ ref' = [ref EXCEPT ![r].http = @ \ {h},
                        ![r].poll = IF since[h] = "grace" THEN @ ELSE @ \union {h},
                        ![r].found = IF since[h] = "grace"
                                     THEN @ \union Listing(h, listed[h]) ELSE @]
  /\ UNCHANGED <<rows, redis, machine, handlers, events, admin, steady, budget>>

Polling(r, h) ==
  /\ ref[r].unsorted = {} /\ ref[r].ws = {} /\ ref[r].http = {}
  /\ h \in ref[r].poll

Answered(r, h) ==
  /\ Polling(r, h) /\ up
  /\ ref' = [ref EXCEPT ![r].poll = @ \ {h}, ![r].answers = @ \union {<<h, running>>}]
  /\ UNCHANGED <<rows, redis, machine, handlers, events, admin, steady, budget>>

StoreAnswer(r, x) ==
  /\ x \in ref[r].answers
  /\ listed' = [listed EXCEPT ![x[1]] = x[2]]
  /\ SetStatus(x[1], "online")
  /\ ref' = [ref EXCEPT ![r].answers = @ \ {x},
                        ![r].found = @ \union Listing(x[1], x[2])]
  /\ UNCHANGED <<seat, current, since, pending, pendingSid, registry, machine, handlers,
                 events, admin, steady, budget>>

AnsweredError(r, h) ==
  /\ Polling(r, h) /\ up /\ ~steady /\ Spend("poll_error")
  /\ ref' = [ref EXCEPT ![r].poll = @ \ {h}, ![r].failed = TRUE]
  /\ SetStatus(h, "error")
  /\ UNCHANGED <<redis, machine, handlers, events, admin, steady>>

Unanswered(r, h) ==
  /\ Polling(r, h) /\ ~up
  /\ ref' = [ref EXCEPT ![r].poll = @ \ {h}, ![r].failed = TRUE,
                        ![r].found = @ \union Listing(h, listed[h])]
  /\ IF listed[h] = {} THEN SetStatus(h, "offline") ELSE UNCHANGED rows
  /\ UNCHANGED <<redis, machine, handlers, events, admin, steady, budget>>

Through(r) ==
  /\ ref[r].at = "busy"
  /\ ref[r].unsorted \union ref[r].ws \union ref[r].http \union ref[r].poll = {}
  /\ ref[r].answers = {}

Publish(r) ==
  /\ Through(r)
  /\ registry' = IF ref[r].found = {} /\ ref[r].hosts # {} /\ ref[r].failed /\ registry # {}
                 THEN registry ELSE ref[r].found
  /\ ref' = [ref EXCEPT ![r] = NoRef]
  /\ UNCHANGED <<rows, seat, current, listed, since, pending, pendingSid, machine,
                 handlers, events, admin, steady, budget>>

--------------------------------------------------------------------------------
(* Control dies with every handler, and nothing in Redis is cleaned up. *)
Crash ==
  /\ Spend("crash")
  /\ link' = [s \in Sids |-> IF Open(s) THEN "closed" ELSE link[s]]
  /\ unsent' = FALSE
  /\ at' = [s \in Sids |-> IF at[s] = "unused" THEN "unused" ELSE "done"]
  /\ events' = {}
  /\ admin' = [a \in Admins |-> IF admin[a].at = "idle" THEN NoAdmin
                                ELSE [NoAdmin EXCEPT !.at = "done"]]
  /\ ref' = [r \in Refreshers |-> NoRef]
  /\ row' = [s \in Sids |-> 0]
  /\ UNCHANGED <<rows, redis, up, running, steady>>

Serve(s) ==
  \/ Lookup(s) \/ Register(s) \/ ClearTimes(s) \/ Online(s)
  \/ Unregister(s) \/ Stamp(s) \/ Offline(s) \/ Unpend(s)

Answer(a) ==
  RemoveEntry(a) \/ AddRow(a) \/ Promote(a) \/ ListInstances(a) \/ Disconnect(a)

Refresh(r) ==
  \/ Begin(r)
  \/ \E h \in Rows : \/ Sort(r, h) \/ ReadList(r, h) \/ Age(r, h)
                     \/ Answered(r, h) \/ AnsweredError(r, h) \/ Unanswered(r, h)
  \/ \E x \in ref[r].answers : StoreAnswer(r, x)
  \/ Publish(r)

Next ==
  \/ \E s \in Sids : Connect(s) \/ Drop(s) \/ Send(s) \/ Serve(s)
  \/ Halt \/ Start \/ Change \/ Crash
  \/ \E h \in Rows : GraceEnds(h)
  \/ \E e \in events : ReadEvent(e) \/ StoreEvent(e)
  \/ \E a \in Admins : \/ \E s \in Sids : Take(a, s)
                       \/ Answer(a) \/ PreRegister(a) \/ RemoveRow(a)
  \/ \E r \in Refreshers : Refresh(r)

Spec == Init /\ [][Next]_vars

(* The handlers that were started run on, the loops go on, the machine that *)
(* is up connects; faults, starts and administrators need never come.       *)
Fairness ==
  /\ \A s \in Sids : WF_vars(Serve(s))
  /\ WF_vars(\E s \in Sids : Send(s) \/ Connect(s))
  /\ WF_vars(\E e \in events : ReadEvent(e) \/ StoreEvent(e))
  /\ \A a \in Admins : WF_vars(Answer(a))
  /\ \A r \in Refreshers : WF_vars(Refresh(r))
  /\ \A h \in Rows : WF_vars(GraceEnds(h))

FairSpec == Spec /\ Fairness

--------------------------------------------------------------------------------
(* Properties. *)

Live(s, h) == Open(s) /\ at[s] = "served" /\ seat[s] = h

(* redis_state/hosts.py: no stale disconnect evicts a newer connection.  An *)
(* open connection that holds its host's place gives it up to another       *)
(* registration only; the teardown of an older one never takes it.          *)
NoEviction ==
  [][\A h \in Rows, s \in Sids : current[h] = s /\ Live(s, h) => current'[h] # 0]_vars

(* host_connect and the approval: a connection that control has accepted    *)
(* and whose machine is still there speaks for a host, or is listed for the *)
(* administrator, or is in the hands of one who has taken it off the list;  *)
(* only an approval that could not add the row leaves it nowhere.           *)
NeverLost ==
  \A s \in Sids : Open(s) /\ at[s] = "served" =>
    \/ seat[s] # 0
    \/ pending[s].waiting
    \/ \E a \in Admins :
         admin[a].sid = s /\ admin[a].at \in {"remove", "add", "register", "disconnect", "failed"}

(* refresh_model_registry: as long as the machine runs the same and its row *)
(* stays, no refresh takes its models off the registry, whatever becomes of *)
(* its connection, of its answers to polls, and of control.                 *)
NoDropout == [][steady => registry \subseteq registry']_registry

(* The refresh repairs what late handlers leave behind: a machine with an   *)
(* open connection ends up online, with what its list names published.      *)
Heals ==
  <>[](\A h \in Keyed : (\E s \in Sids : Live(s, h)) =>
         /\ rows[h] = "online"
         /\ {x \in registry : x[1] = h} = Listing(h, listed[h]))

================================================================================
