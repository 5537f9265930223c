--------------------------- MODULE HostChannelProofs ---------------------------
(***************************************************************************)
(* What holds of the host channel for any number of connections, rows,     *)
(* refreshes and administrators, and under every fault.                    *)
(***************************************************************************)
EXTENDS HostChannel, TLAPS

LEMMA ZeroIsNobody == 0 \notin Rows /\ 0 \notin Sids
BY HostChannelAssumption

LEMMA InitTypeOK == Init => TypeOK
<1>1. NoEntry \in Entry /\ NoAdmin \in Admin /\ NoRef \in Ref
  BY DEF NoEntry, Entry, NoAdmin, Admin, Lists, NoRef, Ref
<1>2. SUFFICES ASSUME Init PROVE TypeOK
  OBVIOUS
<1>3. rows \in [Rows -> {"none", "online", "offline", "error"}]
  BY <1>2 DEF Init
<1>4. running \in Lists /\ listed \in [Rows -> Lists]
  BY <1>2 DEF Init, Lists
<1>5. budget \in 0..MaxFaults
  BY <1>2, HostChannelAssumption DEF Init
<1> QED BY <1>1, <1>2, <1>3, <1>4, <1>5 DEF Init, TypeOK

LEMMA SpendTypes ==
  ASSUME TypeOK, NEW kind, Spend(kind)
  PROVE  budget' \in 0..MaxFaults
BY HostChannelAssumption DEF Spend, TypeOK

LEMMA StatusTypes ==
  ASSUME TypeOK, NEW h \in Rows \union {0}, NEW status \in {"online", "offline", "error"},
         SetStatus(h, status)
  PROVE  /\ rows' \in [Rows -> {"none", "online", "offline", "error"}]
         /\ \A g \in Rows : rows'[g] = "none" <=> rows[g] = "none"
BY DEF SetStatus, TypeOK

(* Steps of the machine, and of time. *)
LEMMA MachineTypeOK ==
  ASSUME TypeOK,
         \/ \E s \in Sids : Connect(s) \/ Drop(s) \/ Send(s)
         \/ Halt \/ Start \/ Change \/ \E h \in Rows : GraceEnds(h)
  PROVE  TypeOK'
<1>1. ASSUME NEW s \in Sids, Connect(s)
      PROVE  TypeOK'
  BY <1>1 DEF Connect, Goto, redis, TypeOK
<1>2. ASSUME NEW s \in Sids, Drop(s)
      PROVE  TypeOK'
  BY <1>2, SpendTypes DEF Drop, Close, redis, handlers, TypeOK
<1>3. ASSUME NEW s \in Sids, Send(s)
      PROVE  TypeOK'
  <2>1. [sid |-> s, list |-> running, at |-> "read", row |-> 0] \in Event
    BY DEF Event, TypeOK
  <2> QED BY <1>3, <2>1 DEF Send, redis, handlers, TypeOK
<1>4. CASE Halt
  BY <1>4, SpendTypes DEF Halt, redis, handlers, TypeOK
<1>5. CASE Start
  BY <1>5 DEF Start, redis, handlers, TypeOK
<1>6. CASE Change
  <2>1. unsent' \in BOOLEAN
    BY <1>6 DEF Change
  <2> QED BY <1>6, <2>1, SpendTypes DEF Change, redis, handlers, TypeOK
<1>7. CASE \E h \in Rows : GraceEnds(h)
  BY <1>7 DEF GraceEnds, machine, handlers, TypeOK
<1> QED BY <1>1, <1>2, <1>3, <1>4, <1>5, <1>6, <1>7

(* Steps of the connect and disconnect handlers. *)
LEMMA ServeTypeOK ==
  ASSUME TypeOK, NEW s \in Sids, Serve(s)
  PROVE  TypeOK'
<1>1. CASE Lookup(s)
  <2>1. CASE Seated(s)
    BY <1>1, <2>1 DEF Lookup, Seated, Keyed, Goto, TypeOK
  <2>2. CASE Waits(s)
    <3>1. [waiting |-> TRUE, list |-> {}] \in Entry
      BY DEF Entry, Lists
    <3> QED BY <1>1, <2>2, <3>1 DEF Lookup, Waits, Goto, Open, TypeOK
  <2>3. CASE Refused(s)
    BY <1>1, <2>3 DEF Lookup, Refused, Close, Goto, TypeOK
  <2> QED BY <1>1, <2>1, <2>2, <2>3 DEF Lookup
<1>2. CASE Register(s)
  BY <1>2 DEF Register, Seat, Goto, machine, TypeOK
<1>3. CASE ClearTimes(s)
  BY <1>3 DEF ClearTimes, Goto, machine, TypeOK
<1>4. CASE Online(s)
  BY <1>4, StatusTypes DEF Online, Goto, Forgets, Open, redis, TypeOK
<1>5. CASE Unregister(s)
  BY <1>5 DEF Unregister, Goto, machine, TypeOK
<1>6. CASE Stamp(s)
  BY <1>6 DEF Stamp, Goto, machine, TypeOK
<1>7. CASE Offline(s)
  BY <1>7, StatusTypes DEF Offline, Goto, Forgets, redis, machine, TypeOK
<1>8. CASE Unpend(s)
  BY <1>8 DEF Unpend, Goto, machine, NoEntry, Entry, TypeOK
<1> QED BY <1>1, <1>2, <1>3, <1>4, <1>5, <1>6, <1>7, <1>8 DEF Serve

(* Steps of the tasks of the machine's events. *)
LEMMA EventTypeOK ==
  ASSUME TypeOK, NEW e \in events, ReadEvent(e) \/ StoreEvent(e)
  PROVE  TypeOK'
<1>0. e \in Event
  BY DEF TypeOK
<1>1. CASE ReadEvent(e)
  <2>1. seat[e.sid] # 0 => [e EXCEPT !.at = "host", !.row = seat[e.sid]] \in Event
    BY <1>0 DEF Event, TypeOK
  <2>2. e.at = "read" => [e EXCEPT !.at = "pending"] \in Event
    BY <1>0 DEF Event
  <2> QED BY <1>1, <2>1, <2>2 DEF ReadEvent, redis, machine, handlers, TypeOK
<1>2. CASE StoreEvent(e)
  <2>1. [waiting |-> TRUE, list |-> e.list] \in Entry
    BY <1>0 DEF Event, Entry
  <2>2. e.list \in Lists /\ e.sid \in Sids
    BY <1>0 DEF Event
  <2> QED BY <1>2, <2>1, <2>2 DEF StoreEvent, machine, handlers, TypeOK
<1> QED BY <1>1, <1>2

(* Steps of the administrators. *)
LEMMA AdminTypeOK ==
  ASSUME TypeOK, NEW a \in Admins,
         (\E s \in Sids : Take(a, s)) \/ Answer(a) \/ PreRegister(a) \/ RemoveRow(a)
  PROVE  TypeOK'
<1>0. /\ [NoAdmin EXCEPT !.at = "done"] \in Admin
      /\ admin[a] \in Admin
  BY DEF NoAdmin, Admin, Lists, TypeOK
<1>1. CASE \E s \in Sids : Take(a, s)
  <2>1. PICK s \in Sids, t \in Tasks :
          /\ Take(a, s)
          /\ admin' = [admin EXCEPT ![a] = [NoAdmin EXCEPT !.at = "remove", !.task = t,
                         !.sid = s, !.list = pending[s].list]]
    BY <1>1 DEF Take, Tasks
  <2>2. pending[s].list \in Lists
    <3>1. pending[s] \in Entry
      BY DEF TypeOK
    <3>2. NoEntry.list \in Lists
      BY DEF NoEntry, Lists
    <3> QED BY <3>1, <3>2 DEF Entry
  <2>3. [NoAdmin EXCEPT !.at = "remove", !.task = t, !.sid = s, !.list = pending[s].list]
          \in Admin
    BY <2>2 DEF NoAdmin, Admin
  <2> QED BY <2>1, <2>3 DEF Take, redis, machine, handlers, TypeOK
<1>2. CASE RemoveEntry(a)
  <2>1. \A place \in {"add", "disconnect"} : [admin[a] EXCEPT !.at = place] \in Admin
    BY <1>0 DEF Admin
  <2> QED BY <1>2, <2>1 DEF RemoveEntry, Goes, Entry, machine, handlers, TypeOK
<1>3. CASE AddRow(a)
  <2>1. [admin[a] EXCEPT !.at = "failed"] \in Admin
    BY <1>0 DEF Admin
  <2>2. \A h \in Rows : [admin[a] EXCEPT !.at = "register", !.row = h] \in Admin
    BY <1>0 DEF Admin
  <2>3. CASE Spend("db_error") /\ Goes(a, "failed") /\ UNCHANGED rows
    BY <1>3, <2>1, <2>3, SpendTypes DEF AddRow, Goes, redis, machine, handlers, TypeOK
  <2>4. ASSUME NEW h \in Rows, rows' = [rows EXCEPT ![h] = "online"], UNCHANGED budget,
               admin' = [admin EXCEPT ![a].at = "register", ![a].row = h]
        PROVE  TypeOK'
    <3>1. admin' = [admin EXCEPT ![a] = [admin[a] EXCEPT !.at = "register", !.row = h]]
      BY <2>4 DEF TypeOK, Admin
    <3>2. /\ admin' \in [Admins -> Admin]
          /\ rows' \in [Rows -> {"none", "online", "offline", "error"}]
      BY <2>2, <2>4, <3>1 DEF TypeOK
    <3> QED BY <1>3, <2>4, <3>2 DEF AddRow, redis, machine, handlers, TypeOK
  <2> QED BY <1>3, <2>3, <2>4 DEF AddRow
<1>4. CASE Promote(a)
  <2>1. [admin[a] EXCEPT !.at = "list"] \in Admin
    BY <1>0 DEF Admin
  <2>2. admin[a].sid \in Sids \union {0} /\ admin[a].row \in Rows \union {0}
    BY <1>0 DEF Admin
  <2> QED BY <1>4, <2>1, <2>2 DEF Promote, Seat, Goes, machine, handlers, TypeOK
<1>5. CASE ListInstances(a)
  <2>1. admin[a].list \in Lists
    BY <1>0 DEF Admin
  <2> QED BY <1>0, <1>5, <2>1 DEF ListInstances, Ends, Open, handlers, TypeOK
<1>6. CASE Disconnect(a)
  BY <1>0, <1>6 DEF Disconnect, Close, Ends, redis, handlers, TypeOK
<1>7. CASE PreRegister(a)
  BY <1>0, <1>7 DEF PreRegister, Ends, redis, machine, handlers, TypeOK
<1>8. CASE RemoveRow(a)
  BY <1>0, <1>8 DEF RemoveRow, Ends, Keyed, redis, machine, handlers, TypeOK
<1> QED BY <1>1, <1>2, <1>3, <1>4, <1>5, <1>6, <1>7, <1>8 DEF Answer

(* Steps of a refresh. *)
LEMMA RefreshTypeOK ==
  ASSUME TypeOK, NEW r \in Refreshers, Refresh(r)
  PROVE  TypeOK'
<1>0. ref[r] \in Ref
  BY DEF TypeOK
<1>1. \A h \in Rows : Listing(h, listed[h]) \subseteq Rows \X Models
  BY DEF Listing, TypeOK, Lists
<1>2. CASE Begin(r)
  <2>1. [NoRef EXCEPT !.at = "busy", !.hosts = Keyed, !.unsorted = Keyed] \in Ref
    BY DEF NoRef, Ref, Keyed
  <2> QED BY <1>2, <2>1 DEF Begin, redis, machine, handlers, TypeOK
<1>3. ASSUME NEW h \in Rows, Sort(r, h)
      PROVE  TypeOK'
  <2>1. ref'[r] \in Ref /\ ref' = [ref EXCEPT ![r] = ref'[r]]
    BY <1>0, <1>3 DEF Sort, Ref, TypeOK
  <2> QED BY <1>3, <2>1 DEF Sort, redis, machine, handlers, TypeOK
<1>4. ASSUME NEW h \in Rows, ReadList(r, h)
      PROVE  TypeOK'
  <2>1. ref'[r] \in Ref /\ ref' = [ref EXCEPT ![r] = ref'[r]]
    BY <1>0, <1>1, <1>4 DEF ReadList, Ref, TypeOK
  <2> QED BY <1>4, <2>1, StatusTypes DEF ReadList, redis, machine, handlers, TypeOK
<1>5. ASSUME NEW h \in Rows, Age(r, h)
      PROVE  TypeOK'
  <2>1. ref'[r] \in Ref /\ ref' = [ref EXCEPT ![r] = ref'[r]]
    BY <1>0, <1>1, <1>5 DEF Age, Ref, TypeOK
  <2> QED BY <1>5, <2>1 DEF Age, redis, machine, handlers, TypeOK
<1>6. ASSUME NEW h \in Rows, Answered(r, h)
      PROVE  TypeOK'
  <2>1. ref'[r] \in Ref /\ ref' = [ref EXCEPT ![r] = ref'[r]]
    <3>1. h \in ref[r].poll /\ h \in Rows /\ <<h, running>> \in Rows \X Lists
      BY <1>0, <1>6 DEF Answered, Polling, Ref, TypeOK
    <3> QED BY <1>0, <1>6, <3>1 DEF Answered, Ref, TypeOK
  <2> QED BY <1>6, <2>1 DEF Answered, redis, machine, handlers, TypeOK
<1>7. ASSUME NEW h \in Rows, AnsweredError(r, h)
      PROVE  TypeOK'
  <2>1. ref'[r] \in Ref /\ ref' = [ref EXCEPT ![r] = ref'[r]]
    BY <1>0, <1>7 DEF AnsweredError, Ref, TypeOK
  <2> QED BY <1>7, <2>1, StatusTypes, SpendTypes DEF AnsweredError, redis, machine, handlers, TypeOK
<1>8. ASSUME NEW h \in Rows, Unanswered(r, h)
      PROVE  TypeOK'
  <2>1. ref'[r] \in Ref /\ ref' = [ref EXCEPT ![r] = ref'[r]]
    BY <1>0, <1>1, <1>8 DEF Unanswered, Ref, TypeOK
  <2> QED BY <1>8, <2>1, StatusTypes DEF Unanswered, redis, machine, handlers, TypeOK
<1>9. ASSUME NEW x \in ref[r].answers, StoreAnswer(r, x)
      PROVE  TypeOK'
  <2>1. x \in Rows \X Lists
    BY <1>0 DEF Ref
  <2>2. x[1] \in Rows /\ x[2] \in Lists /\ Listing(x[1], x[2]) \subseteq Rows \X Models
    BY <2>1 DEF Listing, Lists
  <2>3. ref'[r] \in Ref /\ ref' = [ref EXCEPT ![r] = ref'[r]]
    BY <1>0, <1>9, <2>2 DEF StoreAnswer, Ref, TypeOK
  <2> QED BY <1>9, <2>2, <2>3, StatusTypes DEF StoreAnswer, machine, handlers, TypeOK
<1>10. CASE Publish(r)
  <2>1. NoRef \in Ref
    BY DEF NoRef, Ref
  <2>2. ref[r].found \subseteq Rows \X Models
    BY <1>0 DEF Ref
  <2> QED BY <1>10, <2>1, <2>2 DEF Publish, machine, handlers, TypeOK
<1> QED BY <1>2, <1>3, <1>4, <1>5, <1>6, <1>7, <1>8, <1>9, <1>10 DEF Refresh

LEMMA CrashTypeOK == TypeOK /\ Crash => TypeOK'
<1>1. NoRef \in Ref /\ NoAdmin \in Admin /\ [NoAdmin EXCEPT !.at = "done"] \in Admin
  BY DEF NoRef, Ref, NoAdmin, Admin, Lists
<1> SUFFICES ASSUME TypeOK, Crash PROVE TypeOK'
  OBVIOUS
<1>2. link' \in [Sids -> {"unused", "open", "closed"}]
  BY DEF Crash, TypeOK
<1>3. /\ at' \in [Sids -> {"unused", "done"}]
      /\ row' \in [Sids -> {0}]
  BY DEF Crash
<1>4. /\ admin' \in [Admins -> Admin]
      /\ ref' \in [Refreshers -> Ref]
  BY <1>1 DEF Crash
<1>5. budget' \in 0..MaxFaults
  BY SpendTypes DEF Crash
<1> QED BY <1>2, <1>3, <1>4, <1>5 DEF Crash, redis, TypeOK

(* Type correctness: every variable keeps its type under every step. *)
THEOREM TypeCorrect == Spec => []TypeOK
<1>1. TypeOK /\ [Next]_vars => TypeOK'
  <2> SUFFICES ASSUME TypeOK, [Next]_vars PROVE TypeOK'
    OBVIOUS
  <2>1. CASE UNCHANGED vars
    BY <2>1 DEF vars, redis, machine, handlers, TypeOK
  <2>2. CASE Next
    BY <2>2, MachineTypeOK, ServeTypeOK, EventTypeOK, AdminTypeOK, RefreshTypeOK, CrashTypeOK
       DEF Next
  <2> QED BY <2>1, <2>2
<1> QED BY <1>1, InitTypeOK, PTL DEF Spec

--------------------------------------------------------------------------------
(* What is needed of a connection and of the administrators' requests.      *)

(* A connection about to register has its host, one that has registered     *)
(* keeps it, and nothing waits of one that was not made yet.                *)
Connected(s) ==
  /\ at[s] = "register" => row[s] \in Rows
  /\ at[s] \in {"clear", "online"} => seat[s] # 0
  /\ link[s] = "unused" => at[s] = "unused" /\ ~pending[s].waiting

Handled(a) ==
  /\ admin[a].at \notin {"idle", "done"} =>
       admin[a].sid \in Sids /\ link[admin[a].sid] # "unused"
  /\ admin[a].at = "register" => admin[a].row \in Rows
  /\ admin[a].at = "list" => seat[admin[a].sid] # 0 \/ ~Open(admin[a].sid)

Sent == \A e \in events : link[e.sid] # "unused"

ConnInv ==
  /\ \A s \in Sids : Connected(s)
  /\ \A a \in Admins : Handled(a)
  /\ Sent
  /\ NeverLost

LEMMA InitConn == Init => ConnInv
BY DEF Init, ConnInv, Connected, Handled, Sent, NeverLost, Open, NoEntry, NoAdmin

(* A step that leaves the connections, what waits and the administrators    *)
(* alone, and sends nothing.                                                *)
LEMMA AsideConn ==
  ASSUME ConnInv, UNCHANGED <<link, handlers, seat, pending, admin>>, events' \subseteq events
  PROVE  ConnInv'
BY DEF ConnInv, Connected, Handled, Sent, NeverLost, Open, handlers

LEMMA MachineConn ==
  ASSUME TypeOK, ConnInv,
         \/ \E s \in Sids : Connect(s) \/ Drop(s) \/ Send(s)
         \/ Halt \/ Start \/ Change \/ \E h \in Rows : GraceEnds(h)
  PROVE  ConnInv'
<1>1. ASSUME NEW s \in Sids, Connect(s)
      PROVE  ConnInv'
  BY <1>1 DEF Connect, Goto, redis, TypeOK, ConnInv, Connected, Handled, Sent, NeverLost, Open
<1>2. ASSUME NEW s \in Sids, Drop(s)
      PROVE  ConnInv'
  BY <1>2 DEF Drop, Close, redis, handlers, TypeOK, ConnInv, Connected, Handled, Sent,
              NeverLost, Open
<1>3. ASSUME NEW s \in Sids, Send(s)
      PROVE  ConnInv'
  BY <1>3 DEF Send, redis, handlers, ConnInv, Connected, Handled, Sent, NeverLost, Open
<1>4. CASE Halt
  <2>1. \A s \in Sids : link'[s] # "open" /\ (link'[s] = "unused" <=> link[s] = "unused")
    BY <1>4 DEF Halt, Open, TypeOK
  <2> QED BY <1>4, <2>1 DEF Halt, redis, handlers, TypeOK, Event, ConnInv, Connected, Handled,
                            Sent, NeverLost, Open
<1>5. CASE Start
  BY <1>5, AsideConn DEF Start, redis, handlers
<1>6. CASE Change
  BY <1>6, AsideConn DEF Change, redis, handlers
<1>7. CASE \E h \in Rows : GraceEnds(h)
  BY <1>7, AsideConn DEF GraceEnds, machine, handlers
<1> QED BY <1>1, <1>2, <1>3, <1>4, <1>5, <1>6, <1>7

LEMMA ServeConn ==
  ASSUME TypeOK, ConnInv, NEW s \in Sids, Serve(s)
  PROVE  ConnInv'
<1> USE ZeroIsNobody DEF TypeOK, ConnInv, Connected, Handled, Sent, NeverLost, Open
<1>1. CASE Lookup(s)
  <2>1. CASE Seated(s)
    BY <1>1, <2>1 DEF Lookup, Seated, Keyed, Goto
  <2>2. CASE Waits(s)
    BY <1>1, <2>2 DEF Lookup, Waits, Goto
  <2>3. CASE Refused(s)
    BY <1>1, <2>3 DEF Lookup, Refused, Close, Goto
  <2> QED BY <1>1, <2>1, <2>2, <2>3 DEF Lookup
<1>2. CASE Register(s)
  BY <1>2 DEF Register, Seat, Goto, machine
<1>3. CASE ClearTimes(s)
  BY <1>3 DEF ClearTimes, Goto, machine
<1>4. CASE Online(s)
  BY <1>4 DEF Online, Goto, Forgets, redis
<1>5. CASE Unregister(s)
  BY <1>5 DEF Unregister, Goto, machine
<1>6. CASE Stamp(s)
  BY <1>6 DEF Stamp, Goto, machine
<1>7. CASE Offline(s)
  BY <1>7 DEF Offline, Goto, Forgets, redis, machine
<1>8. CASE Unpend(s)
  BY <1>8 DEF Unpend, Goto, machine, NoEntry
<1> QED BY <1>1, <1>2, <1>3, <1>4, <1>5, <1>6, <1>7, <1>8 DEF Serve

LEMMA EventConn ==
  ASSUME TypeOK, ConnInv, NEW e \in events, ReadEvent(e) \/ StoreEvent(e)
  PROVE  ConnInv'
<1>0. e \in Event /\ e.sid \in Sids /\ link[e.sid] # "unused"
  BY DEF TypeOK, Event, ConnInv, Sent
<1>1. CASE ReadEvent(e)
  <2>1. \A f \in events' : f \in events \/ f.sid = e.sid
    BY <1>0, <1>1 DEF ReadEvent, Event
  <2> QED BY <1>0, <1>1, <2>1 DEF ReadEvent, redis, machine, handlers, ConnInv, Connected,
                                  Handled, Sent, NeverLost, Open
<1>2. CASE StoreEvent(e)
  BY <1>0, <1>2 DEF StoreEvent, machine, handlers, TypeOK, ConnInv, Connected, Handled, Sent,
                    NeverLost, Open
<1> QED BY <1>1, <1>2

LEMMA AdminConn ==
  ASSUME TypeOK, ConnInv, NEW a \in Admins,
         (\E s \in Sids : Take(a, s)) \/ Answer(a) \/ PreRegister(a) \/ RemoveRow(a)
  PROVE  ConnInv'
<1> USE DEF ConnInv, Connected, Handled, Sent, NeverLost, Open
<1>0. admin[a] \in Admin
  BY DEF TypeOK
<1>1. CASE \E s \in Sids : Take(a, s)
  <2>1. PICK s \in Sids : Take(a, s)
    BY <1>1
  <2>2. /\ admin'[a].at = "remove" /\ admin'[a].sid = s
        /\ \A b \in Admins \ {a} : admin'[b] = admin[b]
    <3>1. PICK t : admin' = [admin EXCEPT ![a] = [NoAdmin EXCEPT !.at = "remove", !.task = t,
                                !.sid = s, !.list = pending[s].list]]
      BY <2>1 DEF Take
    <3> QED BY <3>1 DEF TypeOK, NoAdmin
  <2>3. pending[s].waiting /\ admin[a].at = "idle"
    BY <2>1 DEF Take
  <2>4. UNCHANGED <<link, at, row, seat, pending, events>>
    BY <2>1 DEF Take, redis, machine, handlers
  <2>5. \A b \in Admins : Handled(b)'
    BY <2>2, <2>3, <2>4
  <2>6. NeverLost'
    BY <2>2, <2>3, <2>4
  <2> QED BY <2>4, <2>5, <2>6
<1>2. CASE RemoveEntry(a)
  BY <1>0, <1>2 DEF RemoveEntry, Goes, NoEntry, machine, handlers, TypeOK, Admin
<1>3. CASE AddRow(a)
  <2>1. admin' = [admin EXCEPT ![a] = admin'[a]]
    BY <1>0, <1>3 DEF AddRow, Goes, TypeOK, Admin
  <2>2. /\ admin'[a].sid = admin[a].sid
        /\ admin'[a].at \in {"register", "failed"}
        /\ admin'[a].at = "register" => admin'[a].row \in Rows
    BY <1>0, <1>3 DEF AddRow, Goes, TypeOK, Admin
  <2>3. \A b \in Admins \ {a} : admin'[b] = admin[b]
    BY <2>1 DEF TypeOK
  <2> QED BY <1>0, <1>3, <2>2, <2>3 DEF AddRow, redis, machine, handlers, TypeOK, Admin
<1>4. CASE Promote(a)
  BY <1>0, <1>4, ZeroIsNobody DEF Promote, Seat, Goes, machine, handlers, TypeOK, Admin
<1>5. CASE ListInstances(a)
  BY <1>0, <1>5 DEF ListInstances, Ends, handlers, TypeOK, Admin, NoAdmin
<1>6. CASE Disconnect(a)
  <2>1. admin[a].sid \in Sids /\ ~(link'[admin[a].sid] = "open")
    BY <1>0, <1>6 DEF Disconnect, Close, TypeOK, Admin
  <2>2. \A s \in Sids : /\ link'[s] = "open" => link[s] = "open" /\ s # admin[a].sid
                        /\ link'[s] = "unused" <=> link[s] = "unused"
    BY <1>0, <1>6, <2>1 DEF Disconnect, Close, TypeOK, Admin
  <2>3. /\ admin'[a].at = "done"
        /\ \A b \in Admins \ {a} : admin'[b] = admin[b]
    BY <1>6 DEF Disconnect, Ends, TypeOK, NoAdmin
  <2> QED BY <1>6, <2>2, <2>3 DEF Disconnect, redis, handlers, TypeOK, Event
<1>7. CASE PreRegister(a)
  BY <1>0, <1>7 DEF PreRegister, Ends, redis, machine, handlers, TypeOK, Admin, NoAdmin
<1>8. CASE RemoveRow(a)
  BY <1>0, <1>8 DEF RemoveRow, Ends, redis, machine, handlers, TypeOK, Admin, NoAdmin
<1> QED BY <1>1, <1>2, <1>3, <1>4, <1>5, <1>6, <1>7, <1>8 DEF Answer

LEMMA RefreshConn ==
  ASSUME ConnInv, NEW r \in Refreshers, Refresh(r)
  PROVE  ConnInv'
BY AsideConn DEF Refresh, Begin, Sort, ReadList, Age, Answered, AnsweredError, Unanswered,
                 StoreAnswer, Publish, redis, machine, handlers

LEMMA CrashConn == ConnInv /\ Crash => ConnInv'
BY DEF Crash, redis, ConnInv, Connected, Handled, Sent, NeverLost, Open, NoAdmin

LEMMA ConnInvariant == Spec => []ConnInv
<1>1. TypeOK /\ ConnInv /\ [Next]_vars => ConnInv'
  <2> SUFFICES ASSUME TypeOK, ConnInv, [Next]_vars PROVE ConnInv'
    OBVIOUS
  <2>1. CASE UNCHANGED vars
    BY <2>1, AsideConn DEF vars, redis, machine
  <2>2. CASE Next
    BY <2>2, MachineConn, ServeConn, EventConn, AdminConn, RefreshConn, CrashConn DEF Next
  <2> QED BY <2>1, <2>2
<1> QED BY <1>1, InitConn, TypeCorrect, PTL DEF Spec

(* An accepted connection speaks for a host, or waits where administrators  *)
(* see it, or is in the hands of one of them.                               *)
THEOREM Reachable == Spec => []NeverLost
<1>1. ConnInv => NeverLost
  BY DEF ConnInv
<1> QED BY <1>1, ConnInvariant, PTL


--------------------------------------------------------------------------------
(* The place of a connection is only ever taken by another registration.    *)
THEOREM NoStaleEviction == Spec => NoEviction
<1> DEFINE Kept == \A h \in Rows, s \in Sids : current[h] = s /\ Live(s, h) => current'[h] # 0
<1>1. TypeOK /\ ConnInv /\ [Next]_vars => Kept
  <2> SUFFICES ASSUME TypeOK, ConnInv, [Next]_vars, NEW h \in Rows, NEW s \in Sids,
                      current[h] = s, Live(s, h)
               PROVE  current'[h] # 0
    BY Zenon
  <2>1. ASSUME NEW t \in Sids, Serve(t)
        PROVE  current'[h] # 0
    <3>1. CASE Register(t)
      BY <3>1, ZeroIsNobody DEF Register, Seat, TypeOK
    <3>2. CASE Unregister(t)
      BY <3>2, ZeroIsNobody DEF Unregister, Live, Open, TypeOK
    <3>3. CASE ~Register(t) /\ ~Unregister(t)
      BY <2>1, <3>3, ZeroIsNobody
         DEF Serve, Lookup, ClearTimes, Online, Stamp, Offline, Unpend, redis
    <3> QED BY <3>1, <3>2, <3>3
  <2>2. ASSUME NEW a \in Admins, Answer(a)
        PROVE  current'[h] # 0
    <3>1. CASE Promote(a)
      <4>1. admin[a].sid \in Sids
        BY <3>1 DEF Promote, ConnInv, Handled
      <4> QED BY <3>1, <4>1, ZeroIsNobody DEF Promote, Seat, TypeOK
    <3>2. CASE ~Promote(a)
      BY <2>2, <3>2, ZeroIsNobody DEF Answer, RemoveEntry, AddRow, ListInstances, Disconnect, redis
    <3> QED BY <3>1, <3>2
  <2>3. ASSUME NEW r \in Refreshers, Refresh(r)
        PROVE  current'[h] # 0
    BY <2>3, ZeroIsNobody DEF Refresh, Begin, Sort, ReadList, Age, Answered, AnsweredError,
                              Unanswered, StoreAnswer, Publish, redis
  <2>4. CASE \/ \E t \in Sids : Connect(t) \/ Drop(t) \/ Send(t)
             \/ Halt \/ Start \/ Change \/ Crash \/ \E g \in Rows : GraceEnds(g)
             \/ \E e \in events : ReadEvent(e) \/ StoreEvent(e)
    BY <2>4, ZeroIsNobody DEF Connect, Drop, Send, Halt, Start, Change, Crash, GraceEnds,
                              ReadEvent, StoreEvent, redis
  <2>5. CASE \E a \in Admins : (\E t \in Sids : Take(a, t)) \/ PreRegister(a) \/ RemoveRow(a)
    BY <2>5, ZeroIsNobody DEF Take, PreRegister, RemoveRow, redis
  <2>6. CASE UNCHANGED vars
    BY <2>6, ZeroIsNobody DEF vars, redis
  <2> QED BY <2>1, <2>2, <2>3, <2>4, <2>5, <2>6 DEF Next
<1> QED BY <1>1, TypeCorrect, ConnInvariant, PTL DEF Spec, NoEviction

--------------------------------------------------------------------------------
(* While nothing but connections, the machine and control fail, what Redis  *)
(* lists, what is on its way and what a refresh has found is what the       *)
(* machine runs, and a refresh still has to visit every host that it has    *)
(* not found.                                                               *)

Ahead(r) == ref[r].unsorted \union ref[r].ws \union ref[r].http \union ref[r].poll

Told ==
  /\ \A h \in Keyed : listed[h] = running
  /\ \A e \in events : e.list = running
  /\ \A a \in Admins : admin[a].at \in {"idle", "done"}

Sound(r) ==
  /\ Ahead(r) \subseteq Keyed
  /\ \A x \in ref[r].answers : x[1] \in Keyed /\ x[2] = running
  /\ ref[r].found \subseteq Keyed \X running

Complete(r) ==
  ref[r].at = "busy" => \A h \in Keyed :
    \/ h \in Ahead(r)
    \/ <<h, running>> \in ref[r].answers
    \/ {h} \X running \subseteq ref[r].found

SteadyInv ==
  steady => /\ Told
            /\ \A r \in Refreshers : Sound(r) /\ Complete(r)
            /\ registry \subseteq Keyed \X running

LEMMA InitSteady == Init => SteadyInv
<1> SUFFICES ASSUME Init, steady PROVE SteadyInv
  BY DEF SteadyInv
<1>1. \A h \in Keyed : listed[h] = running
  BY DEF Init, Keyed
<1>2. Told
  BY <1>1 DEF Init, Told, NoAdmin
<1>3. \A r \in Refreshers : Sound(r) /\ Complete(r)
  BY DEF Init, Sound, Complete, Ahead, NoRef
<1> QED BY <1>2, <1>3 DEF Init, SteadyInv

(* A step that keeps the rows, the lists and what a refresh knows.          *)
LEMMA AsideSteady ==
  ASSUME SteadyInv, steady' = steady,
         steady => /\ Keyed' = Keyed /\ running' = running
                   /\ Told'
                   /\ UNCHANGED <<ref, registry>>
  PROVE  SteadyInv'
BY DEF SteadyInv, Sound, Complete, Ahead

LEMMA StatusKeeps ==
  ASSUME TypeOK, NEW h \in Rows \union {0}, NEW status \in {"online", "offline", "error"},
         SetStatus(h, status)
  PROVE  Keyed' = Keyed
BY StatusTypes DEF Keyed

LEMMA MachineSteady ==
  ASSUME TypeOK, SteadyInv,
         \/ \E s \in Sids : Connect(s) \/ Drop(s) \/ Send(s) \/ Serve(s)
         \/ Halt \/ Start \/ Change \/ Crash \/ \E h \in Rows : GraceEnds(h)
  PROVE  SteadyInv'
<1>1. ASSUME NEW s \in Sids, Serve(s)
      PROVE  SteadyInv'
  <2>1. UNCHANGED <<listed, registry, running, events, admin, ref, steady>>
    BY <1>1 DEF Serve, Lookup, Seated, Waits, Refused, Register, ClearTimes, Online, Unregister,
                Stamp, Offline, Unpend, redis, machine
  <2>2. Keyed' = Keyed
    <3>1. CASE Online(s) \/ Offline(s)
      BY <3>1, StatusKeeps DEF Online, Offline, TypeOK
    <3>2. CASE ~(Online(s) \/ Offline(s))
      BY <1>1, <3>2 DEF Serve, Lookup, Register, ClearTimes, Unregister, Stamp, Unpend, Keyed
    <3> QED BY <3>1, <3>2
  <2> QED BY <2>1, <2>2, AsideSteady DEF SteadyInv, Told
<1>2. ASSUME NEW s \in Sids, Send(s)
      PROVE  SteadyInv'
  BY <1>2, AsideSteady DEF Send, redis, SteadyInv, Told, Keyed
<1>3. CASE Change
  BY <1>3, AsideSteady DEF Change
<1>4. CASE Crash
  <2>1. UNCHANGED <<rows, running, listed, registry, steady>> /\ events' = {}
    BY <1>4 DEF Crash, redis
  <2>2. steady => Told'
    BY <1>4, <2>1 DEF Crash, SteadyInv, Told, Keyed, NoAdmin
  <2>3. \A r \in Refreshers : ref'[r] = NoRef
    BY <1>4 DEF Crash
  <2>4. \A r \in Refreshers : Sound(r)' /\ Complete(r)'
    BY <2>3 DEF Sound, Complete, Ahead, NoRef
  <2> QED BY <2>1, <2>2, <2>4 DEF SteadyInv, Keyed
<1>5. CASE \/ \E s \in Sids : Connect(s) \/ Drop(s)
           \/ Halt \/ Start \/ \E h \in Rows : GraceEnds(h)
  BY <1>5, AsideSteady DEF Connect, Drop, Halt, Start, GraceEnds, redis, machine, SteadyInv,
                           Told, Keyed
<1> QED BY <1>1, <1>2, <1>3, <1>4, <1>5

LEMMA EventSteady ==
  ASSUME TypeOK, SteadyInv, NEW e \in events, ReadEvent(e) \/ StoreEvent(e)
  PROVE  SteadyInv'
<1>0. e \in Event
  BY DEF TypeOK
<1>1. CASE ReadEvent(e)
  <2>1. \A f \in events' : f \in events \/ f.list = e.list
    BY <1>0, <1>1 DEF ReadEvent, Event
  <2> QED BY <1>1, <2>1, AsideSteady DEF ReadEvent, redis, machine, SteadyInv, Told, Keyed
<1>2. CASE StoreEvent(e)
  <2>1. UNCHANGED <<rows, running, registry, admin, ref, steady>> /\ events' \subseteq events
    BY <1>2 DEF StoreEvent, machine
  <2>2. \A h \in Keyed : listed'[h] = listed[h] \/ listed'[h] = e.list
    BY <1>0, <1>2 DEF StoreEvent, Event, Keyed, TypeOK
  <2> QED BY <2>1, <2>2, AsideSteady DEF SteadyInv, Told, Keyed
<1> QED BY <1>1, <1>2

LEMMA AdminSteady ==
  ASSUME SteadyInv, NEW a \in Admins,
         (\E s \in Sids : Take(a, s)) \/ Answer(a) \/ PreRegister(a) \/ RemoveRow(a)
  PROVE  SteadyInv'
<1>1. ~steady /\ steady' = steady
  BY DEF SteadyInv, Told, Take, Answer, RemoveEntry, AddRow, Promote, ListInstances, Disconnect,
         PreRegister, RemoveRow
<1> QED BY <1>1 DEF SteadyInv

(* A refresh that only ever moves a host on, or finds what it runs.         *)
LEMMA RefSteady ==
  ASSUME TypeOK, SteadyInv, NEW r \in Refreshers, steady, UNCHANGED steady,
         Keyed' = Keyed, running' = running, Told', registry' = registry,
         \A q \in Refreshers \ {r} : ref'[q] = ref[q],
         Sound(r)', Complete(r)'
  PROVE  SteadyInv'
BY DEF SteadyInv, Sound, Complete, Ahead

LEMMA RefreshSteady ==
  ASSUME TypeOK, SteadyInv, NEW r \in Refreshers, Refresh(r)
  PROVE  SteadyInv' /\ (steady => registry \subseteq registry')
<1>0. ref[r] \in Ref /\ UNCHANGED <<running, events, admin, steady>>
  BY DEF TypeOK, Refresh, Begin, Sort, ReadList, Age, Answered, AnsweredError, Unanswered,
         StoreAnswer, Publish, machine
<1> SUFFICES ASSUME steady PROVE SteadyInv' /\ registry \subseteq registry'
  BY <1>0 DEF SteadyInv
<1>1. /\ Told /\ Sound(r) /\ Complete(r)
      /\ registry \subseteq Keyed \X running
  BY DEF SteadyInv
<1>2. \A h \in Keyed : Listing(h, listed[h]) = {h} \X running
  BY <1>1 DEF Told, Listing
<1>3. CASE Begin(r)
  <2>1. ref' = [ref EXCEPT ![r] =
                  [NoRef EXCEPT !.at = "busy", !.hosts = Keyed, !.unsorted = Keyed]]
    BY <1>3 DEF Begin
  <2>2. Sound(r)' /\ Complete(r)'
    BY <1>0, <1>3, <2>1 DEF Begin, Sound, Complete, Ahead, NoRef, Keyed, TypeOK
  <2> QED BY <1>0, <1>1, <1>3, <2>1, <2>2, RefSteady DEF Begin, redis, Told, Keyed, TypeOK
<1>4. ASSUME NEW h \in Rows, Sort(r, h) \/ Age(r, h) \/ Answered(r, h)
      PROVE  SteadyInv' /\ registry \subseteq registry'
  <2>1. UNCHANGED <<rows, redis>> /\ \A q \in Refreshers \ {r} : ref'[q] = ref[q]
    BY <1>4 DEF Sort, Age, Answered, TypeOK
  <2>2. h \in Ahead(r) /\ h \in Keyed
    BY <1>1, <1>4 DEF Sort, Age, Answered, Polling, First, Ahead, Sound
  <2>3. CASE Sort(r, h)
    <3>1. /\ Ahead(r)' = Ahead(r)
          /\ ref'[r].answers = ref[r].answers /\ ref'[r].found = ref[r].found
          /\ ref'[r].at = ref[r].at
      BY <1>0, <2>3 DEF Sort, First, Ahead, Ref, TypeOK
    <3> QED BY <1>0, <1>1, <2>1, <3>1, RefSteady DEF redis, Told, Sound, Complete, Keyed
  <2>4. CASE Age(r, h)
    <3>1. /\ ref'[r].answers = ref[r].answers
          /\ ref'[r].at = ref[r].at
          /\ \/ Ahead(r)' = Ahead(r) /\ ref'[r].found = ref[r].found
             \/ /\ Ahead(r) \ {h} \subseteq Ahead(r)' /\ Ahead(r)' \subseteq Ahead(r)
                /\ ref'[r].found = ref[r].found \union Listing(h, listed[h])
      BY <1>0, <2>4 DEF Age, First, Ahead, Ref, TypeOK
    <3> QED BY <1>0, <1>1, <1>2, <2>1, <2>2, <3>1, RefSteady
            DEF redis, Told, Sound, Complete, Keyed
  <2>5. CASE Answered(r, h)
    <3>1. /\ ref'[r].answers = ref[r].answers \union {<<h, running>>}
          /\ ref'[r].at = ref[r].at /\ ref'[r].found = ref[r].found
          /\ Ahead(r) \ {h} \subseteq Ahead(r)' /\ Ahead(r)' \subseteq Ahead(r)
      BY <1>0, <2>5 DEF Answered, Ahead, Ref, TypeOK
    <3> QED BY <1>0, <1>1, <2>1, <2>2, <3>1, RefSteady DEF redis, Told, Sound, Complete, Keyed
  <2> QED BY <1>4, <2>3, <2>4, <2>5
<1>5. ASSUME NEW h \in Rows, ReadList(r, h) \/ Unanswered(r, h)
      PROVE  SteadyInv' /\ registry \subseteq registry'
  <2>1. UNCHANGED redis /\ \A q \in Refreshers \ {r} : ref'[q] = ref[q]
    BY <1>5 DEF ReadList, Unanswered, TypeOK
  <2>2. Keyed' = Keyed
    BY <1>5, StatusKeeps DEF ReadList, Unanswered, Keyed
  <2>3. h \in Ahead(r) /\ h \in Keyed
    BY <1>1, <1>5 DEF ReadList, Unanswered, Polling, First, Ahead, Sound
  <2>4. /\ ref'[r].answers = ref[r].answers
        /\ ref'[r].at = ref[r].at
        /\ Ahead(r) \ {h} \subseteq Ahead(r)' /\ Ahead(r)' \subseteq Ahead(r)
        /\ ref'[r].found = ref[r].found \union Listing(h, listed[h])
    <3>1. CASE ReadList(r, h)
      BY <1>0, <3>1 DEF ReadList, First, Ahead, Ref, TypeOK
    <3>2. CASE Unanswered(r, h)
      BY <1>0, <3>2 DEF Unanswered, Ahead, Ref, TypeOK
    <3> QED BY <1>5, <3>1, <3>2
  <2> QED BY <1>0, <1>1, <1>2, <2>1, <2>2, <2>3, <2>4, RefSteady DEF redis, Told, Sound, Complete
<1>6. ASSUME NEW x \in ref[r].answers, StoreAnswer(r, x)
      PROVE  SteadyInv' /\ registry \subseteq registry'
  <2>1. x[1] \in Keyed /\ x[1] \in Rows /\ x[2] = running /\ x = <<x[1], x[2]>>
    BY <1>0, <1>1 DEF Sound, Ref
  <2>2. Keyed' = Keyed
    BY <1>6, <2>1, StatusKeeps DEF StoreAnswer
  <2>3. /\ \A q \in Refreshers \ {r} : ref'[q] = ref[q]
        /\ ref'[r].answers = ref[r].answers \ {x}
        /\ ref'[r].at = ref[r].at /\ Ahead(r)' = Ahead(r)
        /\ ref'[r].found = ref[r].found \union ({x[1]} \X running)
    BY <1>0, <1>6, <2>1 DEF StoreAnswer, Listing, Ahead, Ref, TypeOK
  <2>4. Told' /\ registry' = registry
    BY <1>0, <1>1, <1>6, <2>1, <2>2 DEF StoreAnswer, Told, TypeOK, Keyed
  <2>5. Sound(r)' /\ Complete(r)'
    BY <1>0, <1>1, <2>1, <2>2, <2>3 DEF Sound, Complete
  <2> QED BY <1>0, <2>2, <2>3, <2>4, <2>5, RefSteady
<1>7. ASSUME NEW h \in Rows, AnsweredError(r, h)
      PROVE  SteadyInv' /\ registry \subseteq registry'
  BY <1>7 DEF AnsweredError
<1>8. CASE Publish(r)
  <2>1. Ahead(r) = {} /\ ref[r].answers = {} /\ ref[r].at = "busy"
    BY <1>8 DEF Publish, Through, Ahead
  <2>2. ref[r].found = Keyed \X running
    BY <1>1, <2>1 DEF Sound, Complete
  <2>3. registry' \in {registry, ref[r].found}
    BY <1>8 DEF Publish
  <2>4. registry \subseteq registry' /\ registry' \subseteq Keyed \X running
    BY <1>1, <2>2, <2>3
  <2>5. UNCHANGED <<rows, listed>> /\ ref' = [ref EXCEPT ![r] = NoRef]
    BY <1>8 DEF Publish
  <2>6. \A q \in Refreshers : Sound(q)' /\ Complete(q)'
    BY <1>0, <2>5 DEF SteadyInv, Sound, Complete, Ahead, NoRef, Keyed, TypeOK
  <2> QED BY <1>0, <1>1, <2>4, <2>5, <2>6 DEF SteadyInv, Told, Keyed
<1> QED BY <1>3, <1>4, <1>5, <1>6, <1>7, <1>8 DEF Refresh

(* However many refreshes run at once, on whatever they find of connections *)
(* that come and go, none takes a model that still runs off the registry.   *)
THEOREM RegistryKept == Spec => NoDropout
<1> DEFINE Kept == steady => registry \subseteq registry'
<1>1. TypeOK /\ SteadyInv /\ [Next]_vars => SteadyInv' /\ Kept
  <2> SUFFICES ASSUME TypeOK, SteadyInv, [Next]_vars PROVE SteadyInv' /\ Kept
    OBVIOUS
  <2>1. CASE UNCHANGED vars
    BY <2>1, AsideSteady DEF vars, redis, machine, SteadyInv, Told, Keyed
  <2>2. ASSUME NEW r \in Refreshers, Refresh(r)
        PROVE  SteadyInv' /\ Kept
    BY <2>2, RefreshSteady
  <2>3. ASSUME NEW a \in Admins,
               (\E s \in Sids : Take(a, s)) \/ Answer(a) \/ PreRegister(a) \/ RemoveRow(a)
        PROVE  SteadyInv' /\ Kept
    <3>1. registry' = registry
      BY <2>3 DEF Take, Answer, RemoveEntry, AddRow, Promote, ListInstances, Disconnect,
                  PreRegister, RemoveRow, redis
    <3> QED BY <2>3, <3>1, AdminSteady
  <2>4. ASSUME NEW e \in events, ReadEvent(e) \/ StoreEvent(e)
        PROVE  SteadyInv' /\ Kept
    BY <2>4, EventSteady DEF ReadEvent, StoreEvent, redis
  <2>5. CASE \/ \E s \in Sids : Connect(s) \/ Drop(s) \/ Send(s) \/ Serve(s)
             \/ Halt \/ Start \/ Change \/ Crash \/ \E h \in Rows : GraceEnds(h)
    <3>1. registry' = registry
      BY <2>5 DEF Connect, Drop, Send, Halt, Start, Change, Crash, GraceEnds, Serve, Lookup,
                  Register, ClearTimes, Online, Unregister, Stamp, Offline, Unpend, redis
    <3> QED BY <2>5, <3>1, MachineSteady
  <2> QED BY <2>1, <2>2, <2>3, <2>4, <2>5 DEF Next
<1>2. Kept => [steady => registry \subseteq registry']_registry
  OBVIOUS
<1> QED BY <1>1, <1>2, InitSteady, TypeCorrect, PTL DEF Spec, NoDropout

================================================================================
