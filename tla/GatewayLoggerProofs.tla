-------------------------- MODULE GatewayLoggerProofs --------------------------
(***************************************************************************)
(* What holds of the logger for any number of requests, endpoints and      *)
(* flushes that run side by side: undisturbed, every request that ended    *)
(* has a summary on its way or a row, and the row is the report that knows *)
(* client and start.  The invariant follows that report (Kept), and says   *)
(* that a later, poorer one never comes before it (Preceded).              *)
(***************************************************************************)
EXTENDS GatewayLogger, WellFoundedInduction, TLAPS

--------------------------------------------------------------------------------
(* The first summary of a request in a batch. *)

LEMMA HasLeast ==
  ASSUME NEW I \in SUBSET Nat, I # {}
  PROVE  \E x \in I : \A y \in I : x <= y
<1>1. PICK R : R = OpToRel(<, Nat)
  OBVIOUS
<1>2. \A x, y \in Nat : x < y => <<x, y>> \in R
  BY <1>1 DEF OpToRel
<1>3. PICK x \in I : \A y \in I : ~ (<<y, x>> \in R)
  BY <1>1, NatLessThanWellFounded, WFMin
<1>4. ASSUME NEW y \in I PROVE x <= y
  <2>1. ~ (y < x)
    BY <1>2, <1>3
  <2> QED BY <2>1
<1> QED BY <1>4

LEMMA FirstIs ==
  ASSUME NEW r, NEW taken \in Seq(Summary)
  PROVE  \/ First(r, taken) = 0 /\ \A i \in 1..Len(taken) : taken[i].of # r
         \/ /\ First(r, taken) \in 1..Len(taken) /\ taken[First(r, taken)].of = r
            /\ \A i \in 1..Len(taken) : taken[i].of = r => First(r, taken) <= i
<1> DEFINE I == {i \in 1..Len(taken) : taken[i].of = r}
<1>1. First(r, taken) = IF I # {} THEN CHOOSE x \in I : \A y \in I : x <= y ELSE 0
  BY DEF First, SelectInSeq, Min
<1>2. I \in SUBSET Nat
  OBVIOUS
<1>3. CASE I = {}
  BY <1>1, <1>3
<1>4. CASE I # {}
  <2>1. \E x \in I : \A y \in I : x <= y
    BY <1>2, <1>4, HasLeast
  <2> HIDE DEF I
  <2>2. First(r, taken) \in I /\ \A y \in I : First(r, taken) <= y
    BY <1>1, <1>4, <2>1
  <2> USE DEF I
  <2> QED BY <2>2
<1> QED BY <1>3, <1>4

--------------------------------------------------------------------------------
(* Types: what is in flight has been routed no more often than the request. *)

TypeInv ==
  /\ TypeOK
  /\ \A r \in Requests : inflight[r].attempts <= tries[r]

LEMMA CountedType ==
  ASSUME NEW n \in -1..MaxAttempts
  PROVE  Counted(n) \in 1..MaxAttempts
BY LoggerAssumption DEF Counted

More(p) == [p EXCEPT !.attempts = @ + 1]

LEMMA OneMore ==
  ASSUME NEW a \in Nat, NEW w \in BOOLEAN, NEW d \in BOOLEAN
  PROVE  More([attempts |-> a, whole |-> w, dated |-> d])
           = [attempts |-> a + 1, whole |-> w, dated |-> d]
BY DEF More

LEMMA EndsTypes ==
  ASSUME TypeInv, NEW r \in Requests, NEW status \in {"success", "missed", "error"},
         Ends(r, status)
  PROVE  /\ inflight' \in [Requests -> InProgress \union {NoProgress}]
         /\ \A q \in Requests : inflight'[q].attempts <= tries[q]
         /\ buffer' \in Seq(Summary)
         /\ batch' = batch /\ table' = table
<1>1. inflight[r].attempts \in -1..MaxAttempts /\ inflight[r].whole \in BOOLEAN
  <2>1. inflight[r] \in InProgress \union {NoProgress}
    BY DEF TypeInv, TypeOK
  <2>2. CASE inflight[r] \in InProgress
    BY <2>2, LoggerAssumption DEF InProgress
  <2>3. CASE inflight[r] = NoProgress
    BY <2>3, LoggerAssumption DEF NoProgress
  <2> QED BY <2>1, <2>2, <2>3
<1> DEFINE s == [of |-> r, status |-> status, attempts |-> Counted(inflight[r].attempts),
                 whole |-> inflight[r].whole]
<1>2. s \in Summary
  BY <1>1, CountedType DEF Summary
<1>3. buffer' = Append(buffer, s)
  BY DEF Ends
<1> HIDE DEF s
<1>4. buffer' \in Seq(Summary)
  BY <1>2, <1>3 DEF TypeInv, TypeOK
<1>5. NoProgress.attempts = -1
  BY DEF NoProgress
<1> QED BY <1>4, <1>5 DEF Ends, Progress, TypeInv, TypeOK

LEMMA InsertedTypes ==
  ASSUME TypeOK, NEW taken \in Seq(Summary)
  PROVE  Inserted(taken) \in [Requests -> Summary \union {NoSummary}]
BY FirstIs DEF TypeOK, Inserted

LEMMA TypeStep ==
  ASSUME TypeInv, [Next]_vars
  PROVE  TypeInv'
<1> USE DEF TypeInv, TypeOK, Goto, requestVars, logVars
<1>1. ASSUME NEW r \in Requests, StartRequest(r)
      PROVE  TypeInv'
  <2>1. [attempts |-> 0, whole |-> TRUE, dated |-> TRUE] \in InProgress
    BY LoggerAssumption DEF InProgress
  <2> QED BY <1>1, <2>1 DEF StartRequest, Progress
<1>2. ASSUME NEW r \in Requests, Routed(r)
      PROVE  TypeInv'
  <2> DEFINE new == IF inflight[r] = NoProgress
                    THEN [attempts |-> 1, whole |-> FALSE, dated |-> TRUE]
                    ELSE More(inflight[r])
  <2>1. new \in InProgress /\ new.attempts <= tries[r] + 1
    <3>1. CASE inflight[r] = NoProgress
      BY <1>2, <3>1, LoggerAssumption DEF InProgress, Routed
    <3>2. CASE inflight[r] # NoProgress
      <4>1. PICK a \in 0..MaxAttempts, w \in BOOLEAN, d \in BOOLEAN :
              inflight[r] = [attempts |-> a, whole |-> w, dated |-> d]
        BY <3>2 DEF InProgress
      <4>2. a <= tries[r] /\ tries[r] < MaxAttempts /\ tries[r] \in Nat
        BY <1>2, <4>1 DEF Routed
      <4>3. new = [attempts |-> a + 1, whole |-> w, dated |-> d]
        BY <3>2, <4>1, OneMore, LoggerAssumption
      <4> HIDE DEF new
      <4> QED BY <4>2, <4>3, LoggerAssumption DEF InProgress
    <3> QED BY <3>1, <3>2
  <2>2. tries' \in [Requests -> 0..MaxAttempts] /\ tries'[r] = tries[r] + 1
        /\ \A q \in Requests \ {r} : tries'[q] = tries[q]
    BY <1>2, LoggerAssumption DEF Routed
  <2>3. inflight' = [inflight EXCEPT ![r] = new]
    BY <1>2 DEF Routed, Progress, More
  <2> HIDE DEF new
  <2> QED BY <1>2, <2>1, <2>2, <2>3 DEF Routed
<1>3. ASSUME NEW r \in Requests, Reroute(r) \/ Break(r)
      PROVE  TypeInv'
  BY <1>3, LoggerAssumption DEF Reroute, Break, Spend
<1>4. ASSUME NEW r \in Requests, Succeed(r) \/ Reject(r) \/ Catch(r) \/ GiveUp(r)
      PROVE  TypeInv'
  <2>1. PICK status \in {"success", "missed", "error"} : Ends(r, status)
    BY <1>4 DEF Succeed, Reject, Catch, GiveUp
  <2> QED BY <1>4, <2>1, EndsTypes DEF Succeed, Reject, Catch, GiveUp
<1>5. ASSUME NEW r \in Requests, Reap(r)
      PROVE  TypeInv'
  <2>1. NoProgress.attempts = -1
    BY DEF NoProgress
  <2>2. budget' \in 0..MaxFaults
    BY <1>5, LoggerAssumption DEF Reap, Spend
  <2> QED BY <1>5, <2>1, <2>2 DEF Reap, Progress
<1>6. ASSUME NEW f \in Flushers, Take(f)
      PROVE  TypeInv'
  BY <1>6 DEF Take
<1>7. ASSUME NEW f \in Flushers, Write(f)
      PROVE  TypeInv'
  <2>1. table' \in [Requests -> Summary \union {NoSummary}]
    BY <1>7, InsertedTypes DEF Write
  <2>2. budget' \in 0..MaxFaults
    BY <1>7, LoggerAssumption DEF Write, Spend
  <2>3. <<>> \in Seq(Summary)
    OBVIOUS
  <2> QED BY <1>7, <2>1, <2>2, <2>3 DEF Write
<1>8. CASE Stop
  <2>1. NoProgress.attempts = -1
    BY DEF NoProgress
  <2>2. budget' \in 0..MaxFaults
    BY <1>8, LoggerAssumption DEF Stop, Spend
  <2>3. batch' \in [Flushers -> Seq(Summary)]
    BY <1>8 DEF Stop
  <2>4. inflight' \in [Requests -> InProgress \union {NoProgress}]
        /\ \A q \in Requests : inflight'[q].attempts <= tries[q]
    BY <1>8, <2>1, LoggerAssumption DEF Stop
  <2> QED BY <1>8, <2>2, <2>3, <2>4 DEF Stop
<1>9. ASSUME NEW e \in Endpoints, DeleteEndpoint(e)
      PROVE  TypeInv'
  BY <1>9 DEF DeleteEndpoint
<1>10. CASE UNCHANGED vars
  BY <1>10 DEF vars
<1> QED BY <1>1, <1>2, <1>3, <1>4, <1>5, <1>6, <1>7, <1>8, <1>9, <1>10 DEF Next, Handle

LEMMA TypeInit == Init => TypeInv
<1>1. NoProgress.attempts = -1 /\ <<>> \in Seq(Summary)
  BY DEF NoProgress
<1> QED BY <1>1, LoggerAssumption DEF Init, TypeInv, TypeOK

(* The variables of the logger keep their types, whatever fails.            *)
THEOREM TypeCorrect == Spec => []TypeOK
<1>1. TypeInv => TypeOK
  BY DEF TypeInv
<1> QED BY <1>1, TypeInit, TypeStep, PTL DEF Spec

--------------------------------------------------------------------------------
(* Where the report of a request is that knows client and start. *)

Whole(r, q) == \E i \in 1..Len(q) : q[i].of = r /\ q[i].whole

Kept(r) ==
  \/ table[r] # NoSummary
  \/ Whole(r, buffer)
  \/ \E f \in Flushers : Whole(r, batch[f])

(* A summary is one of a request that ended, and what it knows is true. *)
Honest(s) == Reported(s.of) /\ (s.whole => s.attempts = Counted(tries[s.of]))

(* The i-th summary of q will not be inserted before a better one of its    *)
(* request: that one is the row, before it in q, or in a flush of others.   *)
Preceded(q, i, others) ==
  \/ q[i].whole
  \/ table[q[i].of] # NoSummary
  \/ \E j \in 1..(i - 1) : q[j].of = q[i].of /\ q[j].whole
  \/ \E g \in others : Whole(q[i].of, batch[g])

Carried(r) ==
  /\ pc[r] = "idle" => tries[r] = 0
  /\ pc[r] \in {"find", "send"} => inflight[r].whole /\ inflight[r].attempts = tries[r]
  /\ Reported(r) => inflight[r] = NoProgress

RowTrue(r) ==
  table[r] # NoSummary => Reported(r) /\ table[r].whole /\ table[r].attempts = Counted(tries[r])

LogInv ==
  /\ \A r \in Requests : Carried(r)
  /\ \A r \in Requests : Reported(r) => Kept(r)
  /\ \A r \in Requests : RowTrue(r)
  /\ \A i \in 1..Len(buffer) : Honest(buffer[i]) /\ Preceded(buffer, i, Flushers)
  /\ \A f \in Flushers : \A i \in 1..Len(batch[f]) :
       Honest(batch[f][i]) /\ Preceded(batch[f], i, Flushers \ {f})

--------------------------------------------------------------------------------
(* Each kind of step keeps it. *)

LEMMA StillUndisturbed ==
  ASSUME TypeInv, [Next]_vars, Undisturbed'
  PROVE  Undisturbed /\ budget' = budget
<1>1. budget \in 0..MaxFaults /\ MaxFaults \in Nat
  BY LoggerAssumption DEF TypeInv, TypeOK
<1>2. (budget' = budget \/ budget' = budget - 1) /\ deleted \subseteq deleted'
  BY DEF Next, Handle, StartRequest, Routed, Reroute, Succeed, Reject, Catch, GiveUp, Break, Reap,
         Take, Write, Stop, DeleteEndpoint, Spend, vars
<1> QED BY <1>1, <1>2 DEF Undisturbed

LEMMA Typed ==
  ASSUME TypeInv
  PROVE  /\ \A i \in 1..Len(buffer) : buffer[i] \in Summary
         /\ \A f \in Flushers : \A i \in 1..Len(batch[f]) : batch[f][i] \in Summary
         /\ Len(buffer) \in Nat /\ \A f \in Flushers : Len(batch[f]) \in Nat
BY DEF TypeInv, TypeOK

LEMMA HonestStays ==
  ASSUME NEW s \in Summary, Honest(s), Reported(s.of)', tries'[s.of] = tries[s.of]
  PROVE  Honest(s)'
BY DEF Honest, Summary

(* Nothing is queued, taken or written. *)
LEMMA OutsideKeeps ==
  ASSUME TypeInv, LogInv, UNCHANGED <<buffer, batch, table>>,
         \A r \in Requests : Carried(r)',
         \A r \in Requests : Reported(r)' <=> Reported(r),
         \A r \in Requests : Reported(r) => tries'[r] = tries[r]
  PROVE  LogInv'
<1>1. \A s \in Summary : Honest(s) => Honest(s)'
  BY HonestStays DEF Honest, Summary
<1> QED BY <1>1, Typed DEF LogInv, Kept, RowTrue, Preceded

(* A request is reported. *)
LEMMA EndsKeeps ==
  ASSUME TypeInv, LogInv,
         NEW r \in Requests, NEW status \in {"success", "missed", "error"}, Ends(r, status),
         NEW place \in {"rejected", "over"}, pc' = [pc EXCEPT ![r] = place],
         pc[r] \in {"find", "send", "rejected"}, tries' = tries
  PROVE  LogInv'
<1>0. PICK s : s = [of |-> r, status |-> status, attempts |-> Counted(inflight[r].attempts),
                    whole |-> inflight[r].whole]
  OBVIOUS
<1>1. /\ buffer' = Append(buffer, s) /\ batch' = batch /\ table' = table
      /\ s.of = r /\ s.whole = inflight[r].whole /\ s.attempts = Counted(inflight[r].attempts)
  BY <1>0 DEF Ends
<1>2. /\ inflight' = [inflight EXCEPT ![r] = NoProgress]
      /\ NoProgress.whole = FALSE
      /\ pc \in [Requests -> {"idle", "find", "send", "rejected", "over", "broken"}]
      /\ inflight \in [Requests -> InProgress \union {NoProgress}]
      /\ buffer \in Seq(Summary)
  BY DEF Ends, Progress, NoProgress, TypeInv, TypeOK
<1>3. s.whole \/ Kept(r)
  BY <1>1 DEF LogInv, Carried, Reported
<1>4. s.whole => s.attempts = Counted(tries[r])
  BY <1>1, <1>2 DEF LogInv, Carried, Reported
<1>5. /\ Len(buffer) \in Nat /\ Len(buffer') = Len(buffer) + 1
      /\ \A i \in 1..Len(buffer) : buffer'[i] = buffer[i]
      /\ buffer'[Len(buffer) + 1] = s
  BY <1>1, <1>2
<1>6. \A q : Whole(q, buffer) => Whole(q, buffer')
  BY <1>5 DEF Whole
<1>7. \A q \in Requests : Reported(q)' <=> Reported(q) \/ q = r
  BY <1>2 DEF Reported
<1>8. \A q \in Requests : Carried(q)'
  BY <1>2, <1>7 DEF LogInv, Carried
<1>9. \A t \in Summary : Honest(t) => Honest(t)'
  BY <1>7 DEF Honest, Summary
<1>10. \A q \in Requests : Reported(q)' => Kept(q)'
  <2>1. s.whole => Whole(r, buffer')
    BY <1>1, <1>5 DEF Whole
  <2>2. \A q : Kept(q) => Kept(q)'
    BY <1>1, <1>6 DEF Kept
  <2> QED BY <1>3, <1>7, <2>1, <2>2 DEF LogInv, Kept
<1>11. \A q \in Requests : RowTrue(q)'
  BY <1>1, <1>7 DEF LogInv, RowTrue
<1>12. PICK b : b = buffer'
  OBVIOUS
<1>13. ASSUME NEW i \in 1..Len(b)
       PROVE  Honest(b[i])' /\ Preceded(b, i, Flushers)'
  <2>1. CASE i \in 1..Len(buffer)
    <3>1. b[i] = buffer[i] /\ \A j \in 1..(i - 1) : b[j] = buffer[j]
      BY <1>5, <1>12, <2>1
    <3>2. Honest(buffer[i]) /\ Preceded(buffer, i, Flushers)
      BY <2>1 DEF LogInv
    <3>3. Preceded(b, i, Flushers)'
      BY <1>1, <1>12, <3>1, <3>2 DEF Preceded
    <3> QED BY <1>9, <2>1, <3>1, <3>2, <3>3, Typed
  <2>2. CASE i = Len(buffer) + 1
    <3>1. b[i] = s
      BY <1>5, <1>12, <2>2
    <3>2. Honest(s)'
      BY <1>1, <1>4, <1>7 DEF Honest
    <3>3. Whole(r, buffer) => \E j \in 1..(i - 1) : b[j].of = r /\ b[j].whole
      BY <1>5, <1>12, <2>2 DEF Whole
    <3>4. Preceded(b, i, Flushers)'
      BY <1>1, <1>3, <3>1, <3>3 DEF Preceded, Kept
    <3> QED BY <3>1, <3>2, <3>4
  <2> QED BY <1>5, <1>12, <2>1, <2>2
<1>14. ASSUME NEW f \in Flushers, NEW i \in 1..Len(batch[f])
       PROVE  Honest(batch[f][i])' /\ Preceded(batch[f], i, Flushers \ {f})'
  BY <1>1, <1>9, Typed DEF LogInv, Preceded
<1> QED BY <1>1, <1>8, <1>10, <1>11, <1>12, <1>13, <1>14 DEF LogInv

(* A flush takes the buffer. *)
LEMMA TakeKeeps ==
  ASSUME TypeInv, LogInv, NEW f \in Flushers, Take(f)
  PROVE  LogInv'
<1>1. /\ UNCHANGED <<pc, tries, inflight, table>>
      /\ batch' = [batch EXCEPT ![f] = buffer] /\ buffer' = <<>> /\ batch[f] = <<>>
      /\ batch = [g \in Flushers |-> batch[g]]
  BY DEF Take, requestVars, TypeInv, TypeOK
<1>2. batch'[f] = buffer /\ \A g \in Flushers \ {f} : batch'[g] = batch[g]
  BY <1>1
<1>3. \A q : ~ Whole(q, batch[f])
  BY <1>1 DEF Whole
<1>4. \A q : Whole(q, buffer) => Whole(q, batch'[f])
  BY <1>2
<1>5. \A s : Honest(s) <=> Honest(s)'
  BY <1>1 DEF Honest, Reported
<1>6. \A q \in Requests : Reported(q)' => Kept(q)'
  BY <1>1, <1>2, <1>3, <1>4 DEF LogInv, Kept, Reported
<1>7. \A q \in Requests : RowTrue(q)' /\ Carried(q)'
  BY <1>1 DEF LogInv, RowTrue, Carried, Reported
<1>8. PICK b : b = batch'
  OBVIOUS
<1>9. ASSUME NEW g \in Flushers, NEW i \in 1..Len(b[g])
      PROVE  Honest(b[g][i])' /\ Preceded(b[g], i, Flushers \ {g})'
  <2>1. CASE g = f
    <3>1. b[g] = buffer /\ i \in 1..Len(buffer)
      BY <1>2, <1>8, <2>1
    <3>2. Honest(b[g][i]) /\ Preceded(b[g], i, Flushers)
      BY <3>1 DEF LogInv
    <3> QED BY <1>1, <1>2, <1>3, <1>5, <2>1, <3>1, <3>2 DEF Preceded
  <2>2. CASE g # f
    <3>1. b[g] = batch[g]
      BY <1>2, <1>8, <2>2
    <3>2. Honest(b[g][i]) /\ Preceded(b[g], i, Flushers \ {g})
      BY <3>1 DEF LogInv
    <3> QED BY <1>1, <1>2, <1>3, <1>5, <3>2 DEF Preceded
  <2> QED BY <2>1, <2>2
<1>10. \A i \in 1..Len(buffer') : FALSE
  BY <1>1
<1> QED BY <1>6, <1>7, <1>8, <1>9, <1>10 DEF LogInv

(* A transaction commits: no other flush has a better report of what it     *)
(* inserts, so that the first summary of a request is the better one.       *)
LEMMA InsertKeeps ==
  ASSUME TypeInv, LogInv, NEW f \in Flushers, batch[f] # <<>>, ~ Overtakes(f),
         table' = Inserted(batch[f]), batch' = [batch EXCEPT ![f] = <<>>],
         UNCHANGED <<pc, tries, inflight, buffer>>
  PROVE  LogInv'
<1>1. /\ batch[f] \in Seq(Summary)
      /\ batch' = [g \in Flushers |-> IF g = f THEN <<>> ELSE batch[g]]
      /\ table \in [Requests -> Summary \union {NoSummary}]
  BY DEF TypeInv, TypeOK
<1>2. \A s \in Summary : s # NoSummary
  BY DEF Summary, NoSummary
<1>3. ASSUME NEW r \in Requests, table[r] = NoSummary, table'[r] # NoSummary
      PROVE  \E i \in 1..Len(batch[f]) :
               batch[f][i].of = r /\ batch[f][i].whole /\ table'[r] = batch[f][i]
  <2>1. PICK i : i = First(r, batch[f])
    OBVIOUS
  <2>2. i # 0 /\ table'[r] = batch[f][i]
    BY <1>3, <2>1 DEF Inserted
  <2>3. /\ i \in 1..Len(batch[f]) /\ batch[f][i].of = r
        /\ \A j \in 1..Len(batch[f]) : batch[f][j].of = r => i <= j
    BY <1>1, <2>1, <2>2, FirstIs
  <2>4. Preceded(batch[f], i, Flushers \ {f})
    BY <2>3 DEF LogInv
  <2>5. ~ \E j \in 1..(i - 1) : batch[f][j].of = r /\ batch[f][j].whole
    BY <1>1, <2>3
  <2>6. ASSUME NEW g \in Flushers \ {f}, Whole(r, batch[g])
        PROVE  batch[f][i].whole
    <3>1. PICK j \in 1..Len(batch[g]) : batch[g][j].of = r /\ batch[g][j].whole
      BY <2>6 DEF Whole
    <3>2. batch[g] \in Seq(Summary)
      BY DEF TypeInv, TypeOK
    <3>3. batch[f][i] \in Range(batch[f]) /\ batch[g][j] \in Range(batch[g])
      BY <1>1, <2>3, <3>2 DEF Range
    <3> QED BY <2>3, <3>1, <3>3 DEF Overtakes
  <2> QED BY <1>3, <2>2, <2>3, <2>4, <2>5, <2>6 DEF Preceded
<1>4. ASSUME NEW r \in Requests, table[r] # NoSummary
      PROVE  table'[r] = table[r]
  BY <1>4 DEF Inserted
<1>5. ASSUME NEW r \in Requests, Whole(r, batch[f])
      PROVE  table'[r] # NoSummary
  <2>1. PICK i \in 1..Len(batch[f]) : batch[f][i].of = r
    BY <1>5 DEF Whole
  <2>2. First(r, batch[f]) # 0 /\ First(r, batch[f]) \in 1..Len(batch[f])
    BY <1>1, <2>1, FirstIs
  <2> QED BY <1>1, <1>2, <1>4, <2>2 DEF Inserted
<1>6. \A s : Honest(s) <=> Honest(s)'
  BY DEF Honest, Reported
<1>7. \A r \in Requests : Carried(r)'
  BY DEF LogInv, Carried, Reported
<1>8. \A r \in Requests : Kept(r) => Kept(r)'
  BY <1>1, <1>4, <1>5 DEF Kept
<1>9. ASSUME NEW r \in Requests, table'[r] # NoSummary
      PROVE  Reported(r) /\ table'[r].whole /\ table'[r].attempts = Counted(tries[r])
  <2>1. CASE table[r] # NoSummary
    BY <1>4, <2>1 DEF LogInv, RowTrue
  <2>2. CASE table[r] = NoSummary
    <3>1. PICK i \in 1..Len(batch[f]) :
               batch[f][i].of = r /\ batch[f][i].whole /\ table'[r] = batch[f][i]
      BY <1>3, <1>9, <2>2
    <3>2. Honest(batch[f][i])
      BY DEF LogInv
    <3> QED BY <3>1, <3>2 DEF Honest
  <2> QED BY <2>1, <2>2
<1>10. \A r \in Requests : RowTrue(r)'
  BY <1>9 DEF RowTrue, Reported
<1>11. ASSUME NEW q \in Seq(Summary), NEW i \in 1..Len(q), NEW others \in SUBSET Flushers,
              Preceded(q, i, others)
       PROVE  Preceded(q, i, others)'
  <2>1. q[i].of \in Requests
    <3>1. q[i] \in Summary
      OBVIOUS
    <3> QED BY <3>1 DEF Summary
  <2>2. \A g \in others : Whole(q[i].of, batch[g]) =>
          table'[q[i].of] # NoSummary \/ Whole(q[i].of, batch'[g])
    BY <1>1, <1>5, <2>1
  <2> QED BY <1>4, <1>11, <2>1, <2>2 DEF Preceded
<1>12. ASSUME NEW i \in 1..Len(buffer')
       PROVE  Honest(buffer[i])' /\ Preceded(buffer, i, Flushers)'
  <2>1. PICK q \in Seq(Summary) : q = buffer
    BY DEF TypeInv, TypeOK
  <2>2. Honest(q[i]) /\ Preceded(q, i, Flushers)
    BY <2>1 DEF LogInv
  <2>3. Honest(q[i])' /\ Preceded(q, i, Flushers)'
    BY <1>6, <1>11, <2>1, <2>2
  <2> QED BY <2>1, <2>3
<1>13. PICK b : b = batch'
  OBVIOUS
<1>14. ASSUME NEW g \in Flushers, NEW i \in 1..Len(b[g])
       PROVE  Honest(b[g][i])' /\ Preceded(b[g], i, Flushers \ {g})'
  <2>1. g # f
    BY <1>1, <1>13
  <2>2. b[g] = batch[g] /\ batch[g] \in Seq(Summary)
    BY <1>1, <1>13, <2>1 DEF TypeInv, TypeOK
  <2>3. Honest(b[g][i]) /\ Preceded(b[g], i, Flushers \ {g})
    BY <2>2 DEF LogInv
  <2> QED BY <1>6, <1>11, <2>2, <2>3
<1> QED BY <1>7, <1>8, <1>10, <1>12, <1>13, <1>14 DEF LogInv, Reported

LEMMA WriteKeeps ==
  ASSUME TypeInv, LogInv, Undisturbed, Undisturbed', NEW f \in Flushers, Write(f)
  PROVE  LogInv'
<1>1. budget = MaxFaults /\ budget' = MaxFaults /\ MaxFaults \in Nat /\ deleted = {}
  BY LoggerAssumption DEF Undisturbed
<1>2. ~ Refused(batch[f])
  BY <1>1 DEF Refused
<1>3. \A kind : ~ Spend(kind)
  BY <1>1 DEF Spend
<1>4. ~ Overtakes(f) /\ table' = Inserted(batch[f])
  BY <1>2, <1>3 DEF Write
<1> QED BY <1>4, InsertKeeps DEF Write, requestVars

LEMMA StopKeeps ==
  ASSUME TypeInv, LogInv, Undisturbed, Undisturbed', Stop
  PROVE  LogInv'
<1>1. \A f \in Flushers : batch[f] = <<>>
  BY LoggerAssumption DEF Stop, Undisturbed, Spend
<1>2. UNCHANGED <<pc, tries, buffer, table>> /\ batch' = batch
  BY <1>1 DEF Stop, requestVars, TypeInv, TypeOK
<1>3. \A r \in Requests : Carried(r)'
  BY <1>2 DEF Stop, LogInv, Carried, Reported
<1> QED BY <1>2, <1>3, OutsideKeeps DEF Reported

LEMMA HandleKeeps ==
  ASSUME TypeInv, LogInv, Undisturbed, Undisturbed', NEW r \in Requests,
         StartRequest(r) \/ Routed(r) \/ Reroute(r) \/ Break(r) \/ Reap(r)
  PROVE  LogInv'
<1>1. budget' = budget /\ \A kind : ~ Spend(kind)
  BY LoggerAssumption DEF Undisturbed, Spend
<1>2. /\ pc \in [Requests -> {"idle", "find", "send", "rejected", "over", "broken"}]
      /\ tries \in [Requests -> 0..MaxAttempts]
      /\ inflight \in [Requests -> InProgress \union {NoProgress}]
  BY DEF TypeInv, TypeOK
<1>3. UNCHANGED <<buffer, batch, table>>
  BY DEF StartRequest, Routed, Reroute, Break, Reap, logVars
<1>4. CASE StartRequest(r)
  <2>1. \A q \in Requests : Carried(q)'
    BY <1>2, <1>4 DEF StartRequest, Goto, Progress, LogInv, Carried, Reported, TypeInv
  <2> QED BY <1>2, <1>3, <1>4, <2>1, OutsideKeeps DEF StartRequest, Goto, Reported
<1>5. CASE Routed(r)
  <2> DEFINE new == IF inflight[r] = NoProgress
                    THEN [attempts |-> 1, whole |-> FALSE, dated |-> TRUE]
                    ELSE More(inflight[r])
  <2>1. pc[r] = "find" /\ inflight[r].whole /\ inflight[r].attempts = tries[r] /\ NoProgress.whole = FALSE
    BY <1>5 DEF Routed, LogInv, Carried, NoProgress
  <2>2. PICK a \in 0..MaxAttempts, w \in BOOLEAN, d \in BOOLEAN :
          inflight[r] = [attempts |-> a, whole |-> w, dated |-> d]
    BY <1>2, <2>1 DEF InProgress
  <2>3. new = [attempts |-> a + 1, whole |-> w, dated |-> d]
    <3>1. inflight[r] # NoProgress
      BY <2>1, Zenon
    <3> QED BY <2>2, <3>1, OneMore, LoggerAssumption
  <2>4. /\ inflight' = [inflight EXCEPT ![r] = new]
        /\ pc' = [pc EXCEPT ![r] = "send"] /\ tries' = [tries EXCEPT ![r] = @ + 1]
    BY <1>5 DEF Routed, Progress, More, Goto
  <2> HIDE DEF new
  <2>5. inflight'[r].whole /\ inflight'[r].attempts = tries'[r] /\ pc'[r] = "send"
    BY <1>2, <2>1, <2>2, <2>3, <2>4
  <2>6. \A q \in Requests \ {r} :
          inflight'[q] = inflight[q] /\ tries'[q] = tries[q] /\ pc'[q] = pc[q]
    BY <1>2, <2>4
  <2>7. \A q \in Requests : Carried(q)'
    BY <2>5, <2>6 DEF LogInv, Carried, Reported
  <2> QED BY <1>3, <2>1, <2>5, <2>6, <2>7, OutsideKeeps DEF Reported
<1>6. CASE Reroute(r)
  <2>1. UNCHANGED <<tries, inflight>> /\ pc' = [pc EXCEPT ![r] = "find"] /\ pc[r] = "send"
    BY <1>6 DEF Reroute, logVars, Goto
  <2>2. \A q \in Requests : Carried(q)'
    BY <1>2, <2>1 DEF LogInv, Carried, Reported
  <2> QED BY <1>2, <1>3, <2>1, <2>2, OutsideKeeps DEF Reported
<1>7. CASE Break(r)
  BY <1>1, <1>7 DEF Break
<1>8. CASE Reap(r)
  <2>1. UNCHANGED <<pc, tries>> /\ inflight' = [inflight EXCEPT ![r] = NoProgress]
        /\ pc[r] = "broken"
    BY <1>1, <1>8 DEF Reap, requestVars, Progress
  <2>2. \A q \in Requests : Carried(q)'
    BY <1>2, <2>1 DEF LogInv, Carried, Reported
  <2> QED BY <1>3, <2>1, <2>2, OutsideKeeps DEF Reported
<1> QED BY <1>4, <1>5, <1>6, <1>7, <1>8

LEMMA LogStep ==
  ASSUME TypeInv, LogInv, Undisturbed, Undisturbed', [Next]_vars
  PROVE  LogInv'
<1>1. ASSUME NEW r \in Requests, Handle(r) \/ Break(r) \/ Reap(r)
      PROVE  LogInv'
  <2>1. CASE Succeed(r)
    BY <2>1, EndsKeeps DEF Succeed, Goto
  <2>2. CASE Reject(r)
    BY <2>2, EndsKeeps DEF Reject, Goto
  <2>3. CASE Catch(r)
    BY <2>3, EndsKeeps DEF Catch, Goto
  <2>4. CASE GiveUp(r)
    <3>1. PICK status \in {"missed", "error"} : Ends(r, status)
      BY <2>4 DEF GiveUp
    <3> QED BY <2>4, <3>1, EndsKeeps DEF GiveUp, Goto
  <2> QED BY <1>1, <2>1, <2>2, <2>3, <2>4, HandleKeeps DEF Handle
<1>2. ASSUME NEW f \in Flushers, Take(f) \/ Write(f)
      PROVE  LogInv'
  BY <1>2, TakeKeeps, WriteKeeps
<1>3. ASSUME NEW e \in Endpoints, DeleteEndpoint(e)
      PROVE  LogInv'
  BY <1>3 DEF DeleteEndpoint, Undisturbed
<1>4. CASE UNCHANGED vars
  <2>1. UNCHANGED <<pc, tries, inflight, buffer, batch, table>>
    BY <1>4 DEF vars, requestVars, logVars
  <2>2. \A r \in Requests : Carried(r)'
    BY <2>1 DEF LogInv, Carried, Reported
  <2> QED BY <2>1, <2>2, OutsideKeeps DEF Reported
<1> QED BY <1>1, <1>2, <1>3, <1>4, StopKeeps DEF Next

LEMMA LogInit == Init => LogInv
<1>1. Len(<<>>) = 0
  OBVIOUS
<1> QED BY <1>1 DEF Init, LogInv, Carried, RowTrue, Reported

(* The invariant the two results below rest on: while nothing has failed,   *)
(* the report written by log_event that knows client and start is followed  *)
(* from the event to the row.                                               *)
THEOREM Logged == Spec => [](TypeInv /\ (Undisturbed => LogInv))
<1>1. TypeInv /\ (Undisturbed => LogInv) /\ [Next]_vars => TypeInv' /\ (Undisturbed' => LogInv')
  BY TypeStep, StillUndisturbed, LogStep
<1> QED BY <1>1, TypeInit, LogInit, PTL DEF Spec

(* Undisturbed, no summary is lost between log_event, the flushes that run  *)
(* side by side (_flush_all) and the table, up to an orderly stop.          *)
THEOREM NothingLost == Spec => []NoneLost
<1>1. TypeInv /\ (Undisturbed => LogInv) => NoneLost
  <2> SUFFICES ASSUME TypeInv, LogInv, NEW r \in Requests, Reported(r)
               PROVE  Recorded(r)
    BY DEF NoneLost
  <2>1. Kept(r)
    BY DEF LogInv
  <2>2. CASE Whole(r, buffer)
    <3>1. First(r, buffer) # 0
      BY <2>2, FirstIs DEF Whole, TypeInv, TypeOK
    <3> QED BY <3>1 DEF Recorded
  <2>3. ASSUME NEW f \in Flushers, Whole(r, batch[f])
        PROVE  First(r, batch[f]) # 0
    <3>1. batch[f] \in Seq(Summary)
      BY DEF TypeInv, TypeOK
    <3> QED BY <2>3, <3>1, FirstIs DEF Whole
  <2> QED BY <2>1, <2>2, <2>3 DEF Kept, Recorded
<1> QED BY <1>1, Logged, PTL

(* Undisturbed, the row of a request is the report that knows its client,   *)
(* start and attempts, although an error is reported twice and flushes      *)
(* overlap: on conflict the insert does nothing, and the better report      *)
(* comes first.                                                             *)
THEOREM RowsAreTrue == Spec => []RowsTrue
<1>1. (Undisturbed => LogInv) => RowsTrue
  BY DEF RowsTrue, LogInv, RowTrue
<1> QED BY <1>1, Logged, PTL
================================================================================
