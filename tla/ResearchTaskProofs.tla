------------------------- MODULE ResearchTaskProofs -------------------------
(***************************************************************************)
(* Proofs about ResearchTask, for every number of processes, requests,     *)
(* runs and operations: types, mutual exclusion of the workers, and that   *)
(* the rows and threads keep the promise of DurableTask.                   *)
(***************************************************************************)
EXTENDS ResearchTask, TLAPS

USE Assumptions DEF Runs, Op, Operations, SlowWindows

-----------------------------------------------------------------------------
(* Types.                                                                  *)

(* The records the actions start from have the types declared for them.    *)
LEMMA RecordTypes ==
  /\ Draft \in Row /\ NoRequest \in Request /\ NoRunner \in Runner
  /\ Terminal \subseteq State /\ Active \subseteq State
BY DEF Draft, Row, State, Ledger, NoLedger, NoRequest, Request, NoRunner, Runner,
       View, Terminal, Active, Expired

(* What TypeOK says of the fields the actions read.                        *)
LEMMA FieldTypes ==
  ASSUME TypeOK
  PROVE  /\ row \in Row /\ row.ledger \in Ledger
         /\ \A q \in Requests : /\ req[q] \in Request /\ req[q].snap \in Row
                               /\ req[q].snap.ledger \in Ledger
         /\ \A t \in Runs : /\ runner[t] \in Runner /\ runner[t].view \in View
                           /\ runner[t].view.ledger \in Ledger /\ runner[t].mine \subseteq Op
                           /\ Owned(t) \in Ledger
         /\ Fresh \in View
<1>1. row \in Row /\ req \in [Requests -> Request] /\ runner \in [Runs -> Runner]
  BY DEF TypeOK
<1>2. row.ledger \in Ledger /\ Fresh \in View
  BY <1>1 DEF Row, Fresh, View
<1>3. ASSUME NEW q \in Requests
      PROVE  req[q] \in Request /\ req[q].snap \in Row /\ req[q].snap.ledger \in Ledger
  BY <1>1 DEF Request, Row
<1>4. ASSUME NEW t \in Runs
      PROVE  /\ runner[t] \in Runner /\ runner[t].view \in View
             /\ runner[t].view.ledger \in Ledger /\ runner[t].mine \subseteq Op
  BY <1>1 DEF Runner, View
<1>5. ASSUME NEW t \in Runs
      PROVE  Owned(t) \in Ledger
  BY <1>4 DEF Owned, Ledger
<1> QED BY <1>1, <1>2, <1>3, <1>4, <1>5

LEMMA TypeInit == Init => TypeOK
<1> SUFFICES ASSUME Init PROVE TypeOK
  OBVIOUS
<1>1. stale \in BOOLEAN
  BY Zenon DEF Init
<1>2. /\ row \in Row /\ started \in 0 .. MaxRuns
      /\ server \in [Servers -> {"down", "up", "gone"}] /\ jobs \in [Servers -> 0 .. MaxRuns]
      /\ clock \in [Runs -> 0 .. 3] /\ req \in [Requests -> Request] /\ pc \in [Runs -> Pc]
      /\ srv \in [Runs -> Servers \cup {NoServer}] /\ event \in [Runs -> BOOLEAN]
      /\ runner \in [Runs -> Runner] /\ sent \subseteq Runs \X Nat /\ late \in [Runs -> Nat]
  BY RecordTypes DEF Init, Pc
<1> QED BY <1>1, <1>2, Zenon DEF TypeOK

LEMMA ResumeTypes ==
  ASSUME TypeOK, NEW q \in Requests, Resume(q)
  PROVE  TypeOK'
<1>0. /\ req \in [Requests -> Request] /\ jobs \in [Servers -> 0 .. MaxRuns]
      /\ NoRequest \in Request
      /\ row \in Row /\ row.ledger \in Ledger
      /\ req[q] \in Request /\ req[q].snap \in Row /\ req[q].snap.ledger \in Ledger
      /\ \A seen \in Seen(q) : seen \in Row /\ seen.ledger \in Ledger
  BY FieldTypes, RecordTypes DEF TypeOK, Seen
<1>1. CASE Refuse(q)
  <2>1. req' \in [Requests -> Request]
    BY <1>1, <1>0 DEF Refuse, Done
  <2> QED BY <1>1, <2>1 DEF Refuse, TypeOK, threads, history
<1>2. CASE Register(q)
  <2>1. jobs' \in [Servers -> 0 .. MaxRuns]
    <3>1. jobs' = [jobs EXCEPT ![req[q].srv] = req[q].run]
      BY <1>2 DEF Register
    <3> QED BY <1>0, <3>1 DEF Request
  <2>2. req' \in [Requests -> Request]
    BY <1>2, <1>0 DEF Register, Done
  <2>3. pc' \in [Runs -> Pc]
    BY <1>2, <1>0 DEF Register, TypeOK, Request, Pc
  <2>4. srv' \in [Runs -> Servers \cup {NoServer}]
    BY <1>2, <1>0 DEF Register, TypeOK, Request
  <2> QED BY <1>2, <2>1, <2>2, <2>3, <2>4 DEF Register, TypeOK, threads, history
<1>3. CASE RegisterFails(q)
  <2>1. row' \in Row
    BY <1>3, <1>0 DEF RegisterFails, Row, State, Terminal
  <2>2. jobs' \in [Servers -> 0 .. MaxRuns]
    <3> DEFINE u == req[q].srv
    <3>1. jobs' = [jobs EXCEPT ![u] = 0]
      BY <1>3 DEF RegisterFails
    <3>2. jobs \in [Servers -> 0 .. MaxRuns] /\ 0 \in 0 .. MaxRuns
      BY <1>0
    <3> HIDE DEF u
    <3> QED BY <3>1, <3>2
  <2>3. req' \in [Requests -> Request]
    BY <1>3, <1>0 DEF RegisterFails, Done
  <2> QED BY <1>3, <2>1, <2>2, <2>3 DEF RegisterFails, TypeOK, threads, history
<1>4. CASE CancelEvent(q)
  <2>1. req' \in [Requests -> Request]
    BY <1>4, <1>0 DEF CancelEvent, Done
  <2>2. event' \in [Runs -> BOOLEAN]
    BY <1>4, <1>0 DEF CancelEvent, TypeOK
  <2> QED BY <1>4, <2>1, <2>2 DEF CancelEvent, TypeOK, threads, history
<1> QED
  BY <1>1, <1>2, <1>3, <1>4 DEF Resume

LEMMA HandlerTypes ==
  ASSUME TypeOK, NEW q \in Requests, NEW s \in Servers, Handler(q, s)
  PROVE  TypeOK'
<1>0. /\ req \in [Requests -> Request] /\ jobs \in [Servers -> 0 .. MaxRuns]
      /\ NoRequest \in Request
      /\ row \in Row /\ row.ledger \in Ledger
      /\ req[q] \in Request /\ req[q].snap \in Row /\ req[q].snap.ledger \in Ledger
      /\ \A seen \in Seen(q) : seen \in Row /\ seen.ledger \in Ledger
  BY FieldTypes, RecordTypes DEF TypeOK, Seen
<1>1. ASSUME NEW op \in Operations, Load(q, s, op)
      PROVE  TypeOK'
  <2>1. req' \in [Requests -> Request]
    BY <1>1, <1>0 DEF Load, Request
  <2> QED BY <1>1, <2>1 DEF Load, TypeOK, threads, history
<1>2. CASE AdmitContinue(q, s)
  <2>1. req' \in [Requests -> Request]
    BY <1>2, <1>0 DEF AdmitContinue, Request
  <2> QED BY <1>2, <2>1 DEF AdmitContinue, TypeOK, threads, history
<1>3. ASSUME NEW op \in {"start", "continue"}, StartCommit(q, s, op)
      PROVE  TypeOK'
  <2>1. PICK seen \in Seen(q) :
          /\ started < MaxRuns
          /\ row' = [state |-> "planning", revision |-> row.revision + 1, cancel |-> FALSE,
                     started_at |-> started + 1,
                     ledger |-> NewLedger(started + 1, s, op, seen)]
          /\ started' = started + 1
          /\ req' = [req EXCEPT ![q] = [at |-> "committed", op |-> op, srv |-> s,
                                        snap |-> row', run |-> started + 1]]
    BY <1>3 DEF StartCommit
  <2>2. started + 1 \in 0 .. MaxRuns
    BY <2>1 DEF TypeOK
  <2>3. NewLedger(started + 1, s, op, seen) \in Ledger
    BY <1>0, <2>2 DEF NewLedger, Ledger
  <2>4. row' \in Row
    BY <1>0, <2>1, <2>2, <2>3 DEF Row, State, Active
  <2>5. req' \in [Requests -> Request]
    BY <1>0, <2>1, <2>2, <2>4 DEF Request
  <2> QED BY <1>3, <2>1, <2>2, <2>4, <2>5 DEF StartCommit, TypeOK, threads, history
<1>4. CASE CancelCommit(q, s)
  <2>1. row' \in Row
    BY <1>4, <1>0 DEF CancelCommit, Row, State, Terminal
  <2>2. req' \in [Requests -> Request]
    <3>1. req' = [req EXCEPT ![q].at = "cancelled", ![q].op = "cancel", ![q].srv = s]
      BY <1>4 DEF CancelCommit
    <3>2. [req[q] EXCEPT !.at = "cancelled", !.op = "cancel", !.srv = s] \in Request
      BY <1>0 DEF Request
    <3> QED BY <1>0, <3>1, <3>2
  <2> QED BY <1>4, <2>1, <2>2 DEF CancelCommit, TypeOK, threads, history
<1>5. CASE RecoverDecide(q, s)
  <2>1. req' \in [Requests -> Request]
    BY <1>5, <1>0 DEF RecoverDecide, Request
  <2> QED BY <1>5, <2>1 DEF RecoverDecide, TypeOK, threads, history
<1>6. CASE RecoverCommit(q, s)
  <2>1. row' \in Row
    BY <1>6, <1>0 DEF RecoverCommit, Row, State, Terminal
  <2>2. req' \in [Requests -> Request]
    BY <1>6, <1>0 DEF RecoverCommit, Done
  <2> QED BY <1>6, <2>1, <2>2 DEF RecoverCommit, TypeOK, threads, history
<1>7. CASE Reconcile(q, s)
  <2>1. row' \in Row
    BY <1>7, <1>0 DEF Reconcile, Row
  <2>2. req' \in [Requests -> Request]
    BY <1>7, <1>0 DEF Reconcile, Done
  <2> QED BY <1>7, <2>1, <2>2 DEF Reconcile, TypeOK, threads, history
<1>8. CASE Authorize(q, s)
  <2>1. row' \in Row
    <3>1. PICK seen \in Seen(q) : row' = [row EXCEPT !.revision = @ + 1, !.ledger = seen.ledger]
      BY <1>8 DEF Authorize
    <3>2. seen.ledger \in Ledger /\ row.revision + 1 \in Nat /\ row \in Row
      BY <1>0 DEF Row
    <3> DEFINE l == seen.ledger
               n == row.revision + 1
    <3>3. row' = [row EXCEPT !.revision = n, !.ledger = l]
      BY <3>1
    <3> HIDE DEF l, n
    <3> QED BY <3>2, <3>3 DEF Row, l, n
  <2>2. req' \in [Requests -> Request]
    BY <1>8, <1>0 DEF Authorize, Done
  <2> QED BY <1>8, <2>1, <2>2 DEF Authorize, TypeOK, threads, history
<1> QED
  BY <1>1, <1>2, <1>3, <1>4, <1>5, <1>6, <1>7, <1>8 DEF Handler

LEMMA WorkerTypes ==
  ASSUME TypeOK, NEW t \in Runs, Worker(t)
  PROVE  TypeOK'
<1>0. /\ row \in Row /\ row.ledger \in Ledger /\ row.ledger.alloc \subseteq Op
      /\ runner \in [Runs -> Runner] /\ runner[t] \in Runner /\ runner[t].view \in View
      /\ runner[t].view.ledger \in Ledger /\ Owned(t) \in Ledger /\ Fresh \in View
      /\ runner[t].mine \subseteq Op
      /\ NoRunner \in Runner /\ pc \in [Runs -> Pc]
  BY FieldTypes, RecordTypes DEF TypeOK, Ledger
<1>1. /\ StopState(t) \in Terminal
      /\ \A state \in Terminal : Outcome(t, state) \in Terminal
  BY <1>0 DEF StopState, Outcome, Terminal, Runner
<1>2. CASE Claim(t)
  <2>1. row' \in Row
    <3>1. row' = row \/ row' = [row EXCEPT !.state = "researching", !.revision = @ + 1]
      BY <1>2 DEF Claim
    <3>2. row \in Row /\ row.revision + 1 \in Nat /\ "researching" \in State
      BY <1>0 DEF Row, State, Active
    <3> QED BY <3>1, <3>2 DEF Row
  <2>2. pc' \in [Runs -> Pc]
    BY <1>2, <1>0 DEF Claim, Goto, Pc, Executing
  <2> QED BY <1>2, <2>1, <2>2 DEF Claim, TypeOK, frame, history
<1>3. CASE Begin(t)
  <2>1. runner' \in [Runs -> Runner]
    <3>1. row.ledger.run \in 0 .. MaxRuns /\ row.revision \in Nat \cup {Expired}
      BY <1>0 DEF Row, Ledger
    <3>2. runner' = [runner EXCEPT ![t].view = Fresh, ![t].rid = row.ledger.run,
                                   ![t].rev = row.revision, ![t].mine = row.ledger.alloc]
      BY <1>3 DEF Begin
    <3>3. [runner[t] EXCEPT !.view = Fresh, !.rid = row.ledger.run,
                            !.rev = row.revision, !.mine = row.ledger.alloc] \in Runner
      BY <1>0, <3>1 DEF Runner
    <3> QED BY <1>0, <3>2, <3>3
  <2>2. pc' \in [Runs -> Pc]
    BY <1>3, <1>0 DEF Begin, Goto, Pc, Executing
  <2> QED BY <1>3, <2>1, <2>2 DEF Begin, TypeOK, frame, history
<1>4. CASE FirstCheck(t)
  <2>1. runner' \in [Runs -> Runner]
    <3>1. \/ runner' = [runner EXCEPT ![t].view = Fresh]
          \/ \E stop \in Terminal : runner' = [runner EXCEPT ![t].view = Fresh, ![t].term = stop]
      BY <1>4, <1>1 DEF FirstCheck, Terminal
    <3>2. CASE runner' = [runner EXCEPT ![t].view = Fresh]
      BY <1>0, <3>2 DEF Runner
    <3>3. ASSUME NEW stop \in Terminal,
                 runner' = [runner EXCEPT ![t].view = Fresh, ![t].term = stop]
          PROVE  runner' \in [Runs -> Runner]
      BY <1>0, <3>3 DEF Runner
    <3> QED BY <3>1, <3>2, <3>3
  <2>2. pc' \in [Runs -> Pc]
    BY <1>4, <1>0 DEF FirstCheck, Goto, Pc, Executing
  <2> QED BY <1>4, <2>1, <2>2 DEF FirstCheck, TypeOK, frame, history
<1>5. CASE Check(t)
  <2>1. runner' \in [Runs -> Runner]
    <3>1. \/ runner' = [runner EXCEPT ![t].view = Fresh]
          \/ runner' = [runner EXCEPT ![t].view = Fresh, ![t].term = Outcome(t, StopState(t))]
          \/ runner' = [runner EXCEPT ![t].view = Fresh, ![t].hand = TRUE,
                                      ![t].term = "limit_reached_partial"]
      BY <1>5 DEF Check
    <3>2. "limit_reached_partial" \in Terminal
      BY DEF Terminal
    <3>3. CASE runner' = [runner EXCEPT ![t].view = Fresh]
      BY <1>0, <3>3 DEF Runner
    <3>4. CASE runner' = [runner EXCEPT ![t].view = Fresh,
                                        ![t].term = Outcome(t, StopState(t))]
      BY <1>0, <1>1, <3>4 DEF Runner
    <3>5. CASE runner' = [runner EXCEPT ![t].view = Fresh, ![t].hand = TRUE,
                                        ![t].term = "limit_reached_partial"]
      BY <1>0, <3>2, <3>5 DEF Runner
    <3> QED BY <3>1, <3>3, <3>4, <3>5
  <2>2. pc' \in [Runs -> Pc]
    BY <1>5, <1>0 DEF Check, Goto, Pc, Executing
  <2> QED BY <1>5, <2>1, <2>2 DEF Check, TypeOK, frame, history
<1>6. CASE Integrate(t)
  <2>1. row' \in Row
    BY <1>6, <1>0, <1>1 DEF Integrate, Row, State, Active
  <2>2. runner' \in [Runs -> Runner]
    BY <1>6, <1>0, <1>1 DEF Integrate, Runner, View, State, Active
  <2>3. pc' \in [Runs -> Pc]
    BY <1>6, <1>0 DEF Integrate, Goto, Pc, Executing
  <2> QED BY <1>6, <2>1, <2>2, <2>3 DEF Integrate, TypeOK, frame, history
<1>7. CASE Spawn(t)
  <2>1. row' \in Row
    BY <1>7, <1>0, <1>1 DEF Spawn, Row
  <2>2. pc' \in [Runs -> Pc]
    BY <1>7, <1>0 DEF Spawn, Goto, Pc, Executing
  <2> QED BY <1>7, <2>1, <2>2 DEF Spawn, TypeOK, frame, history
<1>8. CASE Allocate(t)
  <2> DEFINE k == runner[t].used + 1
             l == [Owned(t) EXCEPT !.alloc = @ \cup {<<t, k>>}]
  <2>0. l \in Ledger /\ l.alloc \subseteq Op /\ k \in 0 .. MaxOps
    <3>1. k \in 1 .. MaxOps
      BY <1>0, <1>8 DEF Allocate, Runner
    <3>2. <<t, k>> \in Op
      BY <3>1
    <3> DEFINE op == <<t, k>>
    <3>3. op \in Op /\ k \in 0 .. MaxOps
      BY <3>1, <3>2
    <3>4. Owned(t).alloc \cup {op} \subseteq Op
      BY <1>0, <3>2 DEF Ledger
    <3> HIDE DEF k, op
    <3> QED BY <1>0, <3>3, <3>4 DEF Ledger, op
  <2>1. row' \in Row
    <3>1. \/ row' = row
          \/ row' = [row EXCEPT !.revision = @ + 1, !.ledger = l]
      BY <1>8 DEF Allocate
    <3>2. row.revision + 1 \in Nat
      BY <1>0 DEF Row
    <3> HIDE DEF l
    <3> QED BY <1>0, <2>0, <3>1, <3>2 DEF Row
  <2>2. runner' \in [Runs -> Runner]
    <3>1. \/ runner' = [runner EXCEPT
                ![t].view.ledger = l, ![t].mine = l.alloc, ![t].used = k, ![t].rev = Expired,
                ![t].phase = IF @ = "integrate" THEN "synthesis" ELSE @]
          \/ runner' = [runner EXCEPT ![t].term = Outcome(t, "failed_partial")]
      BY <1>8 DEF Allocate
    <3>2. "failed_partial" \in Terminal
      BY DEF Terminal
    <3>3. CASE runner' = [runner EXCEPT ![t].term = Outcome(t, "failed_partial")]
      BY <1>0, <1>1, <3>2, <3>3 DEF Runner
    <3>4. CASE runner' = [runner EXCEPT
                ![t].view.ledger = l, ![t].mine = l.alloc, ![t].used = k, ![t].rev = Expired,
                ![t].phase = IF @ = "integrate" THEN "synthesis" ELSE @]
      <4> HIDE DEF k, l
      <4> QED BY <1>0, <2>0, <3>4, ZenonT(60) DEF Runner, View, Expired
    <3> QED BY <3>1, <3>3, <3>4
  <2>3. pc' \in [Runs -> Pc]
    BY <1>8, <1>0 DEF Allocate, Goto, Pc, Executing
  <2> QED BY <1>8, <2>1, <2>2, <2>3 DEF Allocate, TypeOK, frame, history
<1>9. CASE Send(t)
  <2>1. row' \in Row
    BY <1>9, <1>0, <1>1 DEF Send, Row
  <2>2. runner' \in [Runs -> Runner]
    BY <1>9, <1>0, <1>1 DEF Send, Runner, View
  <2>3. sent' \subseteq Runs \X Nat
    <3>1. sent' = sent \cup {<<t, runner[t].used>>}
      BY <1>9 DEF Send
    <3>2. runner[t].used \in Nat
      BY <1>0 DEF Runner
    <3> QED BY <3>1, <3>2 DEF TypeOK
  <2>4. late' \in [Runs -> Nat]
    BY <1>9 DEF Send, TypeOK
  <2>5. pc' \in [Runs -> Pc]
    BY <1>9, <1>0 DEF Send, Goto, Pc, Executing
  <2> QED BY <1>9, <2>1, <2>2, <2>3, <2>4, <2>5 DEF Send, TypeOK, frame, history
<1>10. CASE Poll(t)
  <2>1. runner' \in [Runs -> Runner]
    <3> DEFINE v == [runner[t].view EXCEPT !.state = row.state, !.ledger = row.ledger]
    <3>1. v \in View
      BY <1>0 DEF View, Row
    <3>2. \/ runner' = [runner EXCEPT ![t].view = v]
          \/ runner' = [runner EXCEPT ![t].view = v,
                                      ![t].term = Outcome(t, "interrupted_partial")]
      BY <1>10 DEF Poll
    <3>3. "interrupted_partial" \in Terminal
      BY DEF Terminal
    <3> HIDE DEF v
    <3>4. CASE runner' = [runner EXCEPT ![t].view = v]
      BY <1>0, <3>1, <3>4 DEF Runner
    <3>5. CASE runner' = [runner EXCEPT ![t].view = v,
                                        ![t].term = Outcome(t, "interrupted_partial")]
      BY <1>0, <1>1, <3>1, <3>3, <3>5 DEF Runner
    <3> QED BY <3>2, <3>4, <3>5
  <2>2. pc' \in [Runs -> Pc]
    BY <1>10, <1>0 DEF Poll, Goto, Pc, Executing
  <2> QED BY <1>10, <2>1, <2>2 DEF Poll, TypeOK, frame, history
<1>11. CASE Drain(t)
  <2>1. runner' \in [Runs -> Runner]
    BY <1>11, <1>0, <1>1, ZenonT(60) DEF Drain, Runner, View, Row
  <2>2. pc' \in [Runs -> Pc]
    BY <1>11, <1>0 DEF Drain, Goto, Pc, Executing
  <2> QED BY <1>11, <2>1, <2>2 DEF Drain, TypeOK, frame, history
<1>12. CASE Accept(t)
  <2>1. row' \in Row
    BY <1>12, <1>0, <1>1 DEF Accept, Row
  <2>2. runner' \in [Runs -> Runner]
    BY <1>12, <1>0, <1>1 DEF Accept, Runner, View
  <2>3. pc' \in [Runs -> Pc]
    BY <1>12, <1>0 DEF Accept, Goto, Pc, Executing
  <2> QED BY <1>12, <2>1, <2>2, <2>3 DEF Accept, TypeOK, frame, history
<1>13. CASE Complete(t)
  <2>1. runner' \in [Runs -> Runner]
    <3>1. \E state \in {"completed", "failed_partial"} :
            runner' = [runner EXCEPT ![t].term = Outcome(t, state)]
      BY <1>13 DEF Complete
    <3>2. PICK st \in Terminal : runner' = [runner EXCEPT ![t].term = st]
      BY <1>1, <3>1 DEF Terminal
    <3> QED BY <1>0, <3>2 DEF Runner
  <2>2. pc' \in [Runs -> Pc]
    BY <1>13, <1>0 DEF Complete, Goto, Pc, Executing
  <2> QED BY <1>13, <2>1, <2>2 DEF Complete, TypeOK, frame, history
<1>14. CASE Limit(t)
  <2>1. runner' \in [Runs -> Runner]
    <3>1. \/ runner' = [runner EXCEPT ![t].hand = TRUE, ![t].term = "limit_reached_partial"]
          \/ runner' = [runner EXCEPT ![t].term = Outcome(t, "limit_reached_partial")]
      BY <1>14 DEF Limit
    <3>2. "limit_reached_partial" \in Terminal
      BY DEF Terminal
    <3>3. CASE runner' = [runner EXCEPT ![t].hand = TRUE, ![t].term = "limit_reached_partial"]
      BY <1>0, <3>2, <3>3 DEF Runner
    <3>4. CASE runner' = [runner EXCEPT ![t].term = Outcome(t, "limit_reached_partial")]
      BY <1>0, <1>1, <3>2, <3>4 DEF Runner
    <3> QED BY <3>1, <3>3, <3>4
  <2>2. pc' \in [Runs -> Pc]
    BY <1>14, <1>0 DEF Limit, Goto, Pc, Executing
  <2> QED BY <1>14, <2>1, <2>2 DEF Limit, TypeOK, frame, history
<1>15. CASE Fail(t)
  <2>1. runner' \in [Runs -> Runner]
    BY <1>15, <1>0, <1>1 DEF Fail, Runner, Terminal
  <2>2. pc' \in [Runs -> Pc]
    BY <1>15, <1>0 DEF Fail, Goto, Pc, Executing
  <2> QED BY <1>15, <2>1, <2>2 DEF Fail, TypeOK, frame, history
<1>16. CASE Unexpected(t)
  <2>1. runner' \in [Runs -> Runner]
    BY <1>16, <1>0, <1>1, ZenonT(60) DEF Unexpected, Runner, Terminal
  <2>2. pc' \in [Runs -> Pc]
    BY <1>16, <1>0 DEF Unexpected, Goto, Pc, Executing
  <2> QED BY <1>16, <2>1, <2>2 DEF Unexpected, TypeOK, frame, history
<1>17. CASE Close(t)
  <2>1. row' \in Row
    BY <1>17, <1>0, <1>1 DEF Close, Row
  <2>2. pc' \in [Runs -> Pc]
    BY <1>17, <1>0 DEF Close, Goto, Pc, Executing
  <2> QED BY <1>17, <2>1, <2>2 DEF Close, TypeOK, frame, history
<1>18. CASE Abandon(t)
  <2>1. pc' \in [Runs -> Pc]
    BY <1>18, <1>0 DEF Abandon, Goto, Pc, Executing
  <2> QED BY <1>18, <2>1 DEF Abandon, TypeOK, frame, history
<1>19. CASE Finish(t)
  <2>1. row' \in Row
    <3>1. \/ row' = row
          \/ \E state \in {row.state, runner[t].term} :
               row' = [row EXCEPT !.ledger = Owned(t), !.state = state]
      BY <1>19 DEF Finish
    <3>2. row.state \in State /\ runner[t].term \in State
      BY <1>0, RecordTypes DEF Row, Runner
    <3> QED BY <1>0, <3>1, <3>2 DEF Row
  <2>2. pc' \in [Runs -> Pc]
    BY <1>19, <1>0 DEF Finish, Goto, Pc, Executing
  <2> QED BY <1>19, <2>1, <2>2 DEF Finish, TypeOK, frame, history
<1>20. CASE Exit(t)
  <2>1. runner' \in [Runs -> Runner]
    BY <1>20, <1>0, <1>1 DEF Exit
  <2>2. jobs' \in [Servers -> 0 .. MaxRuns]
    <3>1. jobs' = [jobs EXCEPT ![srv[t]] = 0]
      BY <1>20 DEF Exit
    <3>2. jobs \in [Servers -> 0 .. MaxRuns] /\ 0 \in 0 .. MaxRuns
      BY DEF TypeOK
    <3> QED BY <3>1, <3>2
  <2>3. event' \in [Runs -> BOOLEAN]
    BY <1>20 DEF Exit, TypeOK
  <2>4. pc' \in [Runs -> Pc]
    BY <1>20, <1>0 DEF Exit, Goto, Pc, Executing
  <2> QED BY <1>20, <2>1, <2>2, <2>3, <2>4 DEF Exit, TypeOK, frame, history
<1> QED
  BY <1>2, <1>3, <1>4, <1>5, <1>6, <1>7, <1>8, <1>9, <1>10, <1>11, <1>12, <1>13, <1>14, <1>15, <1>16, <1>17, <1>18, <1>19, <1>20
  DEF Worker

LEMMA TypeStep == TypeOK /\ [Next]_vars => TypeOK'
<1> SUFFICES ASSUME TypeOK, [Next]_vars
             PROVE  TypeOK'
  OBVIOUS
<1>1. CASE UNCHANGED vars
  BY <1>1 DEF vars, threads, history, TypeOK
<1>2. ASSUME NEW s \in Servers, Boot(s) \/ Crash(s) \/ Shutdown(s)
      PROVE  TypeOK'
  <2>1. CASE Boot(s)
    BY <2>1 DEF Boot, TypeOK, threads, history
  <2>2. CASE Crash(s)
    BY <2>2, RecordTypes DEF Crash, Pc, TypeOK, threads, history
  <2>3. CASE Shutdown(s)
    BY <2>3 DEF Shutdown, TypeOK, threads, history
  <2> QED BY <1>2, <2>1, <2>2, <2>3
<1>3. ASSUME NEW r \in Runs, Tick(r)
      PROVE  TypeOK'
  <2>1. clock \in [Runs -> 0 .. 3]
    BY DEF TypeOK
  <2>2. clock' = [clock EXCEPT ![r] = @ + 1] /\ clock[r] < 3
    BY <1>3 DEF Tick
  <2>3. clock' \in [Runs -> 0 .. 3]
    BY <2>1, <2>2
  <2> QED BY <1>3, <2>3 DEF Tick, TypeOK, threads, history
<1>4. ASSUME NEW q \in Requests, Resume(q) \/ \E s \in Servers : Handler(q, s)
      PROVE  TypeOK'
  <2>1. CASE Resume(q)
    BY <2>1, ResumeTypes
  <2>2. CASE \E s \in Servers : Handler(q, s)
    BY <2>2, HandlerTypes
  <2> QED BY <1>4, <2>1, <2>2
<1>5. ASSUME NEW t \in Runs, Worker(t)
      PROVE  TypeOK'
  BY <1>5, WorkerTypes
<1> QED BY <1>1, <1>2, <1>3, <1>4, <1>5 DEF Next

(* Every variable keeps its type, in every instance.                       *)
THEOREM TypesHold == Spec => []TypeOK
BY TypeInit, TypeStep, PTL DEF Spec

-----------------------------------------------------------------------------
(* Mutual exclusion.                                                       *)

(* What an executing thread t knows: the task is active, it is the only    *)
(* thread, and its session's copy of the ledger is the row's.              *)
LEMMA Holder ==
  ASSUME TypeOK, Exclusive, NEW t \in Runs, pc[t] \in Held \ {"exit"}
  PROVE  /\ row.state \in Active /\ row.ledger.run = t
         /\ \A u \in Runs : pc[u] \in Held => u = t
         /\ \A q \in Requests : req[q].at # "committed"
         /\ runner[t].rid # 0 => /\ runner[t].rid = t /\ Owned(t) = row.ledger
                                 /\ runner[t].view.ledger = row.ledger
                                 /\ runner[t].mine = row.ledger.alloc
<1>1. row.state \in Active /\ row.ledger.run = t
  BY DEF Exclusive, ThreadsOwn
<1>2. srv[t] \in Servers /\ server[srv[t]] = "up" /\ jobs[srv[t]] = t
  BY DEF Exclusive, ThreadsInJobs
<1>3. ASSUME NEW u \in Runs, pc[u] \in Held
      PROVE  u = t
  BY <1>2, <1>3 DEF Exclusive, ThreadsInJobs, OneProcess
<1>4. ASSUME NEW q \in Requests, req[q].at = "committed"
      PROVE  FALSE
  <2>1. jobs[req[q].srv] = 0
    BY <1>4 DEF Exclusive, StartsAlone
  <2>2. req[q].srv = srv[t]
    BY <1>2, <1>4 DEF Exclusive, RequestsServed, OneProcess
  <2> QED BY <1>2, <2>1, <2>2
<1>5. ASSUME runner[t].rid # 0
      PROVE  /\ runner[t].rid = t /\ Owned(t) = row.ledger
             /\ runner[t].view.ledger = row.ledger /\ runner[t].mine = row.ledger.alloc
  <2>1. /\ runner[t].rid = t /\ runner[t].view.ledger = row.ledger
        /\ runner[t].mine = row.ledger.alloc
    BY <1>1, <1>5 DEF Exclusive, RunnersCurrent
  <2>2. row.ledger \in Ledger
    BY FieldTypes
  <2> QED BY <2>1, <2>2 DEF Owned, Ledger
<1> QED BY <1>1, <1>3, <1>4, <1>5

(* What every step of thread t but its last one preserves.                 *)
KeepsRow(t) ==
  /\ row'.revision \in {row.revision, row.revision + 1} /\ row'.ledger.run = row.ledger.run
  /\ row'.state # "draft"
  /\ pc'[t] # "exit" => row'.state \in Active

KeepsRunner(t) ==
  /\ runner'[t].rid # 0 => /\ runner'[t].rid = row'.ledger.run
                           /\ runner'[t].view.ledger = row'.ledger
                           /\ runner'[t].mine = row'.ledger.alloc
  /\ pc'[t] \in Executing \ {"claimed"} => runner'[t].rid # 0
  /\ pc'[t] = "allocated" => <<t, runner'[t].used>> \in row'.ledger.alloc

KeepsRest(t) ==
  /\ \A u \in Runs \ {t} : pc'[u] = pc[u] /\ runner'[u] = runner[u]
  /\ pc'[t] \in Held
  /\ UNCHANGED <<started, server, jobs, clock, req, srv>>

LEMMA KeepsExclusive ==
  ASSUME TypeOK, Exclusive, NEW t \in Runs, pc[t] \in Held \ {"exit"},
         KeepsRow(t), KeepsRunner(t), KeepsRest(t)
  PROVE  Exclusive'
<1>1. /\ row.state \in Active /\ row.ledger.run = t
      /\ \A u \in Runs : pc[u] \in Held => u = t
      /\ \A q \in Requests : req[q].at # "committed"
  BY Holder
<1>2. \A u \in Runs : pc'[u] \in Held => u = t
  BY <1>1 DEF KeepsRest
<1>3. OneProcess' /\ ClocksFresh' /\ RequestsServed'
  BY DEF Exclusive, OneProcess, ClocksFresh, RequestsServed, KeepsRest
<1>4. ThreadsInJobs'
  BY <1>2 DEF Exclusive, ThreadsInJobs, KeepsRest
<1>5. ThreadsOwn'
  BY <1>1, <1>2 DEF ThreadsOwn, KeepsRow, Held
<1>6. RunnersCurrent'
  BY <1>1, <1>2 DEF Exclusive, RunnersCurrent, KeepsRunner, KeepsRest
<1>7. RunnersBegun'
  BY <1>2 DEF RunnersBegun, KeepsRunner, Held, Executing
<1>8. DraftIsFresh' /\ StartsAlone'
  BY <1>1 DEF DraftIsFresh, StartsAlone, KeepsRow, KeepsRest
<1>9. SnapshotsAge'
  <2> SUFFICES ASSUME NEW q \in Requests, req[q].at \in {"loaded", "admitted", "decided"}
               PROVE  /\ req[q].op \in Slow /\ Concerns(req[q].op, req[q].snap.state)
                      /\ req[q].at = "admitted" => req[q].op = "continue"
                      /\ req[q].at = "decided" => req[q].op = "recover" /\ req[q].run = 0
                      /\ req[q].snap.revision <= row'.revision
                      /\ ~(req[q].snap.state \in Terminal /\ req[q].snap.revision = row'.revision)
    BY DEF SnapshotsAge, KeepsRest
  <2>1. /\ req[q].op \in Slow /\ Concerns(req[q].op, req[q].snap.state)
        /\ req[q].at = "admitted" => req[q].op = "continue"
        /\ req[q].at = "decided" => req[q].op = "recover" /\ req[q].run = 0
        /\ req[q].snap.revision <= row.revision
        /\ req[q].snap.state \in Terminal /\ req[q].snap.revision = row.revision
             => row.state = req[q].snap.state
    BY DEF Exclusive, SnapshotsAge
  <2>2. req[q].snap.state \in Terminal => req[q].snap.state \notin Active
    BY DEF Active, Terminal
  <2>3. /\ req[q].snap.revision \in Int /\ row.revision \in Int
        /\ row'.revision \in {row.revision, row.revision + 1}
    BY FieldTypes DEF Row, KeepsRow
  <2> QED BY <1>1, <2>1, <2>2, <2>3
<1> QED BY <1>3, <1>4, <1>5, <1>6, <1>7, <1>8, <1>9 DEF Exclusive

LEMMA WorkerKeeps ==
  ASSUME TypeOK, Exclusive, NEW t \in Runs, Worker(t), ~Exit(t)
  PROVE  /\ pc[t] \in Held \ {"exit"}
         /\ KeepsRow(t) /\ KeepsRunner(t) /\ KeepsRest(t)
<1>0. /\ row \in Row /\ row.revision \in Nat /\ row.ledger \in Ledger /\ pc \in [Runs -> Pc]
      /\ runner \in [Runs -> Runner] /\ runner[t] \in Runner /\ runner[t].view \in View
      /\ runner[t].term \in Terminal
  BY FieldTypes DEF TypeOK, Row, Runner
<1>1. ASSUME pc[t] \in Held \ {"exit"}
      PROVE  /\ row.state \in Active /\ row.ledger.run = t /\ row.state # "draft"
             /\ runner[t].rid # 0 => /\ Owned(t) = row.ledger /\ runner[t].rid = row.ledger.run
                                     /\ runner[t].view.ledger = row.ledger
                                     /\ runner[t].mine = row.ledger.alloc
             /\ pc[t] \in Executing \ {"claimed"} => runner[t].rid # 0
             /\ pc[t] = "allocated" => <<t, runner[t].used>> \in row.ledger.alloc
  BY <1>1, Holder DEF Active, Exclusive, RunnersBegun
<1>2. CASE Claim(t)
  <2>1. pc[t] \in Held \ {"exit"}
    BY <1>2 DEF Claim, Held, Executing
  <2>2. KeepsRow(t)
    <3>1. row' = row \/ row' = [row EXCEPT !.state = "researching", !.revision = @ + 1]
      BY <1>2 DEF Claim
    <3>2. row' = row => KeepsRow(t)
      BY <1>0, <1>1, <2>1 DEF KeepsRow
    <3>3. CASE row' = [row EXCEPT !.state = "researching", !.revision = @ + 1]
      <4>1. /\ row'.revision = row.revision + 1 /\ row'.ledger = row.ledger
            /\ row'.state = "researching"
        BY <1>0, <3>3 DEF Row
      <4> QED BY <4>1 DEF KeepsRow, Active
    <3> QED BY <3>1, <3>2, <3>3
  <2>3. KeepsRunner(t)
    <3>1. /\ row'.ledger = row.ledger /\ runner' = runner
          /\ pc'[t] \in {"claimed", "exit"}
      BY <1>0, <1>2 DEF Claim, Row, Goto
    <3> QED BY <1>1, <2>1, <3>1 DEF KeepsRunner, Executing
  <2>4. KeepsRest(t)
    BY <1>0, <1>2 DEF Claim, KeepsRest, Goto, frame, Held, Executing
  <2> QED BY <2>1, <2>2, <2>3, <2>4
<1>3. CASE Begin(t)
  <2>1. pc[t] \in Held \ {"exit"}
    BY <1>3 DEF Begin, Held, Executing
  <2>2. KeepsRow(t)
    BY <1>0, <1>1, <1>3, <2>1 DEF Begin, KeepsRow, Goto
  <2>3. KeepsRunner(t)
    BY <1>0, <1>1, <1>3, <2>1 DEF Begin, KeepsRunner, Goto, Executing, Runner, Fresh, View
  <2>4. KeepsRest(t)
    BY <1>0, <1>3 DEF Begin, KeepsRest, Goto, frame, Held, Executing
  <2> QED BY <2>1, <2>2, <2>3, <2>4
<1>4. CASE FirstCheck(t)
  <2>1. pc[t] \in Held \ {"exit"}
    BY <1>4 DEF FirstCheck, Held, Executing
  <2>2. KeepsRow(t)
    BY <1>0, <1>1, <1>4, <2>1 DEF FirstCheck, KeepsRow, Goto
  <2>3. KeepsRunner(t)
    BY <1>0, <1>1, <1>4, <2>1 DEF FirstCheck, KeepsRunner, Goto, Executing, Runner, Fresh, View
  <2>4. KeepsRest(t)
    BY <1>0, <1>4 DEF FirstCheck, KeepsRest, Goto, frame, Held, Executing
  <2> QED BY <2>1, <2>2, <2>3, <2>4
<1>5. CASE Check(t)
  <2>1. pc[t] \in Held \ {"exit"}
    BY <1>5 DEF Check, Held, Executing
  <2>2. KeepsRow(t)
    BY <1>0, <1>1, <1>5, <2>1 DEF Check, KeepsRow, Goto
  <2>3. KeepsRunner(t)
    BY <1>0, <1>1, <1>5, <2>1 DEF Check, KeepsRunner, Goto, Executing, Runner, Fresh, View
  <2>4. KeepsRest(t)
    BY <1>0, <1>5 DEF Check, KeepsRest, Goto, frame, Held, Executing
  <2> QED BY <2>1, <2>2, <2>3, <2>4
<1>6. CASE Integrate(t)
  <2>1. pc[t] \in Held \ {"exit"}
    BY <1>6 DEF Integrate, Held, Executing
  <2>2. KeepsRow(t)
    BY <1>0, <1>1, <1>6, <2>1 DEF Integrate, KeepsRow, Goto, Row, Active, Executing
  <2>3. KeepsRunner(t)
    BY <1>0, <1>1, <1>6, <2>1 DEF Integrate, KeepsRunner, Goto, Executing, Runner, Row, Fresh, View
  <2>4. KeepsRest(t)
    BY <1>0, <1>6 DEF Integrate, KeepsRest, Goto, frame, Held, Executing
  <2> QED BY <2>1, <2>2, <2>3, <2>4
<1>7. CASE Spawn(t)
  <2>1. pc[t] \in Held \ {"exit"}
    BY <1>7 DEF Spawn, Held, Executing
  <2>2. KeepsRow(t)
    BY <1>0, <1>1, <1>7, <2>1 DEF Spawn, KeepsRow, Goto, Row, Active, Executing
  <2>3. KeepsRunner(t)
    BY <1>0, <1>1, <1>7, <2>1 DEF Spawn, KeepsRunner, Goto, Executing, Runner, Row, Fresh, View
  <2>4. KeepsRest(t)
    BY <1>0, <1>7 DEF Spawn, KeepsRest, Goto, frame, Held, Executing
  <2> QED BY <2>1, <2>2, <2>3, <2>4
<1>8. CASE Allocate(t)
  <2>1. pc[t] \in Held \ {"exit"} /\ pc[t] \in Executing \ {"claimed"}
    BY <1>8 DEF Allocate, Held, Executing
  <2> DEFINE k == runner[t].used + 1
             l == [Owned(t) EXCEPT !.alloc = @ \cup {<<t, k>>}]
  <2>2. ASSUME row' = row, pc' = [pc EXCEPT ![t] = "drain"],
               runner' = [runner EXCEPT ![t].term = Outcome(t, "failed_partial")]
        PROVE  KeepsRow(t) /\ KeepsRunner(t)
    <3>1. /\ runner'[t].rid = runner[t].rid /\ runner'[t].mine = runner[t].mine
          /\ runner'[t].view = runner[t].view /\ pc'[t] = "drain"
      BY <1>0, <2>2 DEF Runner
    <3>2. KeepsRow(t)
      <4>1. row' = row
        BY <2>2
      <4> QED BY <1>1, <2>1, <4>1 DEF KeepsRow
    <3> QED BY <1>1, <2>1, <2>2, <3>1, <3>2 DEF KeepsRunner
  <2>3. ASSUME row' = [row EXCEPT !.revision = @ + 1, !.ledger = l],
               runner' = [runner EXCEPT
                 ![t].view.ledger = l, ![t].mine = l.alloc, ![t].used = k, ![t].rev = Expired,
                 ![t].phase = IF @ = "integrate" THEN "synthesis" ELSE @],
               pc' = [pc EXCEPT ![t] = "allocated"]
        PROVE  KeepsRow(t) /\ KeepsRunner(t)
    <3>1. l.run = row.ledger.run /\ <<t, k>> \in l.alloc
      <4>1. Owned(t) = row.ledger
        BY <1>1, <2>1
      <4> QED BY <1>0, <4>1 DEF Ledger
    <3> HIDE DEF l
    <3>2. /\ row'.revision = row.revision + 1 /\ row'.ledger = l /\ row'.state = row.state
          /\ runner'[t].rid = runner[t].rid /\ runner'[t].mine = l.alloc
          /\ runner'[t].view.ledger = l /\ runner'[t].used = k /\ pc'[t] = "allocated"
      BY <1>0, <2>3 DEF Row, Runner, View
    <3>3. KeepsRow(t)
      <4>1. row.state \in Active /\ row.state # "draft"
        BY <1>1, <2>1
      <4> QED BY <3>1, <3>2, <4>1 DEF KeepsRow
    <3> QED BY <1>1, <2>1, <3>1, <3>2, <3>3 DEF KeepsRunner
  <2>4. KeepsRow(t) /\ KeepsRunner(t)
    BY <1>8, <2>2, <2>3 DEF Allocate, Goto
  <2>5. KeepsRest(t)
    BY <1>0, <1>8 DEF Allocate, KeepsRest, Goto, frame, Held, Executing
  <2> QED BY <2>1, <2>4, <2>5
<1>9. CASE Send(t)
  <2>1. pc[t] \in Held \ {"exit"}
    BY <1>9 DEF Send, Held, Executing
  <2>2. KeepsRow(t)
    BY <1>0, <1>1, <1>9, <2>1 DEF Send, KeepsRow, Goto, Row, Active, Executing
  <2>3. KeepsRunner(t)
    BY <1>0, <1>1, <1>9, <2>1 DEF Send, KeepsRunner, Goto, Executing, Runner, Row, Fresh, View
  <2>4. KeepsRest(t)
    BY <1>0, <1>9 DEF Send, KeepsRest, Goto, frame, Held, Executing
  <2> QED BY <2>1, <2>2, <2>3, <2>4
<1>10. CASE Poll(t)
  <2>1. pc[t] \in Held \ {"exit"}
    BY <1>10 DEF Poll, Held, Executing
  <2>2. KeepsRow(t)
    BY <1>0, <1>1, <1>10, <2>1 DEF Poll, KeepsRow, Goto
  <2>3. KeepsRunner(t)
    <3> DEFINE v == [runner[t].view EXCEPT !.state = row.state, !.ledger = row.ledger]
    <3>1. v.ledger = row.ledger
      BY <1>0 DEF View
    <3>2. /\ \/ runner' = [runner EXCEPT ![t].view = v]
             \/ runner' = [runner EXCEPT ![t].view = v,
                                         ![t].term = Outcome(t, "interrupted_partial")]
          /\ pc'[t] \in {"drain", "received", "check"} /\ row' = row
      BY <1>0, <1>10 DEF Poll, Goto
    <3> HIDE DEF v
    <3>3. runner'[t].rid = runner[t].rid /\ runner'[t].mine = runner[t].mine
          /\ runner'[t].view = v
      BY <1>0, <3>2 DEF Runner
    <3>4. pc[t] \in Executing \ {"claimed"}
      BY <1>10 DEF Poll, Executing
    <3> QED BY <1>1, <2>1, <3>1, <3>2, <3>3, <3>4 DEF KeepsRunner
  <2>4. KeepsRest(t)
    BY <1>0, <1>10 DEF Poll, KeepsRest, Goto, frame, Held, Executing
  <2> QED BY <2>1, <2>2, <2>3, <2>4
<1>11. CASE Drain(t)
  <2>1. pc[t] \in Held \ {"exit"}
    BY <1>11 DEF Drain, Held, Executing
  <2>2. KeepsRow(t)
    BY <1>0, <1>1, <1>11, <2>1 DEF Drain, KeepsRow, Goto
  <2>3. KeepsRunner(t)
    BY <1>0, <1>1, <1>11, <2>1 DEF Drain, KeepsRunner, Goto, Executing, Runner, Fresh, View
  <2>4. KeepsRest(t)
    BY <1>0, <1>11 DEF Drain, KeepsRest, Goto, frame, Held, Executing
  <2> QED BY <2>1, <2>2, <2>3, <2>4
<1>12. CASE Accept(t)
  <2>1. pc[t] \in Held \ {"exit"}
    BY <1>12 DEF Accept, Held, Executing
  <2>2. KeepsRow(t)
    BY <1>0, <1>1, <1>12, <2>1 DEF Accept, KeepsRow, Goto, Row, Active, Executing
  <2>3. KeepsRunner(t)
    BY <1>0, <1>1, <1>12, <2>1 DEF Accept, KeepsRunner, Goto, Executing, Runner, Row, Fresh, View
  <2>4. KeepsRest(t)
    BY <1>0, <1>12 DEF Accept, KeepsRest, Goto, frame, Held, Executing
  <2> QED BY <2>1, <2>2, <2>3, <2>4
<1>13. CASE Complete(t)
  <2>1. pc[t] \in Held \ {"exit"}
    BY <1>13 DEF Complete, Held, Executing
  <2>2. KeepsRow(t)
    BY <1>0, <1>1, <1>13, <2>1 DEF Complete, KeepsRow, Goto
  <2>3. KeepsRunner(t)
    BY <1>0, <1>1, <1>13, <2>1 DEF Complete, KeepsRunner, Goto, Executing, Runner, Fresh, View
  <2>4. KeepsRest(t)
    BY <1>0, <1>13 DEF Complete, KeepsRest, Goto, frame, Held, Executing
  <2> QED BY <2>1, <2>2, <2>3, <2>4
<1>14. CASE Limit(t)
  <2>1. pc[t] \in Held \ {"exit"}
    BY <1>14 DEF Limit, Held, Executing
  <2>2. KeepsRow(t)
    BY <1>0, <1>1, <1>14, <2>1 DEF Limit, KeepsRow, Goto
  <2>3. KeepsRunner(t)
    <3>1. /\ \/ runner' = [runner EXCEPT ![t].hand = TRUE, ![t].term = "limit_reached_partial"]
             \/ runner' = [runner EXCEPT ![t].term = Outcome(t, "limit_reached_partial")]
          /\ pc'[t] \in {"check", "drain"} /\ row' = row
      BY <1>0, <1>14 DEF Limit, Goto
    <3>2. runner'[t].rid = runner[t].rid /\ runner'[t].mine = runner[t].mine
          /\ runner'[t].view = runner[t].view
      BY <1>0, <3>1 DEF Runner
    <3>3. pc[t] \in Executing \ {"claimed"}
      BY <1>14 DEF Limit, Executing
    <3> QED BY <1>1, <2>1, <3>1, <3>2, <3>3 DEF KeepsRunner
  <2>4. KeepsRest(t)
    BY <1>0, <1>14 DEF Limit, KeepsRest, Goto, frame, Held, Executing
  <2> QED BY <2>1, <2>2, <2>3, <2>4
<1>15. CASE Fail(t)
  <2>1. pc[t] \in Held \ {"exit"}
    BY <1>15 DEF Fail, Held, Executing
  <2>2. KeepsRow(t)
    BY <1>0, <1>1, <1>15, <2>1 DEF Fail, KeepsRow, Goto
  <2>3. KeepsRunner(t)
    BY <1>0, <1>1, <1>15, <2>1 DEF Fail, KeepsRunner, Goto, Executing, Runner, Fresh, View
  <2>4. KeepsRest(t)
    BY <1>0, <1>15 DEF Fail, KeepsRest, Goto, frame, Held, Executing
  <2> QED BY <2>1, <2>2, <2>3, <2>4
<1>16. CASE Unexpected(t)
  <2>1. pc[t] \in Held \ {"exit"}
    BY <1>16 DEF Unexpected, Held, Executing
  <2>2. KeepsRow(t)
    BY <1>0, <1>1, <1>16, <2>1 DEF Unexpected, KeepsRow, Goto
  <2>3. KeepsRunner(t)
    BY <1>0, <1>1, <1>16, <2>1 DEF Unexpected, KeepsRunner, Goto, Executing, Runner, Fresh, View
  <2>4. KeepsRest(t)
    BY <1>0, <1>16 DEF Unexpected, KeepsRest, Goto, frame, Held, Executing
  <2> QED BY <2>1, <2>2, <2>3, <2>4
<1>17. CASE Close(t)
  <2>1. pc[t] \in Held \ {"exit"}
    BY <1>17 DEF Close, Held, Executing
  <2>2. KeepsRow(t)
    BY <1>0, <1>1, <1>17, <2>1 DEF Close, KeepsRow, Goto, Row, Active, Executing
  <2>3. KeepsRunner(t)
    BY <1>0, <1>1, <1>17, <2>1 DEF Close, KeepsRunner, Goto, Executing, Runner, Row, Fresh, View
  <2>4. KeepsRest(t)
    BY <1>0, <1>17 DEF Close, KeepsRest, Goto, frame, Held, Executing
  <2> QED BY <2>1, <2>2, <2>3, <2>4
<1>18. CASE Abandon(t)
  <2>1. pc[t] \in Held \ {"exit"}
    BY <1>18 DEF Abandon, Held, Executing
  <2>2. KeepsRow(t)
    BY <1>0, <1>1, <1>18, <2>1 DEF Abandon, KeepsRow, Goto
  <2>3. KeepsRunner(t)
    BY <1>0, <1>1, <1>18, <2>1 DEF Abandon, KeepsRunner, Goto, Executing, Runner, Fresh, View
  <2>4. KeepsRest(t)
    BY <1>0, <1>18 DEF Abandon, KeepsRest, Goto, frame, Held, Executing
  <2> QED BY <2>1, <2>2, <2>3, <2>4
<1>19. CASE Finish(t)
  <2>1. pc[t] \in Held \ {"exit"}
    BY <1>19 DEF Finish, Held, Executing
  <2>2. KeepsRow(t)
    <3>1. runner[t].rid # 0 /\ Owned(t) = row.ledger /\ runner[t].view.ledger.run = runner[t].rid
      BY <1>1, <2>1, <1>19 DEF Finish, Executing
    <3>2. \E state \in {row.state, runner[t].term} :
            row' = [row EXCEPT !.ledger = Owned(t), !.state = state]
      BY <1>19, <3>1 DEF Finish
    <3>3. row'.ledger = row.ledger /\ row'.revision = row.revision
          /\ row'.state \in {row.state, runner[t].term}
      BY <1>0, <3>1, <3>2 DEF Row
    <3>4. pc'[t] = "exit"
      BY <1>0, <1>19 DEF Finish, Goto
    <3> QED BY <1>0, <1>1, <2>1, <3>3, <3>4 DEF KeepsRow, Terminal
  <2>3. KeepsRunner(t)
    BY <1>0, <1>1, <1>19, <2>1 DEF Finish, KeepsRunner, Goto, Executing, Runner, Row, Fresh, View
  <2>4. KeepsRest(t)
    BY <1>0, <1>19 DEF Finish, KeepsRest, Goto, frame, Held, Executing
  <2> QED BY <2>1, <2>2, <2>3, <2>4
<1> QED
  BY <1>2, <1>3, <1>4, <1>5, <1>6, <1>7, <1>8, <1>9, <1>10, <1>11, <1>12, <1>13, <1>14, <1>15, <1>16, <1>17, <1>18, <1>19 DEF Worker

(* A process whose _jobs is empty runs no thread, nor does any other.      *)
LEMMA NoThread ==
  ASSUME Exclusive, NEW s \in Servers, server[s] = "up", jobs[s] = 0
  PROVE  \A t \in Runs : pc[t] \notin Held /\ runner[t].rid = 0
<1>1. \A t \in Runs : pc[t] \notin Held
  BY DEF Exclusive, ThreadsInJobs, OneProcess
<1> QED BY <1>1 DEF Exclusive, RunnersCurrent

(* While a start is between its commit and _jobs no thread runs.           *)
LEMMA StartHolder ==
  ASSUME Exclusive, NEW q \in Requests, req[q].at = "committed"
  PROVE  /\ \A t \in Runs : pc[t] \notin Held /\ runner[t].rid = 0
         /\ row.state = "planning"
         /\ \A p \in Requests : req[p].at = "committed" => p = q
<1>1. /\ jobs[req[q].srv] = 0 /\ row.state = "planning"
      /\ \A p \in Requests : req[p].at = "committed" => p = q
  BY DEF Exclusive, StartsAlone
<1>2. req[q].srv \in Servers /\ server[req[q].srv] = "up"
  BY DEF Exclusive, RequestsServed
<1> QED BY <1>1, <1>2, NoThread

LEMMA ProcessExclusive ==
  ASSUME TypeOK, Exclusive, ~Overlap, NEW s \in Servers, Boot(s) \/ Crash(s) \/ Shutdown(s)
  PROVE  Exclusive'
<1> USE DEF threads, history
<1>1. CASE Boot(s)
  <2>1. \A u \in Servers : server[u] # "up"
    BY <1>1 DEF Boot
  <2>2. \A t \in Runs : pc[t] \notin Held /\ runner[t].rid = 0
    BY <2>1 DEF Exclusive, ThreadsInJobs, RunnersCurrent
  <2>3. \A q \in Requests : req[q].at = "idle"
    BY <2>1 DEF Exclusive, RequestsServed
  <2>4. /\ server' = [server EXCEPT ![s] = "up"] /\ server \in [Servers -> {"down", "up", "gone"}]
        /\ UNCHANGED <<row, started, jobs, clock, req, pc, srv, runner>>
    BY <1>1 DEF Boot, TypeOK
  <2>5. OneProcess'
    BY <2>1, <2>4 DEF OneProcess
  <2>6. (ThreadsInJobs /\ ThreadsOwn /\ RunnersCurrent /\ RunnersBegun)'
    BY <2>2, <2>4 DEF ThreadsInJobs, ThreadsOwn, RunnersCurrent, RunnersBegun, Held, Executing
  <2>7. DraftIsFresh' /\ ClocksFresh'
    BY <2>4 DEF Exclusive, DraftIsFresh, ClocksFresh
  <2>8. (RequestsServed /\ StartsAlone /\ SnapshotsAge)'
    BY <2>3, <2>4 DEF RequestsServed, StartsAlone, SnapshotsAge
  <2> QED BY <2>5, <2>6, <2>7, <2>8 DEF Exclusive
<1>2. CASE Crash(s)
  <2>1. /\ server[s] = "up" /\ server' = [server EXCEPT ![s] = "gone"]
        /\ jobs' = [jobs EXCEPT ![s] = 0]
        /\ pc' = [t \in Runs |-> IF srv[t] = s THEN "dead" ELSE pc[t]]
        /\ runner' = [t \in Runs |-> IF srv[t] = s THEN NoRunner ELSE runner[t]]
        /\ req' = [q \in Requests |-> IF req[q].srv = s THEN NoRequest ELSE req[q]]
        /\ UNCHANGED <<row, started, clock, srv>>
    BY <1>2 DEF Crash
  <2>2. server \in [Servers -> {"down", "up", "gone"}] /\ jobs \in [Servers -> 0 .. MaxRuns]
    BY DEF TypeOK
  <2>3. \A t \in Runs : pc'[t] \notin Held
    BY <2>1 DEF Exclusive, ThreadsInJobs, OneProcess, Held, Executing
  <2>4. \A t \in Runs : runner'[t].rid = 0
    BY <2>1 DEF Exclusive, ThreadsInJobs, OneProcess, RunnersCurrent, NoRunner
  <2>5. \A q \in Requests : req'[q].at = "idle"
    BY <2>1 DEF Exclusive, RequestsServed, OneProcess, NoRequest
  <2>6. OneProcess'
    BY <2>1, <2>2 DEF Exclusive, OneProcess
  <2>7. (ThreadsInJobs /\ ThreadsOwn /\ RunnersCurrent /\ RunnersBegun)'
    BY <2>3, <2>4 DEF ThreadsInJobs, ThreadsOwn, RunnersCurrent, RunnersBegun, Held, Executing
  <2>8. DraftIsFresh' /\ ClocksFresh'
    BY <2>1, <2>2 DEF Exclusive, DraftIsFresh, ClocksFresh
  <2>9. (RequestsServed /\ StartsAlone /\ SnapshotsAge)'
    BY <2>5 DEF RequestsServed, StartsAlone, SnapshotsAge
  <2> QED BY <2>6, <2>7, <2>8, <2>9 DEF Exclusive
<1>3. CASE Shutdown(s)
  BY <1>3 DEF Shutdown, Exclusive, OneProcess, ThreadsInJobs, ThreadsOwn, RunnersCurrent,
       RunnersBegun, DraftIsFresh, ClocksFresh, RequestsServed, StartsAlone, SnapshotsAge
<1> QED BY <1>1, <1>2, <1>3

LEMMA TickExclusive ==
  ASSUME TypeOK, Exclusive, NEW r \in Runs, Tick(r)
  PROVE  Exclusive'
<1>1. /\ clock' = [clock EXCEPT ![r] = @ + 1] /\ r <= started
      /\ clock \in [Runs -> 0 .. 3]
      /\ \/ clock[r] # 0 \/ "register" \in Slow
         \/ \A q \in Requests : ~(req[q].at = "committed" /\ req[q].run = r)
      /\ UNCHANGED <<row, started, server, jobs, req, pc, srv, runner>>
  BY DEF Tick, TypeOK, threads, history
<1>2. ClocksFresh'
  <2> SUFFICES ASSUME NEW u \in Runs, u > started
               PROVE  clock'[u] = 0
    BY <1>1 DEF ClocksFresh
  <2>1. clock[u] = 0
    BY DEF Exclusive, ClocksFresh
  <2>2. u # r
    BY <1>1 DEF TypeOK
  <2> QED BY <1>1, <2>1, <2>2
<1>3. StartsAlone'
  BY <1>1 DEF Exclusive, StartsAlone
<1> QED
  BY <1>1, <1>2, <1>3 DEF Exclusive, OneProcess, ThreadsInJobs, ThreadsOwn, RunnersCurrent,
       RunnersBegun, DraftIsFresh, RequestsServed, SnapshotsAge

LEMMA ExitExclusive ==
  ASSUME TypeOK, Exclusive, NEW t \in Runs, Exit(t)
  PROVE  Exclusive'
<1>1. /\ pc[t] = "exit" /\ pc' = [pc EXCEPT ![t] = "dead"]
      /\ jobs' = [jobs EXCEPT ![srv[t]] = 0] /\ runner' = [runner EXCEPT ![t] = NoRunner]
      /\ UNCHANGED <<row, started, server, clock, req, srv>>
  BY DEF Exit, Goto
<1>2. /\ pc \in [Runs -> Pc] /\ jobs \in [Servers -> 0 .. MaxRuns]
      /\ runner \in [Runs -> Runner]
  BY DEF TypeOK
<1>3. srv[t] \in Servers /\ server[srv[t]] = "up" /\ jobs[srv[t]] = t /\ t # 0
  BY <1>1 DEF Exclusive, ThreadsInJobs, Held
<1>4. \A u \in Runs : pc'[u] \notin Held
  BY <1>1, <1>2, <1>3, SMTT(60) DEF Exclusive, ThreadsInJobs, OneProcess, Held, Executing
<1>5. \A u \in Runs : runner'[u].rid = 0
  BY <1>1, <1>2, <1>4 DEF Exclusive, RunnersCurrent, NoRunner
<1>6. \A q \in Requests : req[q].at # "committed"
  BY <1>1, StartHolder DEF Held
<1>7. (ThreadsInJobs /\ ThreadsOwn /\ RunnersCurrent /\ RunnersBegun)'
  BY <1>4, <1>5 DEF ThreadsInJobs, ThreadsOwn, RunnersCurrent, RunnersBegun, Held, Executing
<1>8. (OneProcess /\ ClocksFresh /\ RequestsServed)'
  BY <1>1 DEF Exclusive, OneProcess, ClocksFresh, RequestsServed
<1>9. DraftIsFresh' /\ StartsAlone' /\ SnapshotsAge'
  BY <1>1, <1>2, <1>6 DEF Exclusive, DraftIsFresh, StartsAlone, SnapshotsAge
<1> QED BY <1>7, <1>8, <1>9 DEF Exclusive

(* The requests' steps.                                                    *)
LEMMA ResumeExclusive ==
  ASSUME TypeOK, Exclusive, NEW q \in Requests, Resume(q)
  PROVE  Exclusive'
<1>0. /\ req \in [Requests -> Request] /\ req[q] \in Request /\ row \in Row
      /\ jobs \in [Servers -> 0 .. MaxRuns]
      /\ pc \in [Runs -> Pc] /\ srv \in [Runs -> Servers \cup {NoServer}]
      /\ NoRequest.at = "idle"
  BY FieldTypes DEF TypeOK, NoRequest
<1>1. CASE Refuse(q) \/ CancelEvent(q)
  <2>1. /\ req' = [req EXCEPT ![q] = NoRequest]
        /\ UNCHANGED <<row, started, server, jobs, clock, pc, srv, runner>>
    BY <1>1 DEF Refuse, CancelEvent, Done, threads, history
  <2>2. RequestsServed' /\ StartsAlone' /\ SnapshotsAge'
    BY <1>0, <2>1 DEF Exclusive, RequestsServed, StartsAlone, SnapshotsAge
  <2> QED
    BY <2>1, <2>2 DEF Exclusive, OneProcess, ThreadsInJobs, ThreadsOwn, RunnersCurrent,
         RunnersBegun, DraftIsFresh, ClocksFresh
<1>2. CASE Register(q)
  <2> DEFINE s == req[q].srv
             t == req[q].run
  <2>1. /\ req[q].at = "committed" /\ req' = [req EXCEPT ![q] = NoRequest]
        /\ jobs' = [jobs EXCEPT ![s] = t] /\ pc' = [pc EXCEPT ![t] = "ready"]
        /\ srv' = [srv EXCEPT ![t] = s]
        /\ UNCHANGED <<row, started, server, clock, runner>>
    BY <1>2 DEF Register, Done, history
  <2>2. /\ \A u \in Runs : pc[u] \notin Held /\ runner[u].rid = 0
        /\ \A p \in Requests : req[p].at = "committed" => p = q
    BY <2>1, StartHolder
  <2>3. /\ t \in Runs /\ row.state = "planning" /\ row.ledger.run = t
        /\ s \in Servers /\ server[s] = "up"
    BY <2>1 DEF Exclusive, StartsAlone, RequestsServed
  <2> HIDE DEF s, t
  <2>4. ThreadsInJobs'
    BY <1>0, <2>1, <2>2, <2>3 DEF ThreadsInJobs
  <2>5. (ThreadsOwn /\ RunnersCurrent /\ RunnersBegun)'
    BY <1>0, <2>1, <2>2, <2>3
    DEF ThreadsOwn, RunnersCurrent, RunnersBegun, Active, Held, Executing
  <2>6. (OneProcess /\ DraftIsFresh /\ ClocksFresh)'
    BY <2>1, <2>3 DEF Exclusive, OneProcess, DraftIsFresh, ClocksFresh
  <2>7. RequestsServed' /\ StartsAlone'
    BY <1>0, <2>1, <2>2 DEF Exclusive, RequestsServed, StartsAlone
  <2>8. SnapshotsAge'
    BY <1>0, <2>1, <2>3 DEF Exclusive, SnapshotsAge, Concerns, Terminal
  <2> QED BY <2>4, <2>5, <2>6, <2>7, <2>8 DEF Exclusive
<1>3. CASE RegisterFails(q)
  <2>1. /\ req[q].at = "committed" /\ req' = [req EXCEPT ![q] = NoRequest]
        /\ jobs' = [jobs EXCEPT ![req[q].srv] = 0]
        /\ row' = [row EXCEPT !.state = "failed_partial", !.ledger = req[q].snap.ledger]
        /\ UNCHANGED <<started, server, clock, pc, srv, runner>>
    BY <1>3 DEF RegisterFails, Done, threads, history
  <2>2. /\ \A u \in Runs : pc[u] \notin Held /\ runner[u].rid = 0
        /\ \A p \in Requests : req[p].at = "committed" => p = q
        /\ row.state = "planning"
    BY <2>1, StartHolder
  <2>3. row'.state = "failed_partial" /\ row'.revision = row.revision
    BY <1>0, <2>1 DEF Row
  <2>4. (ThreadsInJobs /\ ThreadsOwn /\ RunnersCurrent /\ RunnersBegun)'
    BY <2>1, <2>2 DEF ThreadsInJobs, ThreadsOwn, RunnersCurrent, RunnersBegun, Held, Executing
  <2>5. (OneProcess /\ DraftIsFresh /\ ClocksFresh)'
    BY <2>1, <2>3 DEF Exclusive, OneProcess, DraftIsFresh, ClocksFresh
  <2>6. RequestsServed' /\ StartsAlone'
    BY <1>0, <2>1, <2>2 DEF Exclusive, RequestsServed, StartsAlone
  <2>7. SnapshotsAge'
    BY <1>0, <2>1, <2>2, <2>3 DEF Exclusive, SnapshotsAge, Concerns, Terminal
  <2> QED BY <2>4, <2>5, <2>6, <2>7 DEF Exclusive
<1> QED BY <1>1, <1>2, <1>3 DEF Resume

(* A start commits only where no thread runs and no other start is under  *)
(* way.                                                                    *)
LEMMA StartFindsNone ==
  ASSUME TypeOK, Exclusive, NEW q \in Requests, NEW s \in Servers,
         NEW op \in {"start", "continue"}, StartCommit(q, s, op)
  PROVE  /\ server[s] = "up" /\ row.state \notin Active /\ jobs[s] = 0
         /\ \A t \in Runs : pc[t] \notin Held /\ runner[t].rid = 0
         /\ \A p \in Requests : req[p].at # "committed"
<1>1. PICK seen \in Seen(q) :
        /\ Serving(q, s, op, IF op = "continue" THEN "admitted" ELSE "loaded", seen)
        /\ op = "continue" /\ op \notin Slow => MayContinue(s, seen)
        /\ Current(seen)
  BY DEF StartCommit
<1>2. server[s] = "up" /\ row.state \notin Active /\ jobs[s] = 0
  <2>1. CASE op \in Slow
    <3>1. /\ req[q].at = (IF op = "continue" THEN "admitted" ELSE "loaded")
          /\ req[q].op = op /\ req[q].srv = s /\ seen = req[q].snap /\ server[s] = "up"
      BY <1>1, <2>1 DEF Serving
    <3>2. Concerns(op, seen.state) /\ row.state = seen.state /\ row.revision = seen.revision
      BY <1>1, <3>1 DEF Exclusive, SnapshotsAge, Current
    <3>3. op = "continue" => jobs[s] = 0
      <4> SUFFICES ASSUME op = "continue" PROVE jobs[s] = 0
        OBVIOUS
      <4>1. req[q].snap.state \in Terminal
        BY <3>1, <3>2 DEF Concerns
      <4> QED BY <3>1, <3>2, <4>1 DEF Exclusive, SnapshotsAge
    <3> QED BY <3>1, <3>2, <3>3 DEF Concerns, Active, Terminal, Exclusive, DraftIsFresh
  <2>2. CASE op \notin Slow
    <3>1. server[s] = "up" /\ Concerns(op, row.state) /\ (op = "continue" => jobs[s] = 0)
      BY <1>1, <2>2 DEF Serving, MayContinue
    <3> QED BY <3>1 DEF Concerns, Active, Terminal, Exclusive, DraftIsFresh
  <2> QED BY <2>1, <2>2
<1>3. /\ \A t \in Runs : pc[t] \notin Held /\ runner[t].rid = 0
      /\ \A p \in Requests : req[p].at # "committed"
  BY <1>2, NoThread, StartHolder DEF Active
<1> QED BY <1>2, <1>3

LEMMA StartExclusive ==
  ASSUME TypeOK, Exclusive, NEW q \in Requests, NEW s \in Servers,
         NEW op \in {"start", "continue"}, StartCommit(q, s, op)
  PROVE  Exclusive'
<1>1. PICK seen \in Seen(q) :
        /\ Serving(q, s, op, IF op = "continue" THEN "admitted" ELSE "loaded", seen)
        /\ op = "continue" /\ op \notin Slow => MayContinue(s, seen)
        /\ Current(seen)
        /\ row' = [state |-> "planning", revision |-> row.revision + 1, cancel |-> FALSE,
                   started_at |-> started + 1,
                   ledger |-> NewLedger(started + 1, s, op, seen)]
        /\ started' = started + 1 /\ started < MaxRuns
        /\ req' = [req EXCEPT ![q] = [at |-> "committed", op |-> op, srv |-> s,
                                      snap |-> row', run |-> started + 1]]
        /\ UNCHANGED <<server, jobs, clock, pc, srv, runner>>
  BY DEF StartCommit, threads
<1>2. /\ req \in [Requests -> Request] /\ row.revision \in Nat
      /\ started \in 0 .. MaxRuns
      /\ \A p \in Requests : req[p].snap.revision \in Nat
  BY FieldTypes DEF TypeOK, Row
<1>3. server[s] = "up" /\ row.state \notin Active /\ jobs[s] = 0
  BY StartFindsNone
<1>4. /\ \A t \in Runs : pc[t] \notin Held /\ runner[t].rid = 0
      /\ \A p \in Requests : req[p].at # "committed"
  BY StartFindsNone
<1>5. (ThreadsInJobs /\ ThreadsOwn /\ RunnersCurrent /\ RunnersBegun)'
  BY <1>1, <1>4 DEF ThreadsInJobs, ThreadsOwn, RunnersCurrent, RunnersBegun, Held, Executing
<1>6. (OneProcess /\ DraftIsFresh /\ ClocksFresh)'
  BY <1>1, <1>2 DEF Exclusive, OneProcess, DraftIsFresh, ClocksFresh
<1>7. RequestsServed'
  BY <1>1, <1>2, <1>3 DEF Exclusive, RequestsServed
<1>8. StartsAlone'
  <2>1. started + 1 \in Runs /\ clock[started + 1] = 0
    BY <1>1, <1>2 DEF Exclusive, ClocksFresh
  <2>2. row'.ledger.run = started + 1 /\ row'.ledger.owner = s
    BY <1>1 DEF NewLedger
  <2> QED BY <1>1, <1>2, <1>3, <1>4, <2>1, <2>2 DEF StartsAlone
<1>9. SnapshotsAge'
  BY <1>1, <1>2 DEF Exclusive, SnapshotsAge
<1> QED BY <1>5, <1>6, <1>7, <1>8, <1>9 DEF Exclusive

(* What the handlers that write blindly do to a task as long as none has   *)
(* changed one it had not seen: nothing, or what they set out to do.       *)
LEMMA SeenTypes ==
  ASSUME TypeOK, NEW q \in Requests, NEW seen \in Seen(q)
  PROVE  seen \in Row /\ seen.ledger \in Ledger
BY FieldTypes DEF Seen

LEMMA CancelWrites ==
  ASSUME TypeOK, Exclusive, NEW q \in Requests, NEW s \in Servers, CancelCommit(q, s), ~stale'
  PROVE  /\ row'.ledger = row.ledger /\ UNCHANGED <<row.revision, row.started_at>>
         /\ row'.state = row.state \/ (row.state = "draft" /\ row'.state = "cancelled_partial")
<1>0. row \in Row
  BY FieldTypes
<1>1. PICK seen \in Seen(q) :
        /\ row' = [row EXCEPT
                     !.cancel = @ \/ ~seen.cancel,
                     !.state  = IF seen.state = "draft" THEN "cancelled_partial" ELSE @,
                     !.ledger = IF seen.state = "draft" THEN seen.ledger ELSE @]
        /\ ~Overwrites(seen)
  BY DEF CancelCommit
<1>2. /\ row'.state = IF seen.state = "draft" THEN "cancelled_partial" ELSE row.state
      /\ row'.ledger = IF seen.state = "draft" THEN seen.ledger ELSE row.ledger
      /\ UNCHANGED <<row.revision, row.started_at>>
  BY <1>0, <1>1 DEF Row
<1> QED BY <1>1, <1>2 DEF Overwrites, Tasks

LEMMA RecoverWrites ==
  ASSUME TypeOK, Exclusive, NEW q \in Requests, NEW s \in Servers, RecoverCommit(q, s), ~stale'
  PROVE  /\ row'.ledger = row.ledger /\ UNCHANGED <<row.revision, row.started_at>>
         /\ \/ row'.state = row.state
            \/ /\ row.state \in Active /\ row'.state = "interrupted_partial"
               /\ server[s] = "up" /\ jobs[s] = 0 /\ \A p \in Requests : req[p].at # "committed"
<1>0. row \in Row
  BY FieldTypes
<1>1. PICK seen \in Seen(q) :
        /\ Serving(q, s, "recover", "decided", seen)
        /\ "recover" \notin Slow => MayRecover(s, seen)
        /\ row' = [row EXCEPT !.state = "interrupted_partial", !.ledger = seen.ledger]
        /\ ~Overwrites(seen) /\ ~(Tasks(row') # Tasks(row) /\ NewThread(q, s))
  BY DEF RecoverCommit
<1>2. /\ row'.state = "interrupted_partial" /\ row'.ledger = seen.ledger
      /\ UNCHANGED <<row.revision, row.started_at>>
  BY <1>0, <1>1 DEF Row
<1>3. CASE Tasks(row') = Tasks(row)
  BY <1>2, <1>3 DEF Tasks
<1>4. CASE Tasks(row') # Tasks(row)
  <2>1. row.state = seen.state /\ row.ledger = seen.ledger /\ ~NewThread(q, s)
    BY <1>1, <1>4 DEF Overwrites, Tasks
  <2>2. Concerns("recover", seen.state) /\ server[s] = "up" /\ jobs[s] = 0
    <3>1. CASE "recover" \in Slow
      <4>1. req[q].at = "decided" /\ req[q].op = "recover" /\ seen = req[q].snap
            /\ server[s] = "up"
        BY <1>1, <3>1 DEF Serving
      <4>2. Concerns("recover", seen.state) /\ req[q].run = 0
        BY <4>1 DEF Exclusive, SnapshotsAge
      <4> QED BY <2>1, <3>1, <4>1, <4>2 DEF NewThread
    <3>2. CASE "recover" \notin Slow
      BY <1>1, <3>2 DEF Serving, MayRecover
    <3> QED BY <3>1, <3>2
  <2> QED BY <1>2, <2>1, <2>2 DEF Concerns, NewThread
<1> QED BY <1>3, <1>4

LEMMA ReconcileWrites ==
  ASSUME TypeOK, NEW q \in Requests, NEW s \in Servers, Reconcile(q, s), ~stale'
  PROVE  row' = row
<1>0. row \in Row
  BY FieldTypes
<1>1. PICK seen \in Seen(q) : row' = [row EXCEPT !.ledger = seen.ledger] /\ ~Overwrites(seen)
  BY DEF Reconcile
<1>2. row'.ledger = seen.ledger
  BY <1>0, <1>1 DEF Row
<1>3. row'.ledger = row.ledger
  BY <1>1, <1>2 DEF Overwrites, Tasks
<1> QED BY <1>0, <1>1, <1>2, <1>3 DEF Row

(* An authorization is bound to the revision, and only finished tasks have *)
(* authorizations: what it rewrites is the ledger of the row.              *)
LEMMA AuthorizeWrites ==
  ASSUME TypeOK, Exclusive, NEW q \in Requests, NEW s \in Servers, Authorize(q, s)
  PROVE  /\ row.state \in Terminal /\ row'.state = row.state /\ row'.ledger = row.ledger
         /\ row'.revision = row.revision + 1
<1>0. row \in Row
  BY FieldTypes
<1>1. PICK seen \in Seen(q) :
        /\ Serving(q, s, "authorize", "loaded", seen) /\ row.revision = seen.revision
        /\ row' = [row EXCEPT !.revision = @ + 1, !.ledger = seen.ledger]
  BY DEF Authorize
<1>2. row'.state = row.state /\ row'.ledger = seen.ledger /\ row'.revision = row.revision + 1
  BY <1>0, <1>1 DEF Row
<1>3. CASE "authorize" \in Slow
  <2>1. req[q].at = "loaded" /\ req[q].op = "authorize" /\ seen = req[q].snap
    BY <1>1, <1>3 DEF Serving
  <2>2. seen.state \in Terminal
    BY <2>1 DEF Exclusive, SnapshotsAge, Concerns
  <2>3. row.state = seen.state /\ row.ledger = seen.ledger
    BY <1>1, <2>1, <2>2 DEF Exclusive, SnapshotsAge
  <2> QED BY <1>2, <2>2, <2>3
<1>4. CASE "authorize" \notin Slow
  BY <1>1, <1>2, <1>4 DEF Serving, Concerns
<1> QED BY <1>3, <1>4

LEMMA HandlerExclusive ==
  ASSUME TypeOK, Exclusive, ~stale', NEW q \in Requests, NEW s \in Servers, Handler(q, s)
  PROVE  Exclusive'
<1>0. /\ req \in [Requests -> Request] /\ req[q] \in Request
      /\ row \in Row /\ row.revision \in Nat /\ row.ledger \in Ledger /\ NoRequest.at = "idle"
      /\ \A p \in Requests : req[p].snap.revision \in Nat
  BY FieldTypes DEF TypeOK, Row, NoRequest
<1>1. ASSUME NEW op \in Operations, Load(q, s, op)
      PROVE  Exclusive'
  <2>1. /\ req' = [req EXCEPT ![q] = [at |-> "loaded", op |-> op, srv |-> s,
                                      snap |-> row, run |-> 0]]
        /\ server[s] = "up" /\ op \in Slow /\ Concerns(op, row.state)
        /\ UNCHANGED <<row, started, server, jobs, clock, pc, srv, runner>>
    BY <1>1 DEF Load, threads
  <2>2. RequestsServed' /\ StartsAlone'
    BY <1>0, <2>1 DEF Exclusive, RequestsServed, StartsAlone
  <2>3. SnapshotsAge'
    BY <1>0, <2>1 DEF Exclusive, SnapshotsAge
  <2> QED
    BY <2>1, <2>2, <2>3 DEF Exclusive, OneProcess, ThreadsInJobs, ThreadsOwn, RunnersCurrent,
         RunnersBegun, DraftIsFresh, ClocksFresh
<1>2. CASE AdmitContinue(q, s)
  <2>1. /\ req' = [req EXCEPT ![q].at = "admitted"] /\ jobs[s] = 0
        /\ req[q].at = "loaded" /\ req[q].op = "continue" /\ req[q].srv = s
        /\ UNCHANGED <<row, started, server, jobs, clock, pc, srv, runner>>
    BY <1>2 DEF AdmitContinue, Serving, MayContinue, threads
  <2>2. \A p \in Requests : /\ req'[p] = IF p = q THEN [req[q] EXCEPT !.at = "admitted"] ELSE req[p]
    BY <1>0, <2>1
  <2>3. /\ req'[q].at = "admitted" /\ req'[q].op = "continue" /\ req'[q].srv = s
        /\ req'[q].snap = req[q].snap
    BY <1>0, <2>1 DEF Request
  <2>4. RequestsServed' /\ StartsAlone'
    BY <2>1, <2>2, <2>3 DEF Exclusive, RequestsServed, StartsAlone
  <2>5. SnapshotsAge'
    BY <2>1, <2>2, <2>3 DEF Exclusive, SnapshotsAge
  <2> QED
    BY <2>1, <2>4, <2>5 DEF Exclusive, OneProcess, ThreadsInJobs, ThreadsOwn, RunnersCurrent,
         RunnersBegun, DraftIsFresh, ClocksFresh
<1>3. ASSUME NEW op \in {"start", "continue"}, StartCommit(q, s, op)
      PROVE  Exclusive'
  BY <1>3, StartExclusive
<1>4. CASE CancelCommit(q, s)
  <2>1. /\ server[s] = "up"
        /\ req' = [req EXCEPT ![q].at = "cancelled", ![q].op = "cancel", ![q].srv = s]
        /\ UNCHANGED <<started, server, jobs, clock, pc, srv, runner>>
    BY <1>4 DEF CancelCommit, Serving, threads
  <2>2. /\ row'.ledger = row.ledger /\ row'.revision = row.revision
        /\ row'.started_at = row.started_at
        /\ row'.state = row.state \/ (row.state = "draft" /\ row'.state = "cancelled_partial")
    BY <1>4, CancelWrites
  <2>3. req'[q].at = "cancelled" /\ req'[q].srv = s
    BY <1>0, <2>1 DEF Request
  <2>4. \A p \in Requests \ {q} : req'[p] = req[p]
    BY <1>0, <2>1
  <2>5. (OneProcess /\ ThreadsInJobs /\ ClocksFresh)'
    BY <2>1 DEF Exclusive, OneProcess, ThreadsInJobs, ClocksFresh
  <2>6. (ThreadsOwn /\ RunnersCurrent /\ RunnersBegun)'
    BY <2>1, <2>2 DEF Exclusive, ThreadsOwn, RunnersCurrent, RunnersBegun, Active
  <2>7. DraftIsFresh'
    BY <2>1, <2>2 DEF Exclusive, DraftIsFresh
  <2>8. RequestsServed'
    BY <2>1, <2>3, <2>4 DEF Exclusive, RequestsServed
  <2>9. StartsAlone'
    <3>1. ASSUME NEW p \in Requests, req'[p].at = "committed"
          PROVE  req'[p] = req[p] /\ req[p].at = "committed" /\ row.state = "planning"
      <4>1. p # q /\ req'[p] = req[p]
        BY <2>3, <2>4, <3>1
      <4> QED BY <3>1, <4>1 DEF Exclusive, StartsAlone
    <3>2. jobs' = jobs /\ clock' = clock
      BY <2>1
    <3>3. ASSUME NEW p \in Requests, req'[p].at = "committed"
          PROVE  /\ req'[p].run \in Runs /\ row'.started_at = req'[p].run
                 /\ "register" \notin Slow => clock'[req'[p].run] = 0
                 /\ row'.state = "planning"
                 /\ row'.ledger = req'[p].snap.ledger
                 /\ row'.ledger.run = req'[p].run /\ row'.ledger.owner = req'[p].srv
                 /\ jobs'[req'[p].srv] = 0
      BY <2>2, <3>1, <3>2, <3>3 DEF Exclusive, StartsAlone
    <3>4. \A p, o \in Requests :
            req'[p].at = "committed" /\ req'[o].at = "committed" => o = p
      BY <3>1 DEF Exclusive, StartsAlone
    <3> QED BY <3>3, <3>4 DEF StartsAlone
  <2>10. SnapshotsAge'
    <3> SUFFICES ASSUME NEW p \in Requests, req'[p].at \in {"loaded", "admitted", "decided"}
                 PROVE  /\ req'[p] = req[p]
                        /\ row'.state = row.state
                           \/ ~(req[p].snap.state \in Terminal /\ req[p].snap.revision = row.revision)
      BY <2>1, <2>2, ZenonT(60) DEF Exclusive, SnapshotsAge
    <3>1. p # q /\ req'[p] = req[p]
      BY <2>3, <2>4
    <3>2. req[p].snap.state \in Terminal /\ req[p].snap.revision = row.revision =>
            row.state = req[p].snap.state
      BY <3>1 DEF Exclusive, SnapshotsAge
    <3> QED BY <2>2, <3>1, <3>2 DEF Terminal
  <2> QED BY <2>5, <2>6, <2>7, <2>8, <2>9, <2>10 DEF Exclusive
<1>5. CASE RecoverDecide(q, s)
  <2>0. /\ req' = [req EXCEPT ![q].at = "decided", ![q].run = jobs[s]] /\ jobs[s] = 0
        /\ req[q].at = "loaded" /\ req[q].op = "recover" /\ req[q].srv = s
    BY <1>5 DEF RecoverDecide, Serving, MayRecover
  <2>1. server[s] = "up" /\ UNCHANGED <<row, started, server, jobs, clock, pc, srv, runner>>
    BY <1>5 DEF RecoverDecide, Serving, threads
  <2>2. \A p \in Requests : p # q => req'[p] = req[p]
    BY <1>0, <2>0
  <2>3. /\ req'[q].at = "decided" /\ req'[q].op = "recover" /\ req'[q].srv = s
        /\ req'[q].snap = req[q].snap /\ req'[q].run = 0
    BY <1>0, <2>0 DEF Request
  <2>4. RequestsServed'
    BY <2>1, <2>2, <2>3 DEF Exclusive, RequestsServed
  <2>5. StartsAlone'
    <3>1. \A p \in Requests : req'[p].at = "committed" => p # q /\ req'[p] = req[p]
      BY <2>2, <2>3
    <3> QED BY <2>1, <3>1 DEF Exclusive, StartsAlone
  <2>6. SnapshotsAge'
    <3> SUFFICES ASSUME NEW p \in Requests, req'[p].at \in {"loaded", "admitted", "decided"}
                 PROVE  /\ req'[p].op \in Slow /\ Concerns(req'[p].op, req'[p].snap.state)
                        /\ req'[p].at = "admitted" => req'[p].op = "continue"
                        /\ req'[p].at = "decided" => req'[p].op = "recover" /\ req'[p].run = 0
                        /\ req'[p].snap.revision <= row'.revision
                        /\ req'[p].snap.state \in Terminal /\ req'[p].snap.revision = row'.revision =>
                             /\ row'.state = req'[p].snap.state /\ row'.ledger = req'[p].snap.ledger
                             /\ req'[p].at = "admitted" => jobs'[req'[p].srv] = 0
      BY DEF SnapshotsAge
    <3>1. CASE p # q
      BY <2>1, <2>2, <3>1 DEF Exclusive, SnapshotsAge
    <3>2. CASE p = q
      BY <2>0, <2>1, <2>3, <3>2 DEF Exclusive, SnapshotsAge
    <3> QED BY <3>1, <3>2
  <2> QED
    BY <2>1, <2>4, <2>5, <2>6 DEF Exclusive, OneProcess, ThreadsInJobs, ThreadsOwn,
         RunnersCurrent, RunnersBegun, DraftIsFresh, ClocksFresh
<1>6. CASE RecoverCommit(q, s)
  <2>1. /\ req' = [req EXCEPT ![q] = NoRequest]
        /\ UNCHANGED <<started, server, jobs, clock, pc, srv, runner>>
    BY <1>6 DEF RecoverCommit, Done, threads
  <2>2. /\ row'.ledger = row.ledger /\ row'.revision = row.revision
        /\ row'.started_at = row.started_at
    BY <1>6, RecoverWrites
  <2>3. CASE row'.state = row.state
    BY <1>0, <2>1, <2>2, <2>3 DEF Exclusive, OneProcess, ThreadsInJobs, ThreadsOwn, RunnersCurrent,
         RunnersBegun, DraftIsFresh, ClocksFresh, RequestsServed, StartsAlone, SnapshotsAge
  <2>4. CASE row'.state # row.state
    <3>1. /\ row.state \in Active /\ row'.state = "interrupted_partial" /\ server[s] = "up"
          /\ jobs[s] = 0 /\ \A p \in Requests : req[p].at # "committed"
      BY <1>6, <2>4, RecoverWrites
    <3>2. \A t \in Runs : pc[t] \notin Held /\ runner[t].rid = 0
      BY <3>1, NoThread
    <3>3. (ThreadsInJobs /\ ThreadsOwn /\ RunnersCurrent /\ RunnersBegun)'
      BY <2>1, <3>2 DEF ThreadsInJobs, ThreadsOwn, RunnersCurrent, RunnersBegun, Held, Executing
    <3>4. (OneProcess /\ DraftIsFresh /\ ClocksFresh)'
      BY <2>1, <3>1 DEF Exclusive, OneProcess, DraftIsFresh, ClocksFresh
    <3>5. RequestsServed' /\ StartsAlone'
      BY <1>0, <2>1, <3>1 DEF Exclusive, RequestsServed, StartsAlone
    <3>6. SnapshotsAge'
      BY <1>0, <2>1, <2>2, <3>1 DEF Exclusive, SnapshotsAge, Active, Terminal
    <3> QED BY <3>3, <3>4, <3>5, <3>6 DEF Exclusive
  <2> QED BY <2>3, <2>4
<1>7. CASE Reconcile(q, s)
  <2>1. /\ req' = [req EXCEPT ![q] = NoRequest]
        /\ UNCHANGED <<started, server, jobs, clock, pc, srv, runner>>
    BY <1>7 DEF Reconcile, Done, threads
  <2>2. row' = row
    BY <1>7, ReconcileWrites
  <2>3. RequestsServed' /\ StartsAlone' /\ SnapshotsAge'
    BY <1>0, <2>1, <2>2 DEF Exclusive, RequestsServed, StartsAlone, SnapshotsAge
  <2> QED
    BY <2>1, <2>2, <2>3 DEF Exclusive, OneProcess, ThreadsInJobs, ThreadsOwn, RunnersCurrent,
         RunnersBegun, DraftIsFresh, ClocksFresh
<1>8. CASE Authorize(q, s)
  <2>1. /\ req' = [req EXCEPT ![q] = NoRequest]
        /\ UNCHANGED <<started, server, jobs, clock, pc, srv, runner>>
    BY <1>8 DEF Authorize, Done, threads
  <2>2. /\ row.state \in Terminal /\ row'.state = row.state /\ row'.ledger = row.ledger
        /\ row'.revision = row.revision + 1
    BY <1>8, AuthorizeWrites
  <2>3. \A p \in Requests : req[p].at # "committed"
    BY <2>2, StartHolder DEF Terminal
  <2>4. RequestsServed' /\ StartsAlone' /\ SnapshotsAge'
    BY <1>0, <2>1, <2>2, <2>3 DEF Exclusive, RequestsServed, StartsAlone, SnapshotsAge
  <2> QED
    BY <2>1, <2>2, <2>4 DEF Exclusive, OneProcess, ThreadsInJobs, ThreadsOwn, RunnersCurrent,
         RunnersBegun, DraftIsFresh, ClocksFresh
<1> QED BY <1>1, <1>2, <1>3, <1>4, <1>5, <1>6, <1>7, <1>8 DEF Handler

LEMMA ExclusiveInit == Init => Exclusive
BY DEF Init, Exclusive, OneProcess, ThreadsInJobs, ThreadsOwn, RunnersCurrent, RunnersBegun,
       DraftIsFresh, ClocksFresh, RequestsServed, StartsAlone, SnapshotsAge, Held, Executing,
       Draft, NoRequest, NoRunner

LEMMA ExclusiveStep ==
  ASSUME ~Overlap
  PROVE  TypeOK /\ Exclusive /\ [Next]_vars /\ ~stale' => Exclusive'
<1> SUFFICES ASSUME TypeOK, Exclusive, [Next]_vars, ~stale'
             PROVE  Exclusive'
  OBVIOUS
<1>1. CASE UNCHANGED vars
  BY <1>1 DEF vars, threads, history, Exclusive, OneProcess, ThreadsInJobs, ThreadsOwn,
       RunnersCurrent, RunnersBegun, DraftIsFresh, ClocksFresh, RequestsServed, StartsAlone,
       SnapshotsAge
<1>2. ASSUME NEW s \in Servers, Boot(s) \/ Crash(s) \/ Shutdown(s)
      PROVE  Exclusive'
  BY <1>2, ProcessExclusive
<1>3. ASSUME NEW r \in Runs, Tick(r)
      PROVE  Exclusive'
  BY <1>3, TickExclusive
<1>4. ASSUME NEW q \in Requests, Resume(q) \/ \E s \in Servers : Handler(q, s)
      PROVE  Exclusive'
  BY <1>4, ResumeExclusive, HandlerExclusive
<1>5. ASSUME NEW t \in Runs, Worker(t)
      PROVE  Exclusive'
  BY <1>5, ExitExclusive, WorkerKeeps, KeepsExclusive
<1> QED BY <1>1, <1>2, <1>3, <1>4, <1>5 DEF Next

(* Nothing takes back that a handler was stale.                            *)
LEMMA StaleStays == TypeOK /\ [Next]_vars /\ stale => stale'
<1> SUFFICES ASSUME TypeOK, [Next]_vars, stale PROVE stale'
  OBVIOUS
<1>1. CASE UNCHANGED vars
  BY <1>1 DEF vars, history
<1>2. ASSUME NEW s \in Servers, Boot(s) \/ Crash(s) \/ Shutdown(s) PROVE stale'
  BY <1>2 DEF Boot, Crash, Shutdown, history
<1>3. ASSUME NEW r \in Runs, Tick(r) PROVE stale'
  BY <1>3 DEF Tick, history
<1>4. ASSUME NEW q \in Requests, Resume(q) PROVE stale'
  BY <1>4 DEF Resume, Refuse, Register, RegisterFails, CancelEvent, history
<1>5. ASSUME NEW q \in Requests, NEW s \in Servers, Handler(q, s) PROVE stale'
  <2>1. CASE CancelCommit(q, s) \/ RecoverCommit(q, s) \/ Reconcile(q, s)
    BY <2>1 DEF CancelCommit, RecoverCommit, Reconcile
  <2>2. CASE \E op \in Operations : Load(q, s, op) \/ StartCommit(q, s, op)
    BY <2>2 DEF Load, StartCommit, history
  <2>3. CASE AdmitContinue(q, s) \/ RecoverDecide(q, s) \/ Authorize(q, s)
    BY <2>3 DEF AdmitContinue, RecoverDecide, Authorize, history
  <2> QED BY <1>5, <2>1, <2>2, <2>3 DEF Handler
<1>6. ASSUME NEW t \in Runs, Worker(t) PROVE stale'
  BY <1>6
  DEF Worker, Claim, Begin, FirstCheck, Check, Integrate, Spawn, Allocate, Send, Poll, Drain,
      Accept, Complete, Limit, Fail, Unexpected, Close, Abandon, Finish, Exit, frame, history
<1> QED BY <1>1, <1>2, <1>3, <1>4, <1>5, <1>6 DEF Next

(* However long handlers take, and whatever requests race: the parts of    *)
(* Exclusive hold until one changes a task it had not seen.                *)
THEOREM ExclusiveHolds ==
  ASSUME ~Overlap
  PROVE  Spec => [](~stale => Exclusive)
<1>1. TypeOK /\ (~stale => Exclusive) /\ [Next]_vars => (~stale => Exclusive)'
  BY StaleStays, ExclusiveStep
<1> QED BY <1>1, TypesHold, ExclusiveInit, PTL DEF Spec

(* None does in a prompt instance, where only start and continue requests  *)
(* and the worker's sends are ever overtaken: a start that is between its  *)
(* commit and _jobs is younger than what recover waits for.                *)
LEMMA PromptStep ==
  ASSUME Prompt, TypeOK, Exclusive, ~stale, [Next]_vars
  PROVE  ~stale'
<1>1. CASE UNCHANGED vars
  BY <1>1 DEF vars, history
<1>2. ASSUME NEW s \in Servers, Boot(s) \/ Crash(s) \/ Shutdown(s) PROVE ~stale'
  BY <1>2 DEF Boot, Crash, Shutdown, history
<1>3. ASSUME NEW r \in Runs, Tick(r) PROVE ~stale'
  BY <1>3 DEF Tick, history
<1>4. ASSUME NEW q \in Requests, Resume(q) PROVE ~stale'
  BY <1>4 DEF Resume, Refuse, Register, RegisterFails, CancelEvent, history
<1>5. ASSUME NEW q \in Requests, NEW s \in Servers, Handler(q, s) PROVE ~stale'
  <2>1. CASE CancelCommit(q, s)
    BY <2>1 DEF CancelCommit, Serving, Prompt, Overwrites
  <2>2. CASE Reconcile(q, s)
    BY <2>2 DEF Reconcile, Serving, Prompt, Overwrites
  <2>3. CASE RecoverCommit(q, s)
    <3>1. /\ MayRecover(s, row) /\ server[s] = "up"
          /\ stale' = (stale \/ Overwrites(row) \/ (Tasks(row') # Tasks(row) /\ NewThread(q, s)))
      BY <2>3 DEF RecoverCommit, Serving, Prompt
    <3>2. ASSUME NEW p \in Requests, req[p].at = "committed" PROVE FALSE
      <4>1. row.ledger.owner = s /\ clock[row.started_at] = 0
        BY <3>1, <3>2 DEF Exclusive, StartsAlone, RequestsServed, OneProcess, Prompt
      <4> QED BY <3>1, <4>1 DEF MayRecover, Due
    <3>3. ~NewThread(q, s)
      BY <3>2 DEF NewThread, Prompt
    <3> QED BY <3>1, <3>3 DEF Overwrites
  <2>4. CASE \E op \in Operations : Load(q, s, op) \/ StartCommit(q, s, op)
    BY <2>4 DEF Load, StartCommit, history
  <2>5. CASE AdmitContinue(q, s) \/ RecoverDecide(q, s) \/ Authorize(q, s)
    BY <2>5 DEF AdmitContinue, RecoverDecide, Authorize, history
  <2> QED BY <1>5, <2>1, <2>2, <2>3, <2>4, <2>5 DEF Handler
<1>6. ASSUME NEW t \in Runs, Worker(t) PROVE ~stale'
  BY <1>6
  DEF Worker, Claim, Begin, FirstCheck, Check, Integrate, Spawn, Allocate, Send, Poll, Drain,
      Accept, Complete, Limit, Fail, Unexpected, Close, Abandon, Finish, Exit, frame, history
<1> QED BY <1>1, <1>2, <1>3, <1>4, <1>5, <1>6 DEF Next

THEOREM PromptHolds ==
  ASSUME Prompt
  PROVE  Spec => []~stale
<1>1. ~Overlap
  BY DEF Prompt
<1>2. Spec => [](~stale => Exclusive)
  BY <1>1, ExclusiveHolds
<1>3. Init => ~stale
  BY DEF Init
<1>4. TypeOK /\ (~stale => Exclusive) /\ [Next]_vars /\ ~stale => ~stale'
  BY PromptStep
<1> QED BY <1>2, <1>3, <1>4, TypesHold, PTL DEF Spec

(* At most one thread executes a task, however many starts and             *)
(* continuations are admitted from the same row and however long handlers  *)
(* take, until one changes a task it had not seen: which in a prompt       *)
(* instance none does.                                                     *)
THEOREM SingleExecutorHolds ==
  ASSUME ~Overlap
  PROVE  Spec => [](~stale \/ Prompt => SingleExecutor)
<1>1. TypeOK /\ Exclusive => SingleExecutor
  BY Holder DEF SingleExecutor, Held, Executing
<1>2. Spec => [](~stale => SingleExecutor)
  BY <1>1, TypesHold, ExclusiveHolds, PTL
<1>3. CASE Prompt
  BY <1>2, <1>3, PromptHolds, PTL
<1>4. CASE ~Prompt
  BY <1>2, <1>4, PTL
<1> QED BY <1>3, <1>4

(* The executing thread is the one cancel() and shutdown() find in _jobs.  *)
THEOREM RegisteredHolds ==
  ASSUME ~Overlap
  PROVE  Spec => [](~stale => Registered)
<1>1. Exclusive => Registered
  BY DEF Exclusive, ThreadsInJobs, Registered, Held
<1> QED BY <1>1, ExclusiveHolds, PTL

(* No runner works for a run the row no longer names, until a handler      *)
(* changes a task it had not seen.                                         *)
THEOREM NoZombieHolds ==
  ASSUME ~Overlap
  PROVE  Spec => []NoZombie
<1>1. (~stale => Exclusive) => NoZombie
  BY DEF Exclusive, RunnersCurrent, NoZombie
<1> QED BY <1>1, ExclusiveHolds, PTL

-----------------------------------------------------------------------------
(* The promise.  Until a handler is stale every step is one of five kinds. *)

Kept == UNCHANGED <<sent, started>> /\ row'.ledger = row.ledger

Stutters == /\ Kept
            /\ row'.state = row.state \/ (row.state \in Active /\ row'.state \in Active)

Closes == /\ Kept
          /\ row.state \notin Terminal /\ row'.state \in Terminal

Opens == /\ row.state \notin Active /\ row'.state = "planning"
         /\ started' = started + 1 /\ started' \in Runs /\ row'.ledger.run = started'
         /\ row'.ledger.alloc \cup row'.ledger.hist = row.ledger.alloc \cup row.ledger.hist
         /\ sent' = sent

Charges(op) == /\ row.state \in Active /\ row'.state = row.state
               /\ op \in Op /\ op[1] = row.ledger.run
               /\ row'.ledger = [row.ledger EXCEPT !.alloc = @ \cup {op}]
               /\ UNCHANGED <<sent, started>>

Dispatches(op) == /\ row.state \in Active /\ row'.state = row.state
                  /\ row'.ledger = row.ledger /\ started' = started
                  /\ op[1] = row.ledger.run /\ op \in row.ledger.alloc
                  /\ sent' = sent \cup {op}

Kinds == \/ Stutters \/ Closes \/ Opens
         \/ \E op \in Runs \X Nat : Charges(op) \/ Dispatches(op)

LEMMA WorkerKinds ==
  ASSUME TypeOK, Exclusive, NEW t \in Runs, Worker(t), ~Exit(t)
  PROVE  Kinds
<1>0. /\ row \in Row /\ row.ledger \in Ledger /\ runner[t] \in Runner
      /\ runner[t].term \in Terminal /\ runner[t].used \in 0 .. MaxOps
  BY FieldTypes DEF Runner
<1>1. /\ pc[t] \in Held \ {"exit"} /\ KeepsRow(t)
      /\ row.state \in Active /\ row.ledger.run = t
      /\ runner[t].rid # 0 => Owned(t) = row.ledger /\ runner[t].view.ledger = row.ledger
      /\ pc[t] \in Executing \ {"claimed"} => runner[t].rid # 0
      /\ pc[t] = "allocated" => <<t, runner[t].used>> \in row.ledger.alloc
  BY WorkerKeeps, Holder DEF Exclusive, RunnersBegun
<1>2. CASE Allocate(t) /\ row' # row
  <2> DEFINE op == <<t, runner[t].used + 1>>
  <2>1. /\ pc[t] = "go" /\ runner[t].used < MaxOps /\ UNCHANGED <<sent, started>>
        /\ row' = [row EXCEPT !.revision = @ + 1,
                              !.ledger = [Owned(t) EXCEPT !.alloc = @ \cup {op}]]
    BY <1>2 DEF Allocate, frame, history
  <2>2. Owned(t) = row.ledger
    BY <1>1, <2>1 DEF Executing
  <2>3. row'.state = row.state /\ row'.ledger = [row.ledger EXCEPT !.alloc = @ \cup {op}]
    BY <1>0, <2>1, <2>2 DEF Row
  <2>4. op \in Op /\ op \in Runs \X Nat /\ op[1] = t
    BY <1>0, <2>1
  <2> QED BY <1>1, <2>1, <2>3, <2>4 DEF Kinds, Charges
<1>3. CASE Send(t)
  <2> DEFINE op == <<t, runner[t].used>>
  <2>1. /\ pc[t] = "allocated" /\ started' = started /\ sent' = sent \cup {op}
        /\ row' = [row EXCEPT !.ledger = Owned(t)]
    BY <1>3 DEF Send, frame
  <2>2. Owned(t) = row.ledger /\ op \in row.ledger.alloc
    BY <1>1, <2>1 DEF Executing
  <2>3. row'.state = row.state /\ row'.ledger = row.ledger
    BY <1>0, <2>1, <2>2 DEF Row
  <2>4. op \in Runs \X Nat /\ op[1] = t
    BY <1>0
  <2> QED BY <1>1, <2>1, <2>2, <2>3, <2>4 DEF Kinds, Dispatches
<1>4. CASE row' = row /\ ~Send(t)
  <2>1. UNCHANGED <<sent, started>>
    BY <1>4
    DEF Worker, Claim, Begin, FirstCheck, Check, Integrate, Spawn, Allocate, Poll, Drain,
        Accept, Complete, Limit, Fail, Unexpected, Close, Abandon, Finish, Exit, frame, history
  <2> QED BY <1>4, <2>1 DEF Kinds, Stutters, Kept
<1>5. CASE Claim(t)
  <2>1. /\ UNCHANGED <<sent, started>>
        /\ row' = row \/ row' = [row EXCEPT !.state = "researching", !.revision = @ + 1]
    BY <1>5 DEF Claim, frame, history
  <2>2. row'.ledger = row.ledger /\ row'.state \in {row.state, "researching"}
    BY <1>0, <2>1 DEF Row
  <2> QED BY <1>1, <2>1, <2>2 DEF Kinds, Stutters, Kept, Active
<1>6. CASE Integrate(t)
  <2>1. UNCHANGED <<sent, started>> /\ row' = [row EXCEPT !.state = "integrating"]
    BY <1>6 DEF Integrate, frame, history
  <2>2. row'.ledger = row.ledger /\ row'.state = "integrating"
    BY <1>0, <2>1 DEF Row
  <2> QED BY <1>1, <2>1, <2>2 DEF Kinds, Stutters, Kept, Active
<1>7. CASE Spawn(t) \/ Close(t) \/ Accept(t)
  <2>1. /\ UNCHANGED <<sent, started>> /\ pc[t] \in Executing \ {"claimed"}
        /\ \/ row' = [row EXCEPT !.ledger = runner[t].view.ledger]
           \/ row' = [row EXCEPT !.ledger = Owned(t)]
    BY <1>7 DEF Spawn, Close, Accept, frame, history, Executing
  <2>2. row'.ledger = row.ledger /\ row'.state = row.state
    BY <1>0, <1>1, <2>1 DEF Row
  <2> QED BY <2>1, <2>2 DEF Kinds, Stutters, Kept
<1>8. CASE Finish(t)
  <2>1. /\ UNCHANGED <<sent, started>> /\ pc[t] \in Executing \ {"claimed"}
        /\ \/ row' = row
           \/ row' = [row EXCEPT !.ledger = Owned(t),
                        !.state = IF runner[t].term = runner[t].view.state THEN @
                                  ELSE runner[t].term]
    BY <1>8 DEF Finish, frame, history, Executing
  <2>2. row'.ledger = row.ledger /\ row'.state \in {row.state, runner[t].term}
    BY <1>0, <1>1, <2>1 DEF Row
  <2>3. CASE row'.state = row.state
    BY <2>1, <2>2, <2>3 DEF Kinds, Stutters, Kept
  <2>4. CASE row'.state = runner[t].term
    BY <1>0, <1>1, <2>1, <2>2, <2>4 DEF Kinds, Closes, Kept, Active, Terminal
  <2> QED BY <2>2, <2>3, <2>4
<1>9. Begin(t) \/ FirstCheck(t) \/ Check(t) \/ Poll(t) \/ Drain(t) \/ Complete(t) \/ Limit(t)
        \/ Fail(t) \/ Unexpected(t) \/ Abandon(t) \/ Exit(t) => row' = row
  BY DEF Begin, FirstCheck, Check, Poll, Drain, Complete, Limit, Fail, Unexpected, Abandon, Exit
<1> QED BY <1>2, <1>3, <1>4, <1>5, <1>6, <1>7, <1>8, <1>9 DEF Worker

LEMMA ResumeKinds ==
  ASSUME TypeOK, Exclusive, NEW q \in Requests, Resume(q)
  PROVE  Kinds
<1>1. CASE Refuse(q) \/ Register(q) \/ CancelEvent(q)
  BY <1>1 DEF Refuse, Register, CancelEvent, history, Kinds, Stutters, Kept
<1>2. CASE RegisterFails(q)
  <2>1. /\ req[q].at = "committed" /\ UNCHANGED <<sent, started>>
        /\ row' = [row EXCEPT !.state = "failed_partial", !.ledger = req[q].snap.ledger]
    BY <1>2 DEF RegisterFails, history
  <2>2. row.state = "planning" /\ row.ledger = req[q].snap.ledger
    BY <2>1 DEF Exclusive, StartsAlone
  <2>3. row'.state = "failed_partial" /\ row'.ledger = row.ledger
    BY <2>1, <2>2, FieldTypes DEF Row
  <2> QED BY <2>1, <2>2, <2>3 DEF Kinds, Closes, Kept, Terminal
<1> QED BY <1>1, <1>2 DEF Resume

(* A continuation's snapshot, when the swap succeeds, is the row itself.   *)
LEMMA StartKinds ==
  ASSUME TypeOK, Exclusive, NEW q \in Requests, NEW s \in Servers,
         NEW op \in {"start", "continue"}, StartCommit(q, s, op)
  PROVE  Kinds
<1>1. PICK seen \in Seen(q) :
        /\ Serving(q, s, op, IF op = "continue" THEN "admitted" ELSE "loaded", seen)
        /\ Current(seen)
        /\ row' = [state |-> "planning", revision |-> row.revision + 1, cancel |-> FALSE,
                   started_at |-> started + 1,
                   ledger |-> NewLedger(started + 1, s, op, seen)]
        /\ started' = started + 1 /\ started < MaxRuns /\ sent' = sent
  BY DEF StartCommit, history
<1>2. Concerns(op, row.state) /\ (op = "continue" => row.ledger = seen.ledger)
  <2>1. CASE op \in Slow
    <3>1. /\ req[q].at = (IF op = "continue" THEN "admitted" ELSE "loaded")
          /\ req[q].op = op /\ seen = req[q].snap
      BY <1>1, <2>1 DEF Serving
    <3>2. Concerns(op, seen.state)
      BY <3>1 DEF Exclusive, SnapshotsAge
    <3> QED BY <1>1, <3>1, <3>2 DEF Exclusive, SnapshotsAge, Current, Concerns
  <2>2. CASE op \notin Slow
    BY <1>1, <2>2 DEF Serving
  <2> QED BY <2>1, <2>2
<1>3. row.state \notin Active
  BY <1>2 DEF Concerns, Active, Terminal
<1>4. started' \in Runs /\ started' = started + 1
  BY <1>1 DEF TypeOK
<1>5. row'.state = "planning" /\ row'.ledger.run = started'
  BY <1>1 DEF NewLedger
<1>6. row'.ledger.alloc \cup row'.ledger.hist = row.ledger.alloc \cup row.ledger.hist
  <2>1. CASE op = "continue"
    BY <1>1, <1>2, <2>1 DEF NewLedger
  <2>2. CASE op = "start"
    <3>1. row.ledger = NoLedger
      BY <1>2, <2>2 DEF Concerns, Exclusive, DraftIsFresh
    <3> QED BY <1>1, <2>2, <3>1 DEF NewLedger, NoLedger
  <2> QED BY <2>1, <2>2
<1> QED BY <1>1, <1>3, <1>4, <1>5, <1>6 DEF Kinds, Opens

LEMMA HandlerKinds ==
  ASSUME TypeOK, Exclusive, ~stale', NEW q \in Requests, NEW s \in Servers, Handler(q, s)
  PROVE  Kinds
<1>0. row \in Row
  BY FieldTypes
<1>1. CASE (\E op \in Operations : Load(q, s, op)) \/ AdmitContinue(q, s) \/ RecoverDecide(q, s)
  BY <1>1 DEF Load, AdmitContinue, RecoverDecide, history, Kinds, Stutters, Kept
<1>2. ASSUME NEW op \in {"start", "continue"}, StartCommit(q, s, op)
      PROVE  Kinds
  BY <1>2, StartKinds
<1>3. CASE CancelCommit(q, s)
  <2>1. UNCHANGED <<sent, started>>
    BY <1>3 DEF CancelCommit
  <2>2. /\ row'.ledger = row.ledger
        /\ row'.state = row.state \/ (row.state = "draft" /\ row'.state = "cancelled_partial")
    BY <1>3, CancelWrites
  <2> QED BY <2>1, <2>2 DEF Kinds, Stutters, Closes, Kept, Terminal
<1>4. CASE RecoverCommit(q, s)
  <2>1. UNCHANGED <<sent, started>>
    BY <1>4 DEF RecoverCommit
  <2>2. /\ row'.ledger = row.ledger
        /\ row'.state = row.state \/ (row.state \in Active /\ row'.state = "interrupted_partial")
    BY <1>4, RecoverWrites
  <2> QED BY <2>1, <2>2 DEF Kinds, Stutters, Closes, Kept, Active, Terminal
<1>5. CASE Reconcile(q, s) \/ Authorize(q, s)
  <2>1. UNCHANGED <<sent, started>>
    BY <1>5 DEF Reconcile, Authorize, history
  <2>2. row'.ledger = row.ledger /\ row'.state = row.state
    BY <1>5, ReconcileWrites, AuthorizeWrites
  <2> QED BY <2>1, <2>2 DEF Kinds, Stutters, Kept
<1> QED BY <1>1, <1>2, <1>3, <1>4, <1>5 DEF Handler

LEMMA StepKinds ==
  ASSUME TypeOK, Exclusive, ~stale', [Next]_vars
  PROVE  Kinds
<1>1. CASE UNCHANGED vars
  BY <1>1 DEF vars, history, Kinds, Stutters, Kept
<1>2. ASSUME NEW s \in Servers, Boot(s) \/ Crash(s) \/ Shutdown(s)
      PROVE  Kinds
  BY <1>2 DEF Boot, Crash, Shutdown, history, Kinds, Stutters, Kept
<1>3. ASSUME NEW r \in Runs, Tick(r)
      PROVE  Kinds
  BY <1>3 DEF Tick, history, Kinds, Stutters, Kept
<1>4. ASSUME NEW q \in Requests, Resume(q) \/ \E s \in Servers : Handler(q, s)
      PROVE  Kinds
  BY <1>4, ResumeKinds, HandlerKinds
<1>5. ASSUME NEW t \in Runs, Worker(t)
      PROVE  Kinds
  <2>1. Exit(t) => Kinds
    BY DEF Exit, history, Kinds, Stutters, Kept
  <2> QED BY <1>5, <2>1, WorkerKinds
<1> QED BY <1>1, <1>2, <1>3, <1>4, <1>5 DEF Next

(* An outcome is replaced only by a new run: nothing a late worker or a    *)
(* racing or slow request does rewrites a finished task, until a handler   *)
(* changes one that it had not seen.                                       *)
THEOREM OutcomeStandsHolds ==
  ASSUME ~Overlap
  PROVE  Spec => OutcomeStands
<1> DEFINE A == ~stale' /\ row.state \in Terminal =>
                  row.state' = row.state \/ (row.state' = "planning" /\ started' = started + 1)
<1>1. TypeOK /\ (~stale => Exclusive) /\ [Next]_vars => A
  BY StepKinds, StaleStays
  DEF Kinds, Stutters, Kept, Closes, Opens, Charges, Dispatches, Active, Terminal
<1> QED BY <1>1, TypesHold, ExclusiveHolds, PTL DEF Spec, OutcomeStands

LEMMA NamesStep ==
  ASSUME TypeOK, Exclusive, ~stale', [Next]_vars, NamesLastRun
  PROVE  NamesLastRun'
<1>1. row.ledger \in Ledger
  BY FieldTypes
<1> QED BY <1>1, StepKinds
  DEF Kinds, Stutters, Kept, Closes, Opens, Charges, Dispatches, NamesLastRun, Ledger

(* The strengthened invariant.                                             *)
THEOREM InductiveHolds ==
  ASSUME ~Overlap
  PROVE  Spec => [](~stale => Inductive)
<1>1. Init => NamesLastRun
  BY DEF Init, NamesLastRun, Draft, NoLedger
<1>2. TypeOK /\ (~stale => Exclusive) /\ (~stale => NamesLastRun) /\ [Next]_vars =>
        (~stale => NamesLastRun)'
  BY NamesStep, StaleStays
<1> QED BY <1>1, <1>2, TypesHold, ExclusiveHolds, PTL DEF Spec, Inductive

(* The same steps, seen through the refinement mapping.                    *)
LEMMA PromiseStep ==
  ASSUME TypeOK, Exclusive, ~stale', [Next]_vars, NamesLastRun
  PROVE  [Promise!Next]_(Promise!promise)
<1> DEFINE charged == row.ledger.alloc \cup row.ledger.hist
<1>0. row \in Row /\ row.ledger \in Ledger /\ started \in 0 .. MaxRuns
  BY FieldTypes DEF TypeOK
<1>1. CASE Stutters
  <2>1. Phase' = Phase
    BY <1>1 DEF Stutters, Kept, Phase, Active
  <2> QED BY <1>1, <2>1 DEF Stutters, Kept, Promise!promise
<1>2. CASE Closes
  <2>1. Phase # "closed" /\ Phase' = "closed"
    BY <1>0, <1>2 DEF Closes, Kept, Phase, Row, State, Active, Terminal
  <2> QED BY <1>2, <2>1 DEF Closes, Kept, Promise!Next, Promise!Close
<1>3. CASE Opens
  <2>1. Phase # "open" /\ Phase' = "open"
    BY <1>3 DEF Opens, Phase, Active
  <2>2. row'.ledger.run = row.ledger.run + 1 /\ row.ledger.run + 1 \in Runs
    BY <1>0, <1>3 DEF Opens, NamesLastRun
  <2>3. charged' = charged /\ sent' = sent
    BY <1>3 DEF Opens
  <2> QED BY <2>1, <2>2, <2>3 DEF Promise!Next, Promise!Open
<1>4. ASSUME NEW op \in Runs \X Nat, Charges(op)
      PROVE  [Promise!Next]_(Promise!promise)
  <2>1. Phase = "open" /\ Phase' = "open"
    BY <1>4 DEF Charges, Phase, Active
  <2>2. /\ row'.ledger.run = row.ledger.run /\ charged' = charged \cup {op}
        /\ op[1] = row.ledger.run /\ op \in Op /\ sent' = sent
    BY <1>0, <1>4 DEF Charges, Ledger
  <2>3. CASE op \in charged
    BY <2>1, <2>2, <2>3 DEF Promise!promise
  <2>4. CASE op \notin charged
    BY <2>1, <2>2, <2>4 DEF Promise!Next, Promise!Charge
  <2> QED BY <2>3, <2>4
<1>5. ASSUME NEW op \in Runs \X Nat, Dispatches(op)
      PROVE  [Promise!Next]_(Promise!promise)
  <2>1. Phase = "open" /\ Phase' = "open"
    BY <1>5 DEF Dispatches, Phase, Active
  <2>2. /\ row'.ledger = row.ledger /\ op \in charged
        /\ op[1] = row.ledger.run /\ sent' = sent \cup {op}
    BY <1>5 DEF Dispatches
  <2>3. CASE op \in sent
    BY <2>1, <2>2, <2>3 DEF Promise!promise
  <2>4. CASE op \notin sent
    BY <2>1, <2>2, <2>4 DEF Promise!Next, Promise!Dispatch
  <2> QED BY <2>3, <2>4
<1> QED BY <1>1, <1>2, <1>3, <1>4, <1>5, StepKinds DEF Kinds

(* Until a handler is stale the rows, requests and threads implement the   *)
(* durable task: every dispatch was charged to the run it belongs to, no   *)
(* charge is lost across runs, processes or crashes, and runs only follow  *)
(* one another.                                                            *)
THEOREM KeepsPromiseHolds ==
  ASSUME ~Overlap
  PROVE  Spec => KeepsPromise
<1>1. Init => Promise!Init
  BY DEF Init, Promise!Init, Phase, Draft, NoLedger
<1>2. TypeOK /\ (~stale => Inductive) /\ [Next]_vars =>
        [stale' \/ Promise!Next]_(Promise!promise)
  BY PromiseStep, StaleStays DEF Inductive
<1> QED BY <1>1, <1>2, TypesHold, InductiveHolds, PTL DEF Spec, KeepsPromise

(* No dispatched operation drops out of the account, until a handler       *)
(* changes a task it had not seen.                                         *)
THEOREM DispatchesCharged ==
  ASSUME ~Overlap
  PROVE  Spec => [](~stale => EveryDispatchCharged)
<1>1. Init => EveryDispatchCharged
  BY DEF Init, EveryDispatchCharged
<1>2. TypeOK /\ Exclusive /\ [Next]_vars /\ EveryDispatchCharged /\ ~stale' => EveryDispatchCharged'
  <2> SUFFICES ASSUME TypeOK, Exclusive, [Next]_vars, EveryDispatchCharged, ~stale'
               PROVE  EveryDispatchCharged'
    OBVIOUS
  <2>1. row.ledger \in Ledger
    BY FieldTypes
  <2>2. Kinds
    BY StepKinds
  <2>3. CASE Stutters \/ Closes \/ Opens
    BY <2>3 DEF Stutters, Closes, Kept, Opens, EveryDispatchCharged
  <2>4. ASSUME NEW op \in Runs \X Nat, Charges(op) \/ Dispatches(op)
        PROVE  EveryDispatchCharged'
    <3>1. CASE Charges(op)
      <4>1. row'.ledger.alloc = row.ledger.alloc \cup {op} /\ row'.ledger.hist = row.ledger.hist
        BY <2>1, <3>1 DEF Charges, Ledger
      <4> QED BY <3>1, <4>1 DEF Charges, EveryDispatchCharged
    <3>2. CASE Dispatches(op)
      BY <3>2 DEF Dispatches, EveryDispatchCharged
    <3> QED BY <2>4, <3>1, <3>2
  <2> QED BY <2>2, <2>3, <2>4 DEF Kinds
<1>3. TypeOK /\ (~stale => Exclusive) /\ (~stale => EveryDispatchCharged) /\ [Next]_vars =>
        (~stale => EveryDispatchCharged)'
  BY <1>2, StaleStays
<1> QED BY <1>1, <1>3, TypesHold, ExclusiveHolds, PTL DEF Spec

-----------------------------------------------------------------------------
(* The late dispatch.  What a step of thread t may do to the row and to    *)
(* itself, in any instance: go on only past a check, send only once.       *)
Begun == Executing \ {"claimed"}

StepsRow(t) ==
  /\ row'.cancel = row.cancel
  /\ row'.state = "draft" => row.state = "draft"
  /\ row.state \in Terminal => row'.state \in Terminal \/ pc[t] = "go"
  /\ \/ row'.ledger.run = row.ledger.run
     \/ pc[t] \in Begun /\ row'.ledger.run = runner[t].view.ledger.run

StepsRunner(t) ==
  /\ pc'[t] \in Begun =>
       /\ \/ runner'[t].rid = row.ledger.run
          \/ pc[t] \in Begun /\ runner'[t].rid = runner[t].rid
       /\ \/ runner'[t].view.ledger.run = row.ledger.run
          \/ pc[t] \in Begun /\ runner'[t].view.ledger.run = runner[t].view.ledger.run
  /\ pc'[t] \in {"go", "allocated"} => pc[t] = "go" \/ (pc[t] \in Begun /\ MayGoOn(t))

StepsRest(t) ==
  /\ pc[t] # "none" /\ pc'[t] # "none"
  /\ \/ late'[t] = late[t]
     \/ /\ pc[t] = "allocated" /\ pc'[t] = "check" /\ ~HoldsTask(t)
        /\ late'[t] = late[t] + 1
  /\ \A u \in Runs \ {t} : pc'[u] = pc[u] /\ runner'[u] = runner[u] /\ late'[u] = late[u]
  /\ UNCHANGED <<started, req, srv>>

LEMMA WorkerSteps ==
  ASSUME TypeOK, NEW t \in Runs, Worker(t)
  PROVE  StepsRow(t) /\ StepsRunner(t) /\ StepsRest(t)
<1>0. /\ row \in Row /\ row.ledger \in Ledger /\ pc \in [Runs -> Pc]
      /\ runner \in [Runs -> Runner] /\ runner[t] \in Runner /\ runner[t].view \in View
      /\ runner[t].view.ledger \in Ledger /\ runner[t].term \in Terminal
      /\ late \in [Runs -> Nat] /\ Owned(t) \in Ledger
      /\ Owned(t).run = runner[t].view.ledger.run
  <2>1. runner[t].view.ledger \in Ledger
    BY FieldTypes
  <2>2. Owned(t).run = runner[t].view.ledger.run
    BY <2>1 DEF Owned, Ledger
  <2> QED BY <2>2, FieldTypes DEF TypeOK, Runner
<1>1. ASSUME row' = row
      PROVE  StepsRow(t)
  BY <1>1 DEF StepsRow
<1>2. ASSUME NEW next, Goto(t, next), next # "none", pc[t] # "none",
             \A u \in Runs \ {t} : runner'[u] = runner[u], late' = late, UNCHANGED <<started, req, srv>>
      PROVE  StepsRest(t) /\ pc'[t] = next
  BY <1>0, <1>2 DEF StepsRest, Goto
<1>3. CASE Claim(t)
  <2>1. StepsRow(t)
    BY <1>0, <1>3 DEF Claim, StepsRow, Row, Terminal
  <2>2. \E next \in {"claimed", "exit"} : Goto(t, next)
    BY <1>3 DEF Claim
  <2>3. StepsRest(t) /\ pc'[t] \in {"claimed", "exit"}
    BY <1>2, <1>3, <2>2 DEF Claim, frame, history
  <2> QED BY <2>1, <2>3 DEF StepsRunner, Begun, Executing
<1>4. CASE Begin(t)
  <2>1. /\ runner'[t].rid = row.ledger.run /\ runner'[t].view.ledger.run = row.ledger.run
        /\ \A u \in Runs \ {t} : runner'[u] = runner[u]
    BY <1>0, <1>4 DEF Begin, Fresh, Runner, View
  <2>2. StepsRest(t) /\ pc'[t] = "begin"
    BY <1>2, <1>4, <2>1 DEF Begin, frame, history
  <2> QED BY <1>1, <1>4, <2>1, <2>2 DEF Begin, StepsRunner
<1>5. CASE FirstCheck(t)
  <2>1. /\ runner'[t].rid = runner[t].rid /\ runner'[t].view.ledger.run = row.ledger.run
        /\ \A u \in Runs \ {t} : runner'[u] = runner[u]
    BY <1>0, <1>5 DEF FirstCheck, Fresh, Runner, View
  <2>2. \E next \in {"check", "finish"} : Goto(t, next)
    BY <1>5 DEF FirstCheck
  <2>3. StepsRest(t) /\ pc'[t] \in {"check", "finish"}
    BY <1>2, <1>5, <2>1, <2>2 DEF FirstCheck, frame, history
  <2> QED BY <1>1, <1>5, <2>1, <2>3 DEF FirstCheck, StepsRunner, Begun, Executing
<1>6. CASE Check(t)
  <2>1. /\ runner'[t].rid = runner[t].rid /\ runner'[t].view.ledger.run = row.ledger.run
        /\ \A u \in Runs \ {t} : runner'[u] = runner[u]
    BY <1>0, <1>6 DEF Check, Fresh, Runner, View
  <2>2. \E next \in {"check", "drain", "go"} : Goto(t, next) /\ (next = "go" => MayGoOn(t))
    BY <1>6 DEF Check
  <2>3. StepsRest(t) /\ pc'[t] \in {"check", "drain", "go"} /\ (pc'[t] = "go" => MayGoOn(t))
    BY <1>2, <1>6, <2>1, <2>2 DEF Check, frame, history
  <2> QED BY <1>1, <1>6, <2>1, <2>3 DEF Check, StepsRunner, Begun, Executing
<1>7. CASE Integrate(t)
  <2>1. /\ runner'[t].rid = runner[t].rid /\ runner'[t].view.ledger = runner[t].view.ledger
        /\ \A u \in Runs \ {t} : runner'[u] = runner[u]
    BY <1>0, <1>7 DEF Integrate, Runner, View
  <2>2. StepsRest(t) /\ pc'[t] = "check"
    BY <1>2, <1>7, <2>1 DEF Integrate, frame, history
  <2>3. StepsRow(t)
    BY <1>0, <1>7 DEF Integrate, StepsRow, Row
  <2> QED BY <1>7, <2>1, <2>2, <2>3 DEF Integrate, StepsRunner, Begun, Executing
<1>8. CASE Spawn(t)
  <2>1. StepsRest(t) /\ pc'[t] = "check" /\ runner' = runner
    BY <1>2, <1>8 DEF Spawn, frame, history
  <2>2. StepsRow(t)
    BY <1>0, <1>8 DEF Spawn, StepsRow, Row, Begun, Executing
  <2> QED BY <1>8, <2>1, <2>2 DEF Spawn, StepsRunner, Begun, Executing
<1>9. CASE Allocate(t)
  <2> DEFINE k == runner[t].used + 1
             l == [Owned(t) EXCEPT !.alloc = @ \cup {<<t, k>>}]
  <2>1. l.run = runner[t].view.ledger.run
    BY <1>0 DEF Ledger
  <2> HIDE DEF l
  <2>2. StepsRow(t)
    <3>1. row' = row \/ row' = [row EXCEPT !.revision = @ + 1, !.ledger = l]
      BY <1>9 DEF Allocate, l
    <3>2. /\ row'.cancel = row.cancel /\ row'.state = row.state
          /\ row'.ledger.run \in {row.ledger.run, runner[t].view.ledger.run}
      BY <1>0, <2>1, <3>1 DEF Row
    <3> QED BY <1>9, <3>2 DEF Allocate, StepsRow, Begun, Executing
  <2>3. /\ runner'[t].rid = runner[t].rid
        /\ runner'[t].view.ledger.run = runner[t].view.ledger.run
        /\ \A u \in Runs \ {t} : runner'[u] = runner[u]
    <3>1. \/ runner' = [runner EXCEPT
               ![t].view.ledger = l, ![t].mine = l.alloc, ![t].used = k, ![t].rev = Expired,
               ![t].phase = IF @ = "integrate" THEN "synthesis" ELSE @]
          \/ runner' = [runner EXCEPT ![t].term = Outcome(t, "failed_partial")]
      BY <1>9 DEF Allocate, l
    <3> HIDE DEF k
    <3> QED BY <1>0, <2>1, <3>1, SMTT(60) DEF Runner, View
  <2>4. \E next \in {"allocated", "drain"} : Goto(t, next)
    BY <1>9 DEF Allocate
  <2>5. StepsRest(t) /\ pc'[t] \in {"allocated", "drain"}
    BY <1>2, <1>9, <2>3, <2>4 DEF Allocate, frame, history
  <2> QED BY <1>9, <2>2, <2>3, <2>5 DEF Allocate, StepsRunner, Begun, Executing
<1>10. CASE Send(t)
  <2>1. /\ runner'[t].rid = runner[t].rid
        /\ runner'[t].view.ledger.run = runner[t].view.ledger.run
        /\ \A u \in Runs \ {t} : runner'[u] = runner[u]
    BY <1>0, <1>10 DEF Send, Runner, View
  <2>2. pc'[t] = "check" /\ \A u \in Runs \ {t} : pc'[u] = pc[u]
    BY <1>0, <1>10 DEF Send, Goto
  <2>3. /\ late'[t] = (IF HoldsTask(t) THEN late[t] ELSE late[t] + 1)
        /\ \A u \in Runs \ {t} : late'[u] = late[u]
    BY <1>0, <1>10 DEF Send
  <2>4. StepsRow(t)
    BY <1>0, <1>10 DEF Send, StepsRow, Row, Begun, Executing
  <2>5. StepsRest(t)
    BY <1>10, <2>1, <2>2, <2>3 DEF Send, StepsRest, frame
  <2> QED BY <1>10, <2>1, <2>2, <2>4, <2>5 DEF Send, StepsRunner, Begun, Executing
<1>11. CASE Poll(t) \/ Drain(t)
  <2>1. /\ runner'[t].rid = runner[t].rid /\ runner'[t].view.ledger = row.ledger
        /\ \A u \in Runs \ {t} : runner'[u] = runner[u]
    <3> DEFINE v == [runner[t].view EXCEPT !.state = row.state, !.ledger = row.ledger]
    <3>1. v.ledger = row.ledger
      BY <1>0 DEF View
    <3>2. CASE Drain(t)
      BY <1>0, <3>2 DEF Drain, Runner, View
    <3>3. CASE Poll(t)
      <4>1. \/ runner' = [runner EXCEPT ![t].view = v]
            \/ runner' = [runner EXCEPT ![t].view = v, ![t].term = Outcome(t, "interrupted_partial")]
        BY <3>3 DEF Poll
      <4> HIDE DEF v
      <4> QED BY <1>0, <3>1, <4>1 DEF Runner
    <3> QED BY <1>11, <3>2, <3>3
  <2>2. \E next \in {"received", "check", "drain", "closing", "drained"} : Goto(t, next)
    BY <1>11 DEF Poll, Drain
  <2>3. StepsRest(t) /\ pc'[t] \in {"received", "check", "drain", "closing", "drained"}
    BY <1>2, <1>11, <2>1, <2>2 DEF Poll, Drain, frame, history
  <2> QED BY <1>1, <1>11, <2>1, <2>3 DEF Poll, Drain, StepsRunner, Begun, Executing
<1>12. CASE Accept(t)
  <2>1. /\ runner'[t].rid = runner[t].rid
        /\ runner'[t].view.ledger.run = runner[t].view.ledger.run
        /\ \A u \in Runs \ {t} : runner'[u] = runner[u]
    BY <1>0, <1>12 DEF Accept, Runner, View
  <2>2. \E next \in {"drain", "polled"} : Goto(t, next)
    BY <1>12 DEF Accept
  <2>3. StepsRest(t) /\ pc'[t] \in {"drain", "polled"}
    BY <1>2, <1>12, <2>1, <2>2 DEF Accept, frame, history
  <2>4. StepsRow(t)
    BY <1>0, <1>12 DEF Accept, StepsRow, Row, Begun, Executing
  <2> QED BY <1>12, <2>1, <2>3, <2>4 DEF Accept, StepsRunner, Begun, Executing
<1>13. CASE Complete(t) \/ Limit(t) \/ Fail(t)
  <2>1. /\ runner'[t].rid = runner[t].rid /\ runner'[t].view = runner[t].view
        /\ \A u \in Runs \ {t} : runner'[u] = runner[u]
    BY <1>0, <1>13 DEF Complete, Limit, Fail, Runner
  <2>2. \E next \in {"drain", "check"} : Goto(t, next)
    BY <1>13 DEF Complete, Limit, Fail
  <2>3. StepsRest(t) /\ pc'[t] \in {"drain", "check"}
    BY <1>2, <1>13, <2>1, <2>2 DEF Complete, Limit, Fail, frame, history
  <2> QED BY <1>1, <1>13, <2>1, <2>3 DEF Complete, Limit, Fail, StepsRunner, Begun, Executing
<1>14. CASE Unexpected(t)
  <2>1. /\ runner'[t].rid = runner[t].rid /\ runner'[t].view.ledger.run = row.ledger.run
        /\ \A u \in Runs \ {t} : runner'[u] = runner[u]
    BY <1>0, <1>14 DEF Unexpected, Fresh, Runner, View
  <2>2. StepsRest(t) /\ pc'[t] = "drain"
    BY <1>2, <1>14, <2>1 DEF Unexpected, frame, history
  <2> QED BY <1>1, <1>14, <2>1, <2>2 DEF Unexpected, StepsRunner, Begun, Executing
<1>15. CASE Close(t) \/ Abandon(t)
  <2>1. \E next \in {"finish", "exit"} : Goto(t, next)
    BY <1>15 DEF Close, Abandon
  <2>2. StepsRest(t) /\ pc'[t] \in {"finish", "exit"} /\ runner' = runner
    BY <1>2, <1>15, <2>1 DEF Close, Abandon, frame, history
  <2>3. StepsRow(t)
    BY <1>0, <1>15 DEF Close, Abandon, StepsRow, Row, Begun, Executing
  <2> QED BY <1>15, <2>2, <2>3 DEF Close, Abandon, StepsRunner, Begun, Executing
<1>16. CASE Finish(t)
  <2>1. StepsRest(t) /\ pc'[t] = "exit" /\ runner' = runner
    BY <1>2, <1>16 DEF Finish, frame, history
  <2>2. \/ row' = row
        \/ \E state \in {row.state, runner[t].term} :
             row' = [row EXCEPT !.ledger = Owned(t), !.state = state]
    BY <1>16 DEF Finish
  <2>3. /\ row'.cancel = row.cancel /\ row'.state \in {row.state, runner[t].term}
        /\ row'.ledger.run \in {row.ledger.run, runner[t].view.ledger.run}
    BY <1>0, <2>2 DEF Row
  <2>4. StepsRow(t)
    BY <1>0, <1>16, <2>3 DEF Finish, StepsRow, Begun, Executing, Terminal
  <2> QED BY <2>1, <2>4 DEF StepsRunner, Begun, Executing
<1>17. CASE Exit(t)
  <2>1. \A u \in Runs \ {t} : runner'[u] = runner[u]
    BY <1>0, <1>17 DEF Exit
  <2>2. StepsRest(t) /\ pc'[t] = "dead"
    BY <1>2, <1>17, <2>1 DEF Exit, history
  <2> QED BY <1>1, <1>17, <2>2 DEF Exit, StepsRunner, Begun, Executing
<1> QED BY <1>3, <1>4, <1>5, <1>6, <1>7, <1>8, <1>9, <1>10, <1>11, <1>12, <1>13, <1>14,
           <1>15, <1>16, <1>17 DEF Worker

(* Without continuations a task is started once, and what ends it cannot   *)
(* be taken back: whoever no longer finds its run in the ledger, after a   *)
(* late cancellation of the draft wrote it, finds the task cancelled.      *)
Marked(run) == started = 1 /\ run # 1 => row.cancel
Over == row.cancel \/ row.state \in Terminal

SoundRequest(r) ==
  /\ r.snap.state = "draft" => ~r.snap.cancel
  /\ r.snap.state # "draft" => Marked(r.snap.ledger.run)
  /\ r.at \in {"loaded", "admitted", "decided"} => Concerns(r.op, r.snap.state)
  /\ r.at = "committed" => started = 1 /\ r.run = 1 /\ r.snap.state # "draft"

SoundThread(t) ==
  /\ pc[t] # "none" => started = 1 /\ t = 1
  /\ pc[t] = "none" => srv[t] = NoServer
  /\ pc[t] \in Begun => Marked(runner[t].rid) /\ Marked(runner[t].view.ledger.run)
  /\ late[t] <= 1
  /\ late[t] = 1 => pc[t] \notin {"none", "go", "allocated"} /\ Over

OneRun ==
  /\ started <= 1
  /\ row.state = "draft" =>
       started = 0 /\ ~row.cancel /\ \A q \in Requests : req[q].snap.state = "draft"
  /\ Marked(row.ledger.run)
  /\ \A q \in Requests : SoundRequest(req[q])
  /\ \A t \in Runs : SoundThread(t)

LEMMA OneRunInit == Init => OneRun
<1> SUFFICES ASSUME Init PROVE OneRun
  OBVIOUS
<1>1. \A q \in Requests : req[q].snap = Draft /\ req[q].at = "idle"
  BY DEF Init, NoRequest
<1>2. \A t \in Runs : pc[t] = "none" /\ late[t] = 0 /\ srv[t] = NoServer
  BY DEF Init
<1>3. started = 0 /\ row = Draft
  BY DEF Init
<1> QED BY <1>1, <1>2, <1>3 DEF OneRun, SoundRequest, SoundThread, Marked, Begun, Executing, Draft

(* Steps that start no run, and move no thread but to boot or bury it.     *)
LEMMA OneRunKept ==
  ASSUME TypeOK, OneRun, UNCHANGED <<started, late>>,
         row.cancel => row'.cancel, row.state \in Terminal => row'.state \in Terminal,
         row'.state = "draft" => row' = row,
         started = 1 /\ row'.ledger.run # 1 => row'.cancel,
         \A q \in Requests : req'[q] = req[q] \/ SoundRequest(req'[q]),
         row'.state = "draft" => \A q \in Requests : req'[q].snap.state = "draft",
         \A t \in Runs :
           \/ pc'[t] = pc[t] /\ runner'[t] = runner[t]
           \/ pc'[t] \in {"ready", "dead"} /\ started = 1 /\ t = 1
           \/ pc'[t] = "dead" /\ pc[t] # "none",
         \A t \in Runs : pc'[t] = "none" => srv'[t] = srv[t]
  PROVE  OneRun'
<1>1. \A run : Marked(run) => Marked(run)'
  BY DEF Marked
<1>2. ASSUME NEW q \in Requests
      PROVE  SoundRequest(req[q])'
  <2>1. SoundRequest(req'[q])
    BY DEF OneRun
  <2> QED BY <1>1, <2>1 DEF SoundRequest
<1>3. Over => Over'
  BY DEF Over
<1>4. ASSUME NEW t \in Runs
      PROVE  SoundThread(t)'
  <2>1. SoundThread(t) /\ late'[t] = late[t]
    BY DEF OneRun
  <2>2. CASE pc'[t] = pc[t] /\ runner'[t] = runner[t]
    BY <1>1, <1>3, <2>1, <2>2 DEF SoundThread
  <2>3. CASE pc'[t] \in {"ready", "dead"} /\ started = 1 /\ t = 1
    BY <1>3, <2>1, <2>3 DEF SoundThread, Begun, Executing
  <2>4. CASE pc'[t] = "dead" /\ pc[t] # "none"
    BY <1>3, <2>1, <2>4 DEF SoundThread, Begun, Executing
  <2> QED BY <2>2, <2>3, <2>4
<1>5. row'.state = "draft" => started' = 0 /\ ~row'.cancel
  BY DEF OneRun
<1>6. Marked(row.ledger.run)'
  BY DEF Marked
<1> QED BY <1>2, <1>4, <1>5, <1>6 DEF OneRun

LEMMA OneRunWorker ==
  ASSUME TypeOK, OneRun, NEW t \in Runs, Worker(t)
  PROVE  OneRun'
<1>1. StepsRow(t) /\ StepsRunner(t) /\ StepsRest(t) /\ SoundThread(t) /\ row \in Row
      /\ late[t] \in Nat
  BY WorkerSteps, FieldTypes DEF OneRun, TypeOK
<1>2. started = 1 /\ t = 1 /\ row.state # "draft" /\ row'.state # "draft" /\ row'.cancel = row.cancel
      /\ UNCHANGED <<started, req, srv>>
  BY <1>1 DEF StepsRest, StepsRow, SoundThread, OneRun
<1>3. \A run : Marked(run)' <=> Marked(run)
  BY <1>2 DEF Marked
<1>4. Marked(row'.ledger.run)
  BY <1>1 DEF StepsRow, SoundThread, OneRun
<1>5. pc'[t] \in Begun => Marked(runner'[t].rid) /\ Marked(runner'[t].view.ledger.run)
  BY <1>1 DEF StepsRunner, SoundThread, OneRun
<1>6. ASSUME late[t] = 1
      PROVE  pc'[t] \notin {"none", "go", "allocated"} /\ Over' /\ late'[t] = 1
  <2>1. pc[t] \notin {"none", "go", "allocated"} /\ Over
    BY <1>1, <1>6 DEF SoundThread
  <2>2. Over'
    BY <1>1, <2>1 DEF Over, StepsRow
  <2>3. late'[t] = 1 /\ pc'[t] # "none"
    BY <1>1, <1>6, <2>1 DEF StepsRest
  <2>4. ASSUME pc[t] \in Begun PROVE ~MayGoOn(t)
    <3>1. row.cancel => ~MayGoOn(t)
      BY DEF MayGoOn, Halted
    <3>2. ASSUME ~row.cancel PROVE Lost(t)
      BY <1>1, <1>2, <2>1, <2>4, <3>2 DEF SoundThread, Marked, Over, Lost
    <3> QED BY <3>1, <3>2 DEF MayGoOn
  <2> QED BY <1>1, <2>1, <2>2, <2>3, <2>4 DEF StepsRunner
<1>7. ASSUME late'[t] # late[t]
      PROVE  late'[t] = 1 /\ pc'[t] = "check" /\ Over'
  <2>1. /\ pc[t] = "allocated" /\ pc'[t] = "check" /\ ~HoldsTask(t) /\ late'[t] = late[t] + 1
    BY <1>1, <1>7 DEF StepsRest
  <2>2. late[t] = 0
    BY <1>1, <2>1 DEF SoundThread
  <2>3. row.cancel \/ row.state \notin Active
    BY <1>1, <1>2, <2>1 DEF HoldsTask, SoundThread, Marked, Begun, Executing, OneRun
  <2>4. row.cancel \/ row.state \in Terminal
    BY <1>1, <1>2, <2>3 DEF Row, State
  <2> QED BY <1>1, <1>2, <2>1, <2>2, <2>4 DEF Over, StepsRow
<1>8. SoundThread(t)'
  <2>1. pc'[t] # "none" /\ started' = 1
    BY <1>1, <1>2 DEF StepsRest
  <2>2. late'[t] <= 1
    BY <1>1, <1>6, <1>7 DEF SoundThread
  <2>3. late'[t] = 1 => pc'[t] \notin {"none", "go", "allocated"} /\ Over'
    BY <1>6, <1>7
  <2> QED BY <1>2, <1>3, <1>5, <2>1, <2>2, <2>3 DEF SoundThread
<1>9. ASSUME NEW u \in Runs \ {t}
      PROVE  SoundThread(u)'
  <2>1. SoundThread(u) /\ u # 1 /\ late[u] \in Nat
    BY <1>2 DEF OneRun, TypeOK
  <2>2. pc[u] = "none" /\ late[u] = 0 /\ srv[u] = NoServer
    BY <2>1 DEF SoundThread
  <2>3. pc'[u] = "none" /\ late'[u] = 0 /\ srv'[u] = NoServer
    BY <1>1, <1>2, <2>2 DEF StepsRest
  <2> QED BY <2>3 DEF SoundThread, Begun, Executing
<1>10. \A q \in Requests : SoundRequest(req[q])'
  BY <1>2, <1>3 DEF OneRun, SoundRequest
<1> QED BY <1>2, <1>3, <1>4, <1>8, <1>9, <1>10 DEF OneRun

(* What a handler acts on, in the row or in its session.                   *)
LEMMA ServingKnows ==
  ASSUME TypeOK, OneRun, NEW q \in Requests, NEW s \in Servers, NEW op \in Operations,
         NEW at \in {"loaded", "admitted", "decided"}, NEW seen \in Seen(q),
         Serving(q, s, op, at, seen)
  PROVE  /\ Concerns(op, seen.state)
         /\ seen.state = "draft" => ~seen.cancel
         /\ seen.state # "draft" => Marked(seen.ledger.run) /\ row.state # "draft"
<1>1. CASE op \in Slow
  BY <1>1 DEF Serving, OneRun, SoundRequest
<1>2. CASE op \notin Slow
  BY <1>2 DEF Serving, OneRun
<1> QED BY <1>1, <1>2

LEMMA OneRunStart ==
  ASSUME TypeOK, OneRun, "continue" \notin Offered, NEW q \in Requests, NEW s \in Servers,
         NEW op \in {"start", "continue"}, StartCommit(q, s, op)
  PROVE  OneRun'
<1>1. op = "start"
  BY DEF StartCommit, Serving
<1>2. PICK seen \in Seen(q) :
        /\ Serving(q, s, op, "loaded", seen) /\ Current(seen)
        /\ row' = [state |-> "planning", revision |-> row.revision + 1, cancel |-> FALSE,
                   started_at |-> started + 1, ledger |-> NewLedger(started + 1, s, op, seen)]
        /\ started' = started + 1
        /\ req' = [req EXCEPT ![q] = [at |-> "committed", op |-> op, srv |-> s,
                                      snap |-> row', run |-> started + 1]]
        /\ UNCHANGED <<pc, runner, late, srv>>
  BY <1>1 DEF StartCommit, threads, history
<1>3. row.state = "draft"
  <2>1. Concerns(op, seen.state)
    BY <1>2, ServingKnows
  <2> QED BY <1>1, <1>2, <2>1 DEF Concerns, Current
<1>4. started = 0 /\ \A p \in Requests : req[p].snap.state = "draft"
  BY <1>3 DEF OneRun
<1>5. /\ started' = 1 /\ row'.ledger.run = 1 /\ row'.state = "planning" /\ row'.state # "draft"
  BY <1>2, <1>4 DEF NewLedger
<1>6. \A t \in Runs : pc[t] = "none" /\ late[t] = 0 /\ srv[t] = NoServer
  <2>1. late \in [Runs -> Nat] /\ pc \in [Runs -> Pc]
    BY DEF TypeOK
  <2> QED BY <1>4, <2>1 DEF OneRun, SoundThread
<1>7. \A t \in Runs : SoundThread(t)'
  BY <1>2, <1>6 DEF SoundThread, Begun, Executing
<1>8. ASSUME NEW p \in Requests
      PROVE  SoundRequest(req[p])'
  <2>1. CASE p = q
    <3>1. req'[p].at = "committed" /\ req'[p].run = 1 /\ req'[p].snap = row'
      BY <1>2, <1>4, <2>1 DEF TypeOK
    <3> QED BY <1>5, <3>1 DEF SoundRequest, Marked
  <2>2. CASE p # q
    <3>1. req'[p] = req[p] /\ SoundRequest(req[p]) /\ req[p].snap.state = "draft"
      BY <1>2, <1>4, <2>2 DEF TypeOK, OneRun
    <3> QED BY <1>4, <3>1 DEF SoundRequest
  <2> QED BY <2>1, <2>2
<1> QED BY <1>5, <1>7, <1>8 DEF OneRun, Marked

LEMMA OneRunHandler ==
  ASSUME TypeOK, OneRun, "continue" \notin Offered, NEW q \in Requests, NEW s \in Servers,
         Handler(q, s)
  PROVE  OneRun'
<1>0. /\ req \in [Requests -> Request] /\ req[q] \in Request /\ NoRequest \in Request
      /\ row \in Row /\ row.ledger \in Ledger /\ SoundRequest(NoRequest)
      /\ \A seen \in Seen(q) : seen \in Row /\ seen.ledger \in Ledger
  BY FieldTypes, RecordTypes DEF TypeOK, Seen, SoundRequest, NoRequest, Draft
<1>1. ASSUME NEW op \in Operations, Load(q, s, op)
      PROVE  OneRun'
  <2> DEFINE new == [at |-> "loaded", op |-> op, srv |-> s, snap |-> row, run |-> 0]
  <2>1. req'[q] = new /\ \A p \in Requests \ {q} : req'[p] = req[p]
    BY <1>0, <1>1 DEF Load
  <2>2. SoundRequest(new)
    BY <1>1 DEF Load, SoundRequest, OneRun
  <2>3. UNCHANGED <<row, started, late, pc, srv, runner>>
    BY <1>1 DEF Load, threads, history
  <2> HIDE DEF new
  <2>4. row.state = "draft" => \A p \in Requests : req'[p].snap.state = "draft"
    BY <2>1 DEF OneRun, new
  <2> QED BY <2>1, <2>2, <2>3, <2>4, OneRunKept DEF OneRun, Marked
<1>2. ASSUME NEW op \in {"start", "continue"}, StartCommit(q, s, op)
      PROVE  OneRun'
  BY <1>2, OneRunStart
<1>3. CASE AdmitContinue(q, s)
  BY <1>3 DEF AdmitContinue, Serving
<1>4. CASE CancelCommit(q, s)
  <2>1. PICK seen \in Seen(q) :
          /\ Serving(q, s, "cancel", "loaded", seen)
          /\ row' = [row EXCEPT
                 !.cancel = @ \/ ~seen.cancel,
                 !.state  = IF seen.state = "draft" THEN "cancelled_partial" ELSE @,
                 !.ledger = IF seen.state = "draft" THEN seen.ledger ELSE @]
          /\ req' = [req EXCEPT ![q].at = "cancelled", ![q].op = "cancel", ![q].srv = s]
          /\ UNCHANGED <<started, late, pc, srv, runner>>
    BY <1>4 DEF CancelCommit, threads, history
  <2>2. /\ seen.state = "draft" => ~seen.cancel
        /\ seen.state # "draft" => row.state # "draft"
    BY <2>1, ServingKnows
  <2>3. /\ row'.cancel = (row.cancel \/ ~seen.cancel)
        /\ row'.state = (IF seen.state = "draft" THEN "cancelled_partial" ELSE row.state)
        /\ row'.ledger = (IF seen.state = "draft" THEN seen.ledger ELSE row.ledger)
    BY <1>0, <2>1 DEF Row
  <2>4. /\ row'.state # "draft" /\ (row.cancel => row'.cancel)
        /\ row.state \in Terminal => row'.state \in Terminal
        /\ started = 1 /\ row'.ledger.run # 1 => row'.cancel
    BY <2>2, <2>3 DEF Terminal, OneRun, Marked
  <2>5. /\ req'[q].at = "cancelled" /\ req'[q].snap = req[q].snap
        /\ \A p \in Requests \ {q} : req'[p] = req[p]
    BY <1>0, <2>1 DEF Request
  <2>6. \A p \in Requests : req'[p] = req[p] \/ SoundRequest(req'[p])
    BY <2>5 DEF OneRun, SoundRequest
  <2> QED BY <2>1, <2>4, <2>6, OneRunKept
<1>5. CASE RecoverDecide(q, s)
  <2>0. req' = [req EXCEPT ![q].at = "decided", ![q].run = jobs[s]]
    BY <1>5 DEF RecoverDecide
  <2>1. req[q].at = "loaded" /\ UNCHANGED <<row, started, late, pc, srv, runner>>
    BY <1>5 DEF RecoverDecide, Serving, threads, history
  <2>2. /\ req'[q].at = "decided" /\ req'[q].snap = req[q].snap /\ req'[q].op = req[q].op
        /\ \A p \in Requests : p # q => req'[p] = req[p]
    BY <1>0, <2>0 DEF Request
  <2>3. \A p \in Requests : req'[p] = req[p] \/ SoundRequest(req'[p])
    BY <2>1, <2>2 DEF OneRun, SoundRequest
  <2>4. row.state = "draft" => \A p \in Requests : req'[p].snap.state = "draft"
    BY <2>2 DEF OneRun
  <2> QED BY <2>1, <2>3, <2>4, OneRunKept DEF OneRun, Marked
<1>6. CASE RecoverCommit(q, s) \/ Reconcile(q, s) \/ Authorize(q, s)
  <2>1. PICK seen \in Seen(q), op \in {"recover", "reconcile", "authorize"},
             at \in {"loaded", "decided"} :
          /\ Serving(q, s, op, at, seen)
          /\ \/ row' = [row EXCEPT !.state = "interrupted_partial", !.ledger = seen.ledger]
             \/ row' = [row EXCEPT !.ledger = seen.ledger]
             \/ row' = [row EXCEPT !.revision = @ + 1, !.ledger = seen.ledger]
          /\ Done(q) /\ UNCHANGED <<started, late, pc, srv, runner>>
    BY <1>6 DEF RecoverCommit, Reconcile, Authorize, threads, history
  <2>2. Concerns(op, seen.state) /\ (seen.state # "draft" => Marked(seen.ledger.run) /\ row.state # "draft")
    BY <2>1, ServingKnows
  <2>3. Marked(seen.ledger.run) /\ row.state # "draft"
    BY <2>2 DEF Concerns, Active, Terminal
  <2>4. /\ row'.cancel = row.cancel /\ row'.ledger = seen.ledger
        /\ row'.state \in {row.state, "interrupted_partial"}
    BY <1>0, <2>1 DEF Row
  <2>5. \A p \in Requests : req'[p] = req[p] \/ SoundRequest(req'[p])
    BY <1>0, <2>1 DEF Done
  <2> QED BY <2>1, <2>3, <2>4, <2>5, OneRunKept DEF Marked, Terminal
<1> QED BY <1>1, <1>2, <1>3, <1>4, <1>5, <1>6 DEF Handler

LEMMA OneRunResume ==
  ASSUME TypeOK, OneRun, NEW q \in Requests, Resume(q)
  PROVE  OneRun'
<1>0. /\ req \in [Requests -> Request] /\ req[q] \in Request /\ row \in Row
      /\ SoundRequest(NoRequest) /\ NoRequest.snap.state = "draft" /\ pc \in [Runs -> Pc]
  BY FieldTypes DEF TypeOK, SoundRequest, NoRequest, Draft
<1>1. /\ Done(q) /\ UNCHANGED <<started, late, runner>>
  BY DEF Resume, Refuse, Register, RegisterFails, CancelEvent, threads, history
<1>2. /\ \A p \in Requests : req'[p] = req[p] \/ SoundRequest(req'[p])
      /\ row.state = "draft" => \A p \in Requests : req'[p].snap.state = "draft"
  BY <1>0, <1>1 DEF Done, OneRun
<1>3. CASE Refuse(q) \/ CancelEvent(q)
  <2>1. UNCHANGED <<row, pc, srv>>
    BY <1>3 DEF Refuse, CancelEvent, threads
  <2> QED BY <1>1, <1>2, <2>1, OneRunKept DEF OneRun, Marked
<1>4. CASE Register(q)
  <2>1. /\ UNCHANGED row /\ pc' = [pc EXCEPT ![req[q].run] = "ready"]
        /\ started = 1 /\ req[q].run = 1
    BY <1>4 DEF Register, OneRun, SoundRequest
  <2>2. /\ \A t \in Runs : pc'[t] = pc[t] \/ (pc'[t] = "ready" /\ t = 1)
        /\ \A t \in Runs : t = 1 \/ srv'[t] = srv[t]
        /\ 1 \in Runs => pc'[1] = "ready"
    BY <1>0, <1>4, <2>1 DEF Register, TypeOK
  <2> QED BY <1>1, <1>2, <2>1, <2>2, OneRunKept DEF OneRun, Marked
<1>5. CASE RegisterFails(q)
  <2>1. /\ row' = [row EXCEPT !.state = "failed_partial", !.ledger = req[q].snap.ledger]
        /\ UNCHANGED <<pc, srv>> /\ req[q].snap.state # "draft"
    BY <1>5 DEF RegisterFails, OneRun, SoundRequest, threads
  <2>2. row'.state = "failed_partial" /\ row'.ledger = req[q].snap.ledger /\ row'.cancel = row.cancel
    BY <1>0, <2>1 DEF Row
  <2>3. Marked(row'.ledger.run)
    BY <2>1, <2>2 DEF OneRun, SoundRequest
  <2> QED BY <1>1, <1>2, <2>1, <2>2, <2>3, OneRunKept DEF Marked, Terminal
<1> QED BY <1>3, <1>4, <1>5 DEF Resume

LEMMA OneRunStep ==
  ASSUME "continue" \notin Offered
  PROVE  TypeOK /\ OneRun /\ [Next]_vars => OneRun'
<1> SUFFICES ASSUME TypeOK, OneRun, [Next]_vars PROVE OneRun'
  OBVIOUS
<1>1. CASE UNCHANGED vars
  BY <1>1, OneRunKept DEF vars, threads, history, OneRun, Marked
<1>2. ASSUME NEW s \in Servers, Boot(s) \/ Shutdown(s) PROVE OneRun'
  BY <1>2, OneRunKept DEF Boot, Shutdown, threads, history, OneRun, Marked
<1>3. ASSUME NEW r \in Runs, Tick(r) PROVE OneRun'
  BY <1>3, OneRunKept DEF Tick, threads, history, OneRun, Marked
<1>4. ASSUME NEW s \in Servers, Crash(s) PROVE OneRun'
  <2>1. /\ \A t \in Runs : srv[t] # s => pc'[t] = pc[t] /\ runner'[t] = runner[t]
        /\ \A t \in Runs : srv[t] = s => pc'[t] = "dead"
        /\ \A q \in Requests : req'[q] = req[q] \/ req'[q] = NoRequest
        /\ UNCHANGED <<row, started, late, srv>> /\ s # NoServer
    BY <1>4 DEF Crash, history
  <2>2. \A t \in Runs : srv[t] = s => pc[t] # "none"
    BY <2>1 DEF OneRun, SoundThread
  <2>3. SoundRequest(NoRequest) /\ NoRequest.snap.state = "draft"
    BY DEF SoundRequest, NoRequest, Draft
  <2> QED BY <2>1, <2>2, <2>3, OneRunKept DEF OneRun, Marked
<1>5. ASSUME NEW q \in Requests, Resume(q) \/ \E s \in Servers : Handler(q, s) PROVE OneRun'
  BY <1>5, OneRunResume, OneRunHandler
<1>6. ASSUME NEW t \in Runs, Worker(t) PROVE OneRun'
  BY <1>6, OneRunWorker
<1> QED BY <1>1, <1>2, <1>3, <1>4, <1>5, <1>6 DEF Next

(* With continuations, until a handler is stale: a thread that sent late   *)
(* finds its task cancelled for as long as it lives, and none lives twice. *)
LivesOnce(t) ==
  /\ pc[t] = "none" => srv[t] = NoServer
  /\ t > started => pc[t] = "none"
  /\ late[t] <= 1
  /\ late[t] = 1 => pc[t] \notin {"none", "go", "allocated"} /\ (pc[t] \in Held => row.cancel)

LiveOnce ==
  /\ \A t \in Runs : LivesOnce(t)
  /\ \A q \in Requests : req[q].at = "committed" =>
       pc[req[q].run] = "none" /\ req[q].run <= started

LEMMA LiveOnceInit == Init => LiveOnce
BY DEF Init, LiveOnce, LivesOnce, NoRequest

LEMMA LiveOnceKept ==
  ASSUME TypeOK, LiveOnce, UNCHANGED <<started, late, srv>>, row.cancel => row'.cancel,
         \A t \in Runs : pc'[t] = pc[t] \/ (pc'[t] = "dead" /\ pc[t] # "none"),
         \A q \in Requests : req'[q].at = "committed" => req'[q] = req[q] /\ req[q].run \in Runs
  PROVE  LiveOnce'
<1>1. ASSUME NEW t \in Runs
      PROVE  LivesOnce(t)'
  <2>1. LivesOnce(t)
    BY DEF LiveOnce
  <2>2. CASE pc'[t] = pc[t]
    BY <2>1, <2>2 DEF LivesOnce
  <2>3. CASE pc'[t] = "dead" /\ pc[t] # "none"
    BY <2>1, <2>3 DEF LivesOnce, Held, Executing
  <2> QED BY <2>2, <2>3
<1>2. \A q \in Requests : req'[q].at = "committed" =>
        pc'[req'[q].run] = "none" /\ req'[q].run <= started'
  BY DEF LiveOnce
<1> QED BY <1>1, <1>2 DEF LiveOnce

LEMMA LiveOnceWorker ==
  ASSUME TypeOK, Exclusive, LiveOnce, NEW t \in Runs, Worker(t)
  PROVE  LiveOnce'
<1>1. StepsRow(t) /\ StepsRunner(t) /\ StepsRest(t) /\ LivesOnce(t) /\ late[t] \in Nat
  BY WorkerSteps DEF LiveOnce, TypeOK
<1>2. row'.cancel = row.cancel /\ pc[t] \in Held /\ UNCHANGED <<started, srv, req>>
  <2>1. Exit(t) => pc[t] = "exit"
    BY DEF Exit
  <2> QED BY <1>1, <2>1, WorkerKeeps DEF StepsRow, StepsRest, Held
<1>3. ASSUME late[t] = 1
      PROVE  late'[t] = 1 /\ pc'[t] \notin {"none", "go", "allocated"} /\ row'.cancel
  <2>1. row.cancel /\ pc[t] \notin {"none", "go", "allocated"}
    BY <1>1, <1>2, <1>3 DEF LivesOnce
  <2>2. ~MayGoOn(t)
    BY <2>1 DEF MayGoOn, Halted
  <2> QED BY <1>1, <1>2, <1>3, <2>1, <2>2 DEF StepsRest, StepsRunner
<1>4. ASSUME late'[t] # late[t]
      PROVE  late'[t] = 1 /\ pc'[t] = "check" /\ row'.cancel
  <2>1. pc[t] = "allocated" /\ pc'[t] = "check" /\ ~HoldsTask(t) /\ late'[t] = late[t] + 1
    BY <1>1, <1>4 DEF StepsRest
  <2>2. late[t] = 0
    BY <1>1, <2>1 DEF LivesOnce
  <2>3. row.state \in Active /\ row.ledger.run = t /\ runner[t].rid # 0
    BY <2>1, Holder DEF Held, Executing, Exclusive, RunnersBegun
  <2>4. runner[t].rid = t
    BY <2>1, <2>3, Holder DEF Held, Executing
  <2> QED BY <1>2, <2>1, <2>2, <2>3, <2>4 DEF HoldsTask
<1>5. LivesOnce(t)'
  <2>1. pc[t] # "none" /\ pc'[t] # "none"
    BY <1>1 DEF StepsRest
  <2>2. late'[t] <= 1
    BY <1>1, <1>3, <1>4 DEF LivesOnce
  <2>3. late'[t] = 1 => pc'[t] \notin {"none", "go", "allocated"} /\ row'.cancel
    BY <1>3, <1>4
  <2>4. ~(t > started)
    BY <1>1, <2>1 DEF LivesOnce
  <2> QED BY <1>2, <2>1, <2>2, <2>3, <2>4 DEF LivesOnce
<1>6. ASSUME NEW u \in Runs \ {t}
      PROVE  LivesOnce(u)'
  <2>1. LivesOnce(u) /\ pc'[u] = pc[u] /\ late'[u] = late[u]
    BY <1>1 DEF LiveOnce, StepsRest
  <2> QED BY <1>2, <2>1 DEF LivesOnce
<1>7. ASSUME NEW q \in Requests, req[q].at = "committed"
      PROVE  pc'[req[q].run] = "none" /\ req[q].run <= started
  <2>1. req[q].run \in Runs /\ pc[req[q].run] = "none" /\ req[q].run <= started
    BY <1>7 DEF LiveOnce, Exclusive, StartsAlone
  <2>2. req[q].run # t
    BY <1>1, <2>1 DEF StepsRest
  <2> QED BY <1>1, <2>1, <2>2 DEF StepsRest
<1> QED BY <1>2, <1>5, <1>6, <1>7 DEF LiveOnce

LEMMA LiveOnceRequest ==
  ASSUME TypeOK, Exclusive, LiveOnce, NEW q \in Requests,
         Resume(q) \/ \E s \in Servers : Handler(q, s)
  PROVE  LiveOnce'
<1>0. /\ req \in [Requests -> Request] /\ req[q] \in Request /\ row \in Row
      /\ NoRequest.at = "idle" /\ pc \in [Runs -> Pc] /\ srv \in [Runs -> Servers \cup {NoServer}]
      /\ started \in Nat
      /\ \A p \in Requests : req[p].at = "committed" => req[p].run \in Runs
  BY FieldTypes DEF TypeOK, NoRequest, Exclusive, StartsAlone
<1>1. ASSUME UNCHANGED <<started, late, srv, pc>>, row.cancel => row'.cancel,
             NEW new, new.at # "committed", req' = [req EXCEPT ![q] = new]
      PROVE  LiveOnce'
  <2>1. \A p \in Requests : req'[p].at = "committed" => req'[p] = req[p]
    BY <1>0, <1>1
  <2> QED BY <1>0, <1>1, <2>1, LiveOnceKept
<1>2. ASSUME NEW s \in Servers, NEW op \in {"start", "continue"}, StartCommit(q, s, op)
      PROVE  LiveOnce'
  <2>1. /\ started' = started + 1 /\ started < MaxRuns
        /\ req' = [req EXCEPT ![q] = [at |-> "committed", op |-> op, srv |-> s,
                                      snap |-> row', run |-> started + 1]]
        /\ UNCHANGED <<pc, srv, late>>
    BY <1>2 DEF StartCommit, threads, history
  <2>2. \A t \in Runs : pc[t] \notin Held
    BY <1>2, StartFindsNone
  <2>3. \A p \in Requests : req[p].at # "committed"
    BY <1>2, StartFindsNone
  <2>4. \A t \in Runs : LivesOnce(t)'
    BY <1>0, <2>1, <2>2 DEF LiveOnce, LivesOnce
  <2>5. pc[started + 1] = "none"
    BY <1>0, <2>1 DEF LiveOnce, LivesOnce
  <2>6. ASSUME NEW p \in Requests, req'[p].at = "committed" PROVE pc'[req'[p].run] = "none" /\ req'[p].run <= started'
    BY <1>0, <2>1, <2>3, <2>5, <2>6
  <2> QED BY <2>4, <2>6 DEF LiveOnce
<1>3. CASE Register(q)
  <2> DEFINE t == req[q].run
  <2>1. /\ req[q].at = "committed" /\ pc' = [pc EXCEPT ![t] = "ready"]
        /\ srv' = [srv EXCEPT ![t] = req[q].srv] /\ req' = [req EXCEPT ![q] = NoRequest]
        /\ UNCHANGED <<row, started, late>>
    BY <1>3 DEF Register, Done, history
  <2>2. t \in Runs /\ pc[t] = "none" /\ \A p \in Requests : req[p].at = "committed" => p = q
    BY <1>0, <2>1, StartHolder DEF LiveOnce
  <2> HIDE DEF t
  <2>3. ASSUME NEW u \in Runs PROVE LivesOnce(u)'
    <3>1. LivesOnce(u)
      BY DEF LiveOnce
    <3>2. CASE u = t
      <4>1. late[t] # 1 /\ ~(t > started)
        BY <1>0, <2>1, <2>2, <3>1, <3>2 DEF LivesOnce, LiveOnce, t
      <4> QED BY <1>0, <2>1, <2>2, <3>1, <3>2, <4>1 DEF LivesOnce
    <3>3. CASE u # t
      BY <1>0, <2>1, <2>2, <3>1, <3>3 DEF LivesOnce
    <3> QED BY <3>2, <3>3
  <2>4. \A p \in Requests : req'[p].at # "committed"
    BY <1>0, <2>1, <2>2
  <2> QED BY <2>3, <2>4 DEF LiveOnce
<1>4. CASE Refuse(q) \/ RegisterFails(q) \/ CancelEvent(q)
  <2>1. /\ UNCHANGED <<started, late, srv, pc>> /\ req' = [req EXCEPT ![q] = NoRequest]
        /\ \/ row' = row
           \/ row' = [row EXCEPT !.state = "failed_partial", !.ledger = req[q].snap.ledger]
    BY <1>4 DEF Refuse, RegisterFails, CancelEvent, Done, threads, history
  <2>2. row'.cancel = row.cancel
    BY <1>0, <2>1 DEF Row
  <2> QED BY <1>0, <1>1, <2>1, <2>2
<1>5. ASSUME NEW s \in Servers, NEW op \in Operations, Load(q, s, op) PROVE LiveOnce'
  <2> DEFINE new == [at |-> "loaded", op |-> op, srv |-> s, snap |-> row, run |-> 0]
  <2>1. new.at # "committed" /\ req' = [req EXCEPT ![q] = new] /\ UNCHANGED <<started, late, srv, pc, row>>
    BY <1>5 DEF Load, threads, history
  <2> HIDE DEF new
  <2> QED BY <1>1, <2>1
<1>6. ASSUME NEW s \in Servers, AdmitContinue(q, s) \/ RecoverDecide(q, s) PROVE LiveOnce'
  <2>1. PICK at \in {"admitted", "decided"} : req' = [req EXCEPT ![q] = [req[q] EXCEPT !.at = at]]
    BY <1>6 DEF AdmitContinue, RecoverDecide
  <2>2. [req[q] EXCEPT !.at = at].at # "committed"
    BY <1>0, <2>1 DEF Request
  <2>3. UNCHANGED <<started, late, srv, pc, row>>
    BY <1>6 DEF AdmitContinue, RecoverDecide, threads, history
  <2> QED BY <1>1, <2>1, <2>2, <2>3
<1>7. ASSUME NEW s \in Servers, CancelCommit(q, s) PROVE LiveOnce'
  <2> DEFINE new == [req[q] EXCEPT !.at = "cancelled", !.op = "cancel", !.srv = s]
  <2>1. new.at # "committed" /\ req' = [req EXCEPT ![q] = new]
    BY <1>0, <1>7 DEF CancelCommit, Request
  <2>2. UNCHANGED <<started, late, srv, pc>> /\ (row.cancel => row'.cancel)
    BY <1>0, <1>7 DEF CancelCommit, Row, threads, history
  <2> HIDE DEF new
  <2> QED BY <1>1, <2>1, <2>2
<1>8. ASSUME NEW s \in Servers, RecoverCommit(q, s) \/ Reconcile(q, s) \/ Authorize(q, s)
      PROVE  LiveOnce'
  <2>1. UNCHANGED <<started, late, srv, pc>> /\ req' = [req EXCEPT ![q] = NoRequest]
        /\ row'.cancel = row.cancel
    BY <1>0, <1>8 DEF RecoverCommit, Reconcile, Authorize, Done, Row, threads, history
  <2> QED BY <1>0, <1>1, <2>1
<1> QED BY <1>2, <1>3, <1>4, <1>5, <1>6, <1>7, <1>8 DEF Resume, Handler

LEMMA LiveOnceStep == TypeOK /\ Exclusive /\ LiveOnce /\ [Next]_vars => LiveOnce'
<1> SUFFICES ASSUME TypeOK, Exclusive, LiveOnce, [Next]_vars PROVE LiveOnce'
  OBVIOUS
<1>0. \A q \in Requests : req[q].at = "committed" => req[q].run \in Runs
  BY DEF Exclusive, StartsAlone
<1>1. CASE UNCHANGED vars
  BY <1>0, <1>1, LiveOnceKept DEF vars, threads, history
<1>2. ASSUME NEW s \in Servers, Boot(s) \/ Shutdown(s) PROVE LiveOnce'
  BY <1>0, <1>2, LiveOnceKept DEF Boot, Shutdown, threads, history
<1>3. ASSUME NEW r \in Runs, Tick(r) PROVE LiveOnce'
  BY <1>0, <1>3, LiveOnceKept DEF Tick, threads, history
<1>4. ASSUME NEW s \in Servers, Crash(s) PROVE LiveOnce'
  <2>1. /\ \A t \in Runs : pc'[t] = pc[t] \/ (pc'[t] = "dead" /\ srv[t] = s)
        /\ \A q \in Requests : req'[q] = req[q] \/ req'[q] = NoRequest
        /\ UNCHANGED <<row, started, late, srv>> /\ s # NoServer
    BY <1>4 DEF Crash, history
  <2>2. \A t \in Runs : srv[t] = s => pc[t] # "none"
    BY <2>1 DEF LiveOnce, LivesOnce
  <2> QED BY <1>0, <2>1, <2>2, LiveOnceKept DEF NoRequest
<1>5. ASSUME NEW q \in Requests, Resume(q) \/ \E s \in Servers : Handler(q, s) PROVE LiveOnce'
  BY <1>5, LiveOnceRequest
<1>6. ASSUME NEW t \in Runs, Worker(t) PROVE LiveOnce'
  BY <1>6, LiveOnceWorker
<1> QED BY <1>1, <1>2, <1>3, <1>4, <1>5, <1>6 DEF Next

(* After a cancellation, a recovery or a deadline one operation at most is *)
(* still dispatched: of any task that is never continued, however slow,    *)
(* crowded or stale its processes and requests; and of one that is, until  *)
(* a handler changes a task it had not seen.                               *)
THEOREM OneLateDispatchHolds ==
  ASSUME ~Overlap \/ "continue" \notin Offered
  PROVE  Spec => [](~stale \/ "continue" \notin Offered => OneLateDispatch)
<1>1. CASE "continue" \notin Offered
  <2>1. OneRun => OneLateDispatch
    BY DEF OneRun, SoundThread, OneLateDispatch
  <2>2. TypeOK /\ OneRun /\ [Next]_vars => OneRun'
    BY <1>1, OneRunStep
  <2> QED BY <2>1, <2>2, OneRunInit, TypesHold, PTL DEF Spec
<1>2. CASE "continue" \in Offered
  <2>1. LiveOnce => OneLateDispatch
    BY DEF LiveOnce, LivesOnce, OneLateDispatch
  <2>2. Spec => [](~stale => Exclusive)
    BY <1>2, ExclusiveHolds
  <2>3. TypeOK /\ (~stale => Exclusive) /\ (~stale => LiveOnce) /\ [Next]_vars =>
          (~stale => LiveOnce)'
    BY LiveOnceStep, StaleStays
  <2>4. Spec => [](~stale => OneLateDispatch)
    BY <2>1, <2>2, <2>3, LiveOnceInit, TypesHold, PTL DEF Spec
  <2>5. (~stale => OneLateDispatch) => (~stale \/ "continue" \notin Offered => OneLateDispatch)
    BY <1>2
  <2> QED BY <2>4, <2>5, PTL
<1> QED BY <1>1, <1>2
=============================================================================
