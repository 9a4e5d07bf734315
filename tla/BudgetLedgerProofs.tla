------------------------- MODULE BudgetLedgerProofs -------------------------
(***************************************************************************)
(* Proofs about BudgetLedger, for every number of operations and runs and  *)
(* every choice of allowances, limits and authorizations.                  *)
(***************************************************************************)
EXTENDS BudgetLedger, SumTheorems

-----------------------------------------------------------------------------
(* Types.                                                                  *)

(* The fields of the records the steps change, and what they stay in.      *)
LEMMA Fields ==
  ASSUME TypeOK
  PROVE  /\ \A o \in Op : live[o] \in Allocation /\ row.alloc[o] \in Allocation
         /\ row.run \in 1 .. MaxRuns /\ row.alloc \in [Op -> Allocation]
         /\ Idle \in [op : 0 .. MaxOps, key : Keys \cup {NoKey}]
         /\ NoAllocation \in Allocation
         /\ \A alloc \in [Op -> Allocation] : [row EXCEPT !.alloc = alloc] \in Row
<1>1. \A alloc \in [Op -> Allocation] : [row EXCEPT !.alloc = alloc] \in Row
  BY DEF TypeOK, Row
<1>2. NoAllocation \in Allocation
  BY BudgetAssumptions DEF NoAllocation, Allocation
<1>3. Idle \in [op : 0 .. MaxOps, key : Keys \cup {NoKey}]
  BY BudgetAssumptions DEF Idle
<1> QED BY <1>1, <1>2, <1>3 DEF TypeOK, Row

(* Saving a well-typed list keeps both copies well typed.                  *)
LEMMA SaveTypes ==
  ASSUME TypeOK, NEW alloc \in [Op -> Allocation], Save(alloc)
  PROVE  row' \in Row /\ live' \in [Op -> Allocation]
BY Fields DEF Save

LEMMA InitTypes == Init => TypeOK
<1> SUFFICES ASSUME Init PROVE TypeOK
  OBVIOUS
<1>1. NoAllocation \in Allocation
  BY BudgetAssumptions DEF NoAllocation, Allocation
<1>2. row \in Row
  BY <1>1, BudgetAssumptions DEF Init, Row
<1> QED BY <1>1, <1>2, BudgetAssumptions DEF Init, TypeOK, Idle, Steps

LEMMA ControllerTypes ==
  ASSUME TypeOK, Controller
  PROVE  TypeOK'
<1>0. /\ \A o \in Op : live[o] \in Allocation /\ row.alloc[o] \in Allocation
      /\ row.run \in 1 .. MaxRuns /\ row.alloc \in [Op -> Allocation]
      /\ Idle \in [op : 0 .. MaxOps, key : Keys \cup {NoKey}]
      /\ NoAllocation \in Allocation
      /\ \A alloc \in [Op -> Allocation] : [row EXCEPT !.alloc = alloc] \in Row
      /\ live \in [Op -> Allocation]
  BY Fields DEF TypeOK
<1>1. ASSUME NEW o \in Op, NEW k \in Keys, NEW n \in Allowances, Reserve(o, k, n)
      PROVE  TypeOK'
  <2>1. [NoAllocation EXCEPT !.run = row.run, !.reserved = n] \in Allocation
    <3>1. n \in Nat /\ row.run \in 0 .. MaxRuns
      BY <1>0, BudgetAssumptions
    <3> QED BY <1>0, <3>1 DEF Allocation
  <2>2. [live EXCEPT ![o] = [NoAllocation EXCEPT !.run = row.run, !.reserved = n]]
          \in [Op -> Allocation]
    BY <1>0, <2>1
  <2>3. row' \in Row /\ live' \in [Op -> Allocation]
    BY <1>1, <2>2, SaveTypes DEF Reserve
  <2> QED BY <1>1, <2>3 DEF Reserve, TypeOK, world, Op
<1>2. ASSUME NEW o \in Op, Intend(o)
      PROVE  TypeOK'
  <2>1. pend.key \in Keys \cup {NoKey}
    BY DEF TypeOK
  <2>2. [live[o] EXCEPT !.key = pend.key, !.state = "open"] \in Allocation
    BY <1>0, <2>1 DEF Allocation, Unresolved
  <2>3. live' \in [Op -> Allocation]
    BY <1>0, <1>2, <2>2 DEF Intend
  <2>4. row \in Row /\ (row' = [row EXCEPT !.alloc = live'] \/ row' = row)
    BY <1>2 DEF Intend, TypeOK
  <2>5. row' \in Row
    BY <2>3, <2>4 DEF Row
  <2> QED BY <1>0, <1>2, <2>3, <2>5 DEF Intend, TypeOK, world
<1>3. ASSUME NEW o \in Op, HandOver(o)
      PROVE  TypeOK'
  BY <1>0, <1>3 DEF HandOver, TypeOK, Steps
<1>4. ASSUME NEW o \in Op, NotDispatched(o)
      PROVE  TypeOK'
  <2>1. [live[o] EXCEPT !.state = "not_attempted", !.final = TRUE] \in Allocation
    BY <1>0 DEF Allocation, Resolved
  <2>2. [live EXCEPT ![o].state = "not_attempted", ![o].final = TRUE] \in [Op -> Allocation]
    BY <1>0, <2>1
  <2>3. row' \in Row /\ live' \in [Op -> Allocation]
    BY <1>4, <2>2, SaveTypes DEF NotDispatched
  <2> QED BY <1>0, <1>4, <2>3 DEF NotDispatched, TypeOK, world, MayStop
<1>5. CASE Stop
  BY <1>0, <1>5 DEF Stop, TypeOK, world
<1>6. CASE Unexpected
  BY <1>0, <1>6 DEF Unexpected, TypeOK, world
<1>7. CASE Finish
  BY <1>0, <1>7 DEF Finish, TypeOK, world
<1>8. CASE Crash
  BY <1>0, <1>8 DEF Crash, TypeOK, world
<1> QED BY <1>1, <1>2, <1>3, <1>4, <1>5, <1>6, <1>7, <1>8 DEF Controller

LEMMA ClientTypes ==
  ASSUME TypeOK, Client
  PROVE  TypeOK'
<1>0. /\ \A o \in Op : row.alloc[o] \in Allocation
      /\ row \in Row /\ row.alloc \in [Op -> Allocation]
  BY Fields DEF TypeOK
<1>1. ASSUME NEW limit \in Grants, NEW retry \in BOOLEAN, Continue(limit, retry)
      PROVE  TypeOK'
  <2>1. row.run + 1 \in 1 .. MaxRuns /\ limit \in Nat
    BY <1>0, <1>1, BudgetAssumptions DEF Continue, Row
  <2>2. row' \in Row
    BY <1>0, <1>1, <2>1 DEF Continue, Row
  <2> QED BY <1>1, <2>2 DEF Continue, TypeOK, world
<1>2. ASSUME NEW ceiling \in Ceilings, NEW attempts \in AttemptGrants,
             Authorize(ceiling, attempts)
      PROVE  TypeOK'
  <2>1. row' \in Row
    BY <1>0, <1>2, BudgetAssumptions DEF Authorize, Row
  <2> QED BY <1>2, <2>1 DEF Authorize, TypeOK, world
<1>3. CASE Reconcile
  <2>1. \A o \in Op : [row.alloc[o] EXCEPT !.final = TRUE] \in Allocation
    BY <1>0 DEF Allocation
  <2>2. row' \in Row /\ live' \in [Op -> Allocation]
    <3> DEFINE held == {o \in Ours(row.alloc) : ~row.alloc[o].final}
               alloc == [o \in Op |-> IF o \in held THEN [row.alloc[o] EXCEPT !.final = TRUE]
                                      ELSE row.alloc[o]]
    <3>1. alloc \in [Op -> Allocation]
      BY <1>0, <2>1
    <3>2. Save(alloc)
      BY <1>3 DEF Reconcile
    <3> QED BY <3>1, <3>2, SaveTypes
  <2> QED BY <1>3, <2>2 DEF Reconcile, TypeOK, world
<1> QED BY <1>1, <1>2, <1>3 DEF Client

LEMMA WorkerTypes ==
  ASSUME TypeOK, NEW o \in Op, WorkerStep(o)
  PROVE  TypeOK'
<1>1. CASE Begin(o) \/ RejectLocally(o)
  BY <1>1 DEF Begin, RejectLocally, TypeOK, Steps
<1>2. CASE Burn(o)
  BY <1>2, BudgetAssumptions DEF Burn, TypeOK
<1>3. CASE CompleteTurn(o)
  BY <1>3 DEF CompleteTurn, TypeOK, Steps
<1> QED BY <1>1, <1>2, <1>3 DEF WorkerStep

LEMMA EventTypes ==
  ASSUME TypeOK, NEW o \in Op, Event(o)
  PROVE  TypeOK'
<1>a. \A r \in Allocation, n \in Nat : Measured(r, n) \in Allocation
  BY DEF Measured, Allocation
<1>b. spent[o] \in Nat
  BY BudgetAssumptions DEF TypeOK
<1>0. /\ live \in [Op -> Allocation] /\ live[o] \in Allocation /\ spent[o] \in Nat
      /\ \A r \in Allocation, n \in Nat : Measured(r, n) \in Allocation
      /\ \A alloc \in [Op -> Allocation] : [row EXCEPT !.alloc = alloc] \in Row
  BY <1>a, <1>b, Fields DEF TypeOK
<1>1. ASSUME NEW n \in 1 .. MaxSpend, Usage(o, n)
      PROVE  TypeOK'
  <2>1. [live EXCEPT ![o] = Measured(@, n)] \in [Op -> Allocation]
    BY <1>0, BudgetAssumptions
  <2>2. row' \in Row /\ live' \in [Op -> Allocation]
    BY <1>1, <2>1, SaveTypes DEF Usage
  <2>3. mode' \in {"running", "draining", "stopped"}
    BY <1>1 DEF Usage, Stops, MayStop, TypeOK
  <2> QED BY <1>1, <2>2, <2>3 DEF Usage, TypeOK, world
<1>2. CASE FinalUsage(o)
  <2>1. [Measured(live[o], spent[o]) EXCEPT !.final = TRUE] \in Allocation
    BY <1>0 DEF Allocation
  <2>2. [live EXCEPT ![o] = [Measured(@, spent[o]) EXCEPT !.final = TRUE]] \in [Op -> Allocation]
    BY <1>0, <2>1
  <2>3. row' \in Row /\ live' \in [Op -> Allocation]
    BY <1>2, <2>2, SaveTypes DEF FinalUsage
  <2>4. mode' \in {"running", "draining", "stopped"}
    BY <1>2 DEF FinalUsage, Stops, MayStop, TypeOK
  <2> QED BY <1>2, <2>3, <2>4 DEF FinalUsage, TypeOK, world
<1>3. CASE Settle(o)
  <2>1. [live[o] EXCEPT !.state = "returned"] \in Allocation
    BY <1>0 DEF Allocation, Resolved
  <2>2. live' \in [Op -> Allocation]
    BY <1>0, <1>3, <2>1 DEF Settle
  <2>3. row' \in Row
    BY <1>0, <1>3, <2>2 DEF Settle, TypeOK
  <2> QED BY <1>3, <2>2, <2>3 DEF Settle, TypeOK, world, MayStop
<1>4. CASE Failed(o)
  <2>1. [live[o] EXCEPT !.state = "failed", !.final = @ \/ worker[o] = "refused"] \in Allocation
    BY <1>0 DEF Allocation, Resolved
  <2>2. [live EXCEPT ![o].state = "failed", ![o].final = @ \/ worker[o] = "refused"]
          \in [Op -> Allocation]
    BY <1>0, <2>1
  <2>3. row' \in Row /\ live' \in [Op -> Allocation]
    BY <1>4, <2>2, SaveTypes DEF Failed
  <2> QED BY <1>4, <2>3 DEF Failed, TypeOK, world, MayStop
<1>5. CASE LimitedLocally(o)
  <2>1. [live[o] EXCEPT !.state = "not_attempted", !.final = TRUE] \in Allocation
    BY <1>0 DEF Allocation, Resolved
  <2>2. [live EXCEPT ![o].state = "not_attempted", ![o].final = TRUE] \in [Op -> Allocation]
    BY <1>0, <2>1
  <2>3. row' \in Row /\ live' \in [Op -> Allocation]
    BY <1>5, <2>2, SaveTypes DEF LimitedLocally
  <2> QED BY <1>5, <2>3 DEF LimitedLocally, TypeOK, world, MayStop
<1> QED BY <1>1, <1>2, <1>3, <1>4, <1>5 DEF Event

LEMMA StepTypes ==
  ASSUME TypeOK, [Next]_vars
  PROVE  TypeOK'
<1>1. CASE Next
  BY <1>1, ControllerTypes, ClientTypes, WorkerTypes, EventTypes DEF Next
<1>2. CASE UNCHANGED vars
  BY <1>2 DEF vars, TypeOK
<1> QED BY <1>1, <1>2

(* The durable ledger, the runner's copy and the workers stay well typed.  *)
THEOREM BudgetTypesHold == Spec => []TypeOK
<1>1. Init => TypeOK
  BY InitTypes
<1>2. TypeOK /\ [Next]_vars => TypeOK'
  BY StepTypes
<1> QED BY <1>1, <1>2, PTL DEF Spec

-----------------------------------------------------------------------------
(* The invariant behind the other properties.                              *)

LEMMA InitSound == Init => Sound
<1> SUFFICES ASSUME Init PROVE Sound
  OBVIOUS
<1>1. \A o \in Op : /\ live[o] = NoAllocation /\ row.alloc[o] = NoAllocation
                    /\ worker[o] = "idle" /\ spent[o] = 0
  BY DEF Init
<1>2. pend = Idle
  BY DEF Init
<1> QED BY <1>1, <1>2 DEF Sound, AmountsSaved, FinalIsOver, NoTurnNoTokens,
            SentIsRecorded, ResolvedIsAnswered, AdmissionStands, Sent, NoAllocation,
            Resolved, Amounts

(* What saving a list with one new allocation does, operation by operation.*)
LEMMA SaveAt ==
  ASSUME TypeOK, NEW o \in Op, NEW r \in Allocation, Save([live EXCEPT ![o] = r])
  PROVE  /\ live' \in [Op -> Allocation]
         /\ row'.alloc = live' /\ live'[o] = r
         /\ \A p \in Op \ {o} : live'[p] = live[p]
         /\ row'.run = row.run /\ row'.retry = row.retry /\ row'.attempts = row.attempts
BY DEF Save, TypeOK, Row

(* A saved list needs to be right only where it changed.                   *)
LEMMA SaveKeepsSound ==
  ASSUME TypeOK, Sound, NEW o \in Op, NEW r \in Allocation,
         Save([live EXCEPT ![o] = r]), pend' = Idle,
         UNCHANGED <<worker, spent>>, answered \subseteq answered',
         live[o].run # 0 /\ r.run = live[o].run,
         r.key = live[o].key, r.state # "none" \/ r.state = live[o].state,
         r.final => r.actual = spent[o] /\ worker[o] \notin {"queued", "turn"},
         worker[o] \in {"idle", "queued", "refused"} => r.actual = 0,
         r.state \in Resolved /\ Sent(o) => o \in answered' \/ r.state = live[o].state,
         r.state = "not_attempted" => worker[o] \in {"idle", "refused"}
  PROVE  Sound'
<1>0. /\ row'.alloc = live' /\ live'[o] = r
      /\ \A p \in Op \ {o} : live'[p] = live[p]
  BY SaveAt
<1>p. pend'.op = 0 /\ 0 \notin Op
  BY DEF Idle, Op
<1>1. AmountsSaved'
  BY <1>0 DEF AmountsSaved, Amounts
<1>2. FinalIsOver'
  BY <1>0, <1>p DEF Sound, FinalIsOver
<1>3. NoTurnNoTokens'
  BY <1>0 DEF Sound, NoTurnNoTokens
<1>4. SentIsRecorded'
  BY <1>0, <1>p DEF Sound, SentIsRecorded, Sent
<1>5. ResolvedIsAnswered'
  <2> SUFFICES ASSUME NEW p \in Op
               PROVE  /\ live'[p].state \in Resolved /\ Sent(p)' => p \in answered'
                      /\ live'[p].state = "not_attempted" => worker'[p] \in {"idle", "refused"}
    BY <1>0, <1>p DEF ResolvedIsAnswered
  <2>1. CASE p = o
    BY <1>0, <2>1 DEF Sound, ResolvedIsAnswered, Sent
  <2>2. CASE p # o
    BY <1>0, <2>2 DEF Sound, ResolvedIsAnswered, Sent
  <2> QED BY <2>1, <2>2
<1>6. AdmissionStands'
  BY DEF AdmissionStands, Idle
<1> QED BY <1>1, <1>2, <1>3, <1>4, <1>5, <1>6 DEF Sound

LEMMA EventSound ==
  ASSUME TypeOK, Sound, NEW o \in Op, Event(o)
  PROVE  Sound'
<1>0. /\ live \in [Op -> Allocation] /\ live[o] \in Allocation /\ spent[o] \in Nat
      /\ pend = Idle /\ pend' = Idle
      /\ \A r \in Allocation, n \in Nat : Measured(r, n) \in Allocation
  <2>1. \A r \in Allocation, n \in Nat : Measured(r, n) \in Allocation
    BY DEF Measured, Allocation
  <2>2. pend = Idle /\ pend' = Idle
    BY DEF Event, Usage, FinalUsage, Settle, Failed, LimitedLocally, Listening
  <2> QED BY <2>1, <2>2, BudgetAssumptions, Fields DEF TypeOK
<1>1. /\ UNCHANGED <<worker, spent>> /\ answered \subseteq answered'
      /\ worker[o] \in Steps
  BY DEF Event, Usage, FinalUsage, Settle, Failed, LimitedLocally, world, TypeOK
<1>2. Sent(o) => live[o].run # 0 /\ live[o].state # "none"
  BY DEF Sound, SentIsRecorded
<1>3. /\ live[o].final => live[o].actual = spent[o] /\ worker[o] \notin {"queued", "turn"}
      /\ worker[o] \in {"idle", "queued", "refused"} => spent[o] = 0 /\ live[o].actual = 0
      /\ live[o].state = "not_attempted" => worker[o] \in {"idle", "refused"}
  BY DEF Sound, FinalIsOver, NoTurnNoTokens, ResolvedIsAnswered
<1>4. ASSUME NEW n \in 1 .. MaxSpend, Usage(o, n)
      PROVE  Sound'
  <2> DEFINE r == Measured(live[o], n)
  <2>1. r \in Allocation /\ Save([live EXCEPT ![o] = r])
    BY <1>0, <1>4, BudgetAssumptions DEF Usage
  <2>2. /\ worker[o] \in {"turn", "complete"} /\ ~live[o].final
        /\ r.run = live[o].run /\ r.key = live[o].key /\ r.state = live[o].state
        /\ r.final = live[o].final
    BY <1>0, <1>4 DEF Usage, Measured, Allocation
  <2> QED BY <1>0, <1>1, <1>2, <1>3, <2>1, <2>2, SaveKeepsSound DEF Sent
<1>5. CASE FinalUsage(o)
  <2> DEFINE r == [Measured(live[o], spent[o]) EXCEPT !.final = TRUE]
  <2>1. r \in Allocation
    BY <1>0 DEF Allocation, Measured
  <2>2. Save([live EXCEPT ![o] = r]) /\ worker[o] = "complete"
    BY <1>5 DEF FinalUsage
  <2>3. /\ r.run = live[o].run /\ r.key = live[o].key /\ r.state = live[o].state
        /\ r.actual = spent[o]
    BY <1>0 DEF Measured, Allocation
  <2> QED BY <1>0, <1>1, <1>2, <1>3, <2>1, <2>2, <2>3, SaveKeepsSound DEF Sent
<1>6. CASE Settle(o)
  <2> DEFINE r == [live[o] EXCEPT !.state = "returned"]
  <2>1. /\ r \in Allocation /\ r.run = live[o].run /\ r.key = live[o].key
        /\ r.reserved = live[o].reserved /\ r.actual = live[o].actual
        /\ r.final = live[o].final /\ r.state = "returned"
    BY <1>0 DEF Allocation, Resolved
  <2>2. /\ live' = [live EXCEPT ![o] = r] /\ o \in answered'
        /\ worker[o] \in {"complete", "silent"}
    BY <1>6 DEF Settle
  <2>3. live[o].run # 0
    BY <1>2, <2>2 DEF Sent
  <2>4. CASE row' = [row EXCEPT !.alloc = live']
    <3>1. Save([live EXCEPT ![o] = r])
      BY <2>2, <2>4 DEF Save
    <3> QED BY <1>0, <1>1, <1>3, <2>1, <2>2, <2>3, <3>1, SaveKeepsSound
  <2>5. CASE UNCHANGED row
    <3>0. live'[o] = r /\ \A p \in Op \ {o} : live'[p] = live[p]
      BY <1>0, <2>2
    <3>p. pend.op = 0 /\ 0 \notin Op /\ pend'.op = 0
      BY <1>0 DEF Idle, Op
    <3>1. AmountsSaved'
      BY <2>1, <2>5, <3>0, ZenonT(30) DEF Sound, AmountsSaved, Amounts
    <3>a. \A p \in Op : /\ live'[p].final = live[p].final /\ live'[p].actual = live[p].actual
                        /\ live'[p].run = live[p].run /\ live'[p].key = live[p].key
                        /\ live[p].state # "none" => live'[p].state # "none"
      BY <2>1, <3>0
    <3>b. worker' = worker /\ spent' = spent
      BY <1>1
    <3>2. FinalIsOver'
      <4> SUFFICES ASSUME NEW p \in Op, live'[p].final
                   PROVE  live'[p].actual = spent[p] /\ worker[p] \notin {"queued", "turn"}
        BY <3>b, <3>p DEF FinalIsOver
      <4> QED BY <3>a DEF Sound, FinalIsOver
    <3>c. NoTurnNoTokens'
      <4> SUFFICES ASSUME NEW p \in Op, worker[p] \in {"idle", "queued", "refused"}
                   PROVE  spent[p] = 0 /\ live'[p].actual = 0
        BY <3>b DEF NoTurnNoTokens
      <4> QED BY <3>a DEF Sound, NoTurnNoTokens
    <3>3. SentIsRecorded'
      <4> SUFFICES ASSUME NEW p \in Op, Sent(p)
                   PROVE  /\ live'[p].run # 0 /\ live'[p].key = row.alloc[p].key
                          /\ live'[p].state # "none" /\ row.alloc[p].state # "none"
        BY <2>5, <3>b, <3>p DEF SentIsRecorded, Sent
      <4> QED BY <3>a DEF Sound, SentIsRecorded
    <3>4. ResolvedIsAnswered'
      <4> SUFFICES ASSUME NEW p \in Op, NEW q \in {live'[p], row.alloc[p]}
                   PROVE  /\ q.state \in Resolved /\ Sent(p)' => p \in answered'
                          /\ q.state = "not_attempted" => worker'[p] \in {"idle", "refused"}
        BY <2>5, <3>p DEF ResolvedIsAnswered
      <4>1. CASE p = o /\ q = live'[p]
        BY <4>1, <2>1, <2>2, <3>0
      <4>2. CASE p = o /\ q = row.alloc[p]
        BY <4>2, <1>1, <2>2 DEF Sound, ResolvedIsAnswered, Sent
      <4>3. CASE p # o
        BY <4>3, <1>1, <3>0 DEF Sound, ResolvedIsAnswered, Sent
      <4> QED BY <4>1, <4>2, <4>3
    <3>5. AdmissionStands'
      BY <1>0 DEF AdmissionStands
    <3> QED BY <3>1, <3>2, <3>c, <3>3, <3>4, <3>5 DEF Sound
  <2> QED BY <1>6, <2>4, <2>5 DEF Settle
<1>7. CASE Failed(o)
  <2> DEFINE r == [live[o] EXCEPT !.state = "failed", !.final = @ \/ worker[o] = "refused"]
  <2>1. r \in Allocation
    BY <1>0 DEF Allocation, Resolved
  <2>2. /\ Save([live EXCEPT ![o] = r]) /\ o \in answered'
        /\ worker[o] \in {"refused", "turn", "complete", "silent"}
    BY <1>7 DEF Failed
  <2>3. /\ r.run = live[o].run /\ r.key = live[o].key /\ r.state = "failed"
        /\ r.actual = live[o].actual /\ r.final = (live[o].final \/ worker[o] = "refused")
    BY <1>0 DEF Allocation
  <2>4. r.final => r.actual = spent[o] /\ worker[o] \notin {"queued", "turn"}
    BY <1>3, <2>3
  <2>5. live[o].run # 0
    BY <1>2, <2>2 DEF Sent
  <2>6. worker[o] \in {"idle", "queued", "refused"} => r.actual = 0
    BY <1>3, <2>3
  <2> QED BY <1>0, <1>1, <2>1, <2>2, <2>3, <2>4, <2>5, <2>6, SaveKeepsSound
<1>8. CASE LimitedLocally(o)
  <2> DEFINE r == [live[o] EXCEPT !.state = "not_attempted", !.final = TRUE]
  <2>1. r \in Allocation
    BY <1>0 DEF Allocation, Resolved
  <2>2. /\ Save([live EXCEPT ![o] = r]) /\ o \in answered' /\ worker[o] = "refused"
    BY <1>8 DEF LimitedLocally
  <2>3. /\ r.run = live[o].run /\ r.key = live[o].key /\ r.state = "not_attempted"
        /\ r.actual = live[o].actual /\ r.final
    BY <1>0 DEF Allocation
  <2> QED BY <1>0, <1>1, <1>2, <1>3, <2>1, <2>2, <2>3, SaveKeepsSound DEF Sent
<1> QED BY <1>4, <1>5, <1>6, <1>7, <1>8 DEF Event

LEMMA ClientSound ==
  ASSUME TypeOK, Sound, Client
  PROVE  Sound'
<1>0. pend = Idle
  <2>1. mode = "stopped"
    BY DEF Client, Continue, Authorize, Reconcile
  <2> QED BY <2>1 DEF Sound, AdmissionStands
<1>p. /\ pend' = Idle /\ pend'.op = 0 /\ worker' = worker /\ spent' = spent /\ answered' = answered
      /\ pend.op = 0 /\ 0 \notin Op
  <2>1. UNCHANGED <<pend, calls, world, answered>>
    BY DEF Client, Continue, Authorize, Reconcile
  <2>2. Idle.op = 0 /\ 0 \notin Op
    BY DEF Idle, Op
  <2> QED BY <1>0, <2>1, <2>2 DEF world
<1>1. CASE row'.alloc = row.alloc /\ live' = live
  BY <1>1, <1>p DEF Sound, AmountsSaved, FinalIsOver, NoTurnNoTokens, SentIsRecorded,
                    ResolvedIsAnswered, AdmissionStands, Sent
<1>2. ASSUME NEW limit \in Grants, NEW retry \in BOOLEAN, Continue(limit, retry)
      PROVE  Sound'
  BY <1>1, <1>2 DEF Continue, TypeOK, Row
<1>3. ASSUME NEW ceiling \in Ceilings, NEW attempts \in AttemptGrants,
             Authorize(ceiling, attempts)
      PROVE  Sound'
  BY <1>1, <1>3 DEF Authorize, TypeOK, Row
<1>4. CASE Reconcile
  <2> DEFINE held == {o \in Ours(row.alloc) : ~row.alloc[o].final}
             alloc == [o \in Op |-> IF o \in held THEN [row.alloc[o] EXCEPT !.final = TRUE]
                                    ELSE row.alloc[o]]
  <2>1. live' = alloc /\ row'.alloc = alloc
    <3>1. Save(alloc)
      BY <1>4 DEF Reconcile
    <3> QED BY <3>1 DEF Save, TypeOK, Row
  <2>2. \A o \in held : worker[o] = "complete" /\ row.alloc[o].actual = spent[o]
    BY <1>4 DEF Reconcile, Verified
  <2>3. \A o \in Op : /\ row.alloc[o] \in Allocation
                      /\ row.alloc[o].actual = live[o].actual
                      /\ row.alloc[o].run = live[o].run
                      /\ row.alloc[o].final = live[o].final
    BY Fields DEF Sound, AmountsSaved, Amounts
  <2>4. \A o \in Op : /\ alloc[o].actual = row.alloc[o].actual /\ alloc[o].run = row.alloc[o].run
                      /\ alloc[o].key = row.alloc[o].key /\ alloc[o].state = row.alloc[o].state
                      /\ alloc[o].final => row.alloc[o].final \/ o \in held
    BY <2>3 DEF Allocation
  <2> HIDE DEF held, alloc
  <2>5. AmountsSaved'
    BY <2>1 DEF AmountsSaved, Amounts
  <2>6. FinalIsOver'
    <3> SUFFICES ASSUME NEW o \in Op, alloc[o].final
                 PROVE  alloc[o].actual = spent[o] /\ worker[o] \notin {"queued", "turn"}
      BY <1>p, <2>1 DEF FinalIsOver
    <3>1. CASE o \in held
      BY <3>1, <2>2, <2>4
    <3>2. CASE o \notin held
      BY <3>2, <2>3, <2>4 DEF Sound, FinalIsOver
    <3> QED BY <3>1, <3>2
  <2>7. NoTurnNoTokens'
    <3> SUFFICES ASSUME NEW o \in Op, worker[o] \in {"idle", "queued", "refused"}
                 PROVE  spent[o] = 0 /\ alloc[o].actual = 0
      BY <1>p, <2>1 DEF NoTurnNoTokens
    <3> QED BY <2>3, <2>4 DEF Sound, NoTurnNoTokens
  <2>8. SentIsRecorded'
    <3> SUFFICES ASSUME NEW o \in Op, Sent(o)
                 PROVE  alloc[o].run # 0 /\ alloc[o].state # "none"
      BY <1>p, <2>1 DEF SentIsRecorded, Sent
    <3> QED BY <2>3, <2>4 DEF Sound, SentIsRecorded
  <2>9. ResolvedIsAnswered'
    <3> SUFFICES ASSUME NEW o \in Op
                 PROVE  /\ alloc[o].state \in Resolved /\ Sent(o) => o \in answered
                        /\ alloc[o].state = "not_attempted" => worker[o] \in {"idle", "refused"}
      BY <1>p, <2>1 DEF ResolvedIsAnswered, Sent
    <3> QED BY <2>4 DEF Sound, ResolvedIsAnswered
  <2>10. AdmissionStands'
    BY <1>p DEF AdmissionStands
  <2> QED BY <2>5, <2>6, <2>7, <2>8, <2>9, <2>10 DEF Sound
<1> QED BY <1>2, <1>3, <1>4 DEF Client

LEMMA TriedFinite ==
  ASSUME NEW k
  PROVE  IsFiniteSet(Tried(k))
<1>1. IsFiniteSet(Op)
  BY FS_Interval, BudgetAssumptions DEF Op
<1>2. Tried(k) \subseteq Op
  BY DEF Tried
<1> QED BY <1>1, <1>2, FS_Subset

(* A worker's own step can only take operations out of Tried.              *)
LEMMA WorkerSound ==
  ASSUME TypeOK, Sound, NEW o \in Op, WorkerStep(o)
  PROVE  Sound'
<1>0. UNCHANGED <<row, live, mode, pend, answered>> /\ worker[o] # "idle" /\ worker'[o] # "idle"
  BY DEF WorkerStep, Begin, RejectLocally, Burn, CompleteTurn, TypeOK
<1>1. /\ worker' \in [Op -> Steps] /\ spent' \in [Op -> Nat] /\ spent \in [Op -> Nat]
      /\ \A p \in Op \ {o} : worker'[p] = worker[p] /\ spent'[p] = spent[p]
  <2>1. TypeOK'
    BY WorkerTypes
  <2>2. 0 .. MaxSpend \subseteq Nat
    OBVIOUS
  <2>3. \A p \in Op \ {o} : worker'[p] = worker[p] /\ spent'[p] = spent[p]
    BY DEF WorkerStep, Begin, RejectLocally, Burn, CompleteTurn, TypeOK
  <2> QED BY <2>1, <2>2, <2>3 DEF TypeOK
<1>2. /\ worker[o] \in {"queued", "turn"}
      /\ worker[o] = "queued" => worker'[o] \in {"turn", "refused"} /\ spent'[o] = spent[o]
      /\ worker[o] = "turn" => worker'[o] \in {"turn", "complete", "silent"}
  BY DEF WorkerStep, Begin, RejectLocally, Burn, CompleteTurn, TypeOK
<1>3. AmountsSaved' /\ SentIsRecorded'
  BY <1>0, <1>1 DEF Sound, AmountsSaved, Amounts, SentIsRecorded, Sent
<1>4. FinalIsOver' /\ NoTurnNoTokens'
  BY <1>0, <1>1, <1>2 DEF Sound, FinalIsOver, NoTurnNoTokens
<1>5. ResolvedIsAnswered'
  BY <1>0, <1>1, <1>2 DEF Sound, ResolvedIsAnswered, Sent
<1>6. AdmissionStands'
  <2>1. CASE pend = Idle
    BY <1>0, <2>1 DEF AdmissionStands
  <2>2. CASE pend # Idle
    <3>1. Tried(pend.key)' \subseteq Tried(pend.key)
      BY <1>0, <1>1, <1>2 DEF Tried, Sent
    <3>2. IsFiniteSet(Tried(pend.key))
      BY TriedFinite
    <3>3. Cardinality(Tried(pend.key)') <= Cardinality(Tried(pend.key))
      BY <3>1, <3>2, FS_Subset
    <3>4. /\ Cardinality(Tried(pend.key)') \in Nat /\ Cardinality(Tried(pend.key)) \in Nat
      BY <3>1, <3>2, FS_Subset, FS_CardinalityType
    <3>5. Cardinality(Tried(pend.key)') < row.attempts
      BY <2>2, <3>3, <3>4 DEF Sound, AdmissionStands, TypeOK, Row
    <3> QED BY <1>0, <1>1, <2>2, <3>5 DEF Sound, AdmissionStands, Sent
  <2> QED BY <2>1, <2>2
<1> QED BY <1>3, <1>4, <1>5, <1>6 DEF Sound

(* The runner's copy may be reloaded from the row, or the row written from *)
(* it: nothing the invariant speaks of depends on which of them is kept.   *)
LEMMA EitherCopySound ==
  ASSUME TypeOK, Sound, pend' = Idle, UNCHANGED <<worker, spent, answered>>,
         \A p \in Op : /\ live'[p] \in {live[p], row.alloc[p]}
                       /\ row'.alloc[p] \in {live[p], row.alloc[p]}
  PROVE  Sound'
<1>p. pend'.op = 0 /\ 0 \notin Op
  BY DEF Idle, Op
<1>0. \A p \in Op : /\ row.alloc[p].run = live[p].run
                    /\ row.alloc[p].actual = live[p].actual
                    /\ row.alloc[p].final = live[p].final
  BY DEF Sound, AmountsSaved, Amounts
<1>1. AmountsSaved'
  BY DEF Sound, AmountsSaved, Amounts
<1>2. FinalIsOver'
  <2> SUFFICES ASSUME NEW p \in Op, live'[p].final
               PROVE  live'[p].actual = spent[p] /\ worker[p] \notin {"queued", "turn"}
    BY <1>p DEF FinalIsOver
  <2> QED BY <1>0 DEF Sound, FinalIsOver
<1>3. NoTurnNoTokens'
  <2> SUFFICES ASSUME NEW p \in Op, worker[p] \in {"idle", "queued", "refused"}
               PROVE  spent[p] = 0 /\ live'[p].actual = 0
    BY DEF NoTurnNoTokens
  <2> QED BY <1>0 DEF Sound, NoTurnNoTokens
<1>4. SentIsRecorded'
  <2> SUFFICES ASSUME NEW p \in Op, Sent(p)
               PROVE  /\ live'[p].run # 0 /\ live'[p].key = row'.alloc[p].key
                      /\ live'[p].state # "none" /\ row'.alloc[p].state # "none"
    BY <1>p DEF SentIsRecorded, Sent
  <2> QED BY <1>0 DEF Sound, SentIsRecorded
<1>5. ResolvedIsAnswered'
  <2> SUFFICES ASSUME NEW p \in Op, NEW r \in {live[p], row.alloc[p]}
               PROVE  /\ r.state \in Resolved /\ Sent(p) => p \in answered
                      /\ r.state = "not_attempted" => worker[p] \in {"idle", "refused"}
    BY <1>p DEF ResolvedIsAnswered, Sent
  <2> QED BY DEF Sound, ResolvedIsAnswered
<1>6. AdmissionStands'
  BY DEF AdmissionStands
<1> QED BY <1>1, <1>2, <1>3, <1>4, <1>5, <1>6 DEF Sound

(* What admit_operation has checked is what AdmissionStands says: it looks *)
(* at the attempts in the ledger, and every operation that was sent is one.*)
LEMMA ReserveSound ==
  ASSUME TypeOK, Sound, NEW o \in Op, NEW k \in Keys, NEW n \in Allowances, Reserve(o, k, n)
  PROVE  Sound'
<1> DEFINE r == [NoAllocation EXCEPT !.run = row.run, !.reserved = n]
<1>1. /\ r \in Allocation /\ r.run = row.run /\ r.run # 0 /\ r.key = NoKey
      /\ r.state = "none" /\ ~r.final /\ r.actual = 0
  <2>1. n \in Nat /\ row.run \in 0 .. MaxRuns /\ row.run # 0
    BY Fields, BudgetAssumptions
  <2>2. NoAllocation \in Allocation
    BY Fields
  <2> QED BY <2>1, <2>2 DEF Allocation, NoAllocation
<1>2. /\ row'.alloc = live' /\ live'[o] = r
      /\ \A p \in Op \ {o} : live'[p] = live[p]
      /\ row'.retry = row.retry /\ row'.attempts = row.attempts
  <2>1. Save([live EXCEPT ![o] = r])
    BY DEF Reserve
  <2> QED BY <1>1, <2>1, SaveAt
<1>3. /\ UNCHANGED <<mode, worker, spent, answered>> /\ mode = "running"
      /\ pend = Idle /\ pend' = [op |-> o, key |-> k] /\ live[o].run = 0
      /\ Admissible(k)
  BY DEF Reserve, Running, world
<1>4. ~Sent(o) /\ worker[o] = "idle"
  BY <1>3 DEF Sound, SentIsRecorded, Sent
<1>5. AmountsSaved'
  BY <1>2 DEF AmountsSaved, Amounts
<1>6. FinalIsOver'
  <2> SUFFICES ASSUME NEW p \in Op, live'[p].final
               PROVE  /\ live'[p].actual = spent[p] /\ worker[p] \notin {"queued", "turn"}
                      /\ p # o
    BY <1>3 DEF FinalIsOver
  <2>1. p # o
    BY <1>1, <1>2
  <2> QED BY <1>2, <2>1 DEF Sound, FinalIsOver
<1>7. NoTurnNoTokens'
  <2> SUFFICES ASSUME NEW p \in Op, worker[p] \in {"idle", "queued", "refused"}
               PROVE  spent[p] = 0 /\ live'[p].actual = 0
    BY <1>3 DEF NoTurnNoTokens
  <2> QED BY <1>1, <1>2 DEF Sound, NoTurnNoTokens
<1>8. SentIsRecorded'
  <2> SUFFICES ASSUME NEW p \in Op, Sent(p)
               PROVE  p # o /\ live'[p].run # 0 /\ live'[p].state # "none"
    BY <1>2, <1>3 DEF SentIsRecorded, Sent
  <2> QED BY <1>2, <1>4 DEF Sound, SentIsRecorded
<1>9. ResolvedIsAnswered'
  <2> SUFFICES ASSUME NEW p \in Op
               PROVE  /\ live'[p].state \in Resolved /\ Sent(p) => p \in answered
                      /\ live'[p].state = "not_attempted" =>
                           worker[p] \in {"idle", "refused"} /\ p # o
    BY <1>2, <1>3 DEF ResolvedIsAnswered, Sent
  <2> QED BY <1>1, <1>2 DEF Sound, ResolvedIsAnswered, Resolved
<1>10. AdmissionStands'
  <2>1. Tried(k)' = {p \in Op : Sent(p) /\ worker[p] # "refused" /\ live'[p].key = k}
    BY <1>2, <1>3 DEF Tried, Sent
  <2>2. Tried(k)' \subseteq Attempts(k)
    <3> SUFFICES ASSUME NEW p \in Op, Sent(p), worker[p] # "refused", live'[p].key = k
                 PROVE  live[p].key = k /\ live[p].state # "not_attempted"
      BY <2>1 DEF Attempts
    <3> QED BY <1>2, <1>4 DEF Sound, ResolvedIsAnswered, Sent
  <2>3. IsFiniteSet(Attempts(k))
    <3>1. IsFiniteSet(Op) /\ Attempts(k) \subseteq Op
      BY FS_Interval, BudgetAssumptions DEF Op, Attempts
    <3> QED BY <3>1, FS_Subset
  <2>4. Cardinality(Tried(k)') < row.attempts
    <3>1. Cardinality(Tried(k)') <= Cardinality(Attempts(k))
      BY <2>2, <2>3, FS_Subset
    <3>2. Cardinality(Tried(k)') \in Nat /\ Cardinality(Attempts(k)) \in Nat
      BY <2>2, <2>3, FS_Subset, FS_CardinalityType
    <3> QED BY <1>3, <3>1, <3>2 DEF Admissible, TypeOK, Row
  <2>5. ASSUME NEW p \in Op, Sent(p), live'[p].key = k
        PROVE  p \in answered \/ row.retry
    <3>1. live[p].key = k /\ live[p].state # "none"
      BY <1>2, <1>4, <2>5 DEF Sound, SentIsRecorded
    <3>2. live[p].state \in Unresolved \cup Resolved
      BY <3>1, Fields DEF Allocation
    <3>3. CASE live[p].state \in Resolved
      BY <2>5, <3>3 DEF Sound, ResolvedIsAnswered
    <3>4. CASE live[p].state \in Unresolved
      BY <1>3, <3>1, <3>4 DEF Admissible, Uncertain, Attempts, Unresolved
    <3> QED BY <3>2, <3>3, <3>4
  <2>6. pend'.op = o /\ pend'.key = k
    BY <1>3
  <2>7. Cardinality(Tried(pend.key)') < row'.attempts
    BY <1>2, <2>1, <2>4, <2>6 DEF Tried, Sent
  <2> QED BY <1>1, <1>2, <1>3, <2>5, <2>6, <2>7 DEF AdmissionStands, Sent
<1> QED BY <1>5, <1>6, <1>7, <1>8, <1>9, <1>10 DEF Sound

LEMMA IntendSound ==
  ASSUME TypeOK, Sound, NEW o \in Op, Intend(o)
  PROVE  Sound'
<1>1. /\ live[o] \in Allocation /\ live \in [Op -> Allocation] /\ row.alloc \in [Op -> Allocation]
      /\ pend.op = o /\ mode = "running" /\ live[o].state = "none" /\ pend # Idle
      /\ UNCHANGED <<worker, spent, answered>> /\ 0 \notin Op /\ Idle.op = 0
  BY Fields DEF Intend, world, Idle, Op, TypeOK
<1>2. /\ live'[o].key = pend.key /\ live'[o].state = "open" /\ live'[o].run = live[o].run
      /\ live'[o].reserved = live[o].reserved
      /\ live'[o].actual = live[o].actual /\ live'[o].final = live[o].final
      /\ \A p \in Op \ {o} : live'[p] = live[p]
  BY <1>1 DEF Intend, Allocation
<1>3. /\ ~Sent(o) /\ ~live[o].final /\ worker[o] = "idle"
  BY <1>1 DEF Sound, SentIsRecorded, FinalIsOver, Sent
<1>4. \/ row'.alloc = live' /\ row'.retry = row.retry /\ row'.attempts = row.attempts
         /\ mode' = mode /\ pend' = pend
      \/ row' = row /\ pend' = Idle
  BY DEF Intend, TypeOK, Row
<1>p. \A p \in Op \ {o} : pend'.op # p
  BY <1>1, <1>4
<1>5. AmountsSaved'
  BY <1>2, <1>4 DEF Sound, AmountsSaved, Amounts
<1>6. FinalIsOver'
  <2> SUFFICES ASSUME NEW p \in Op, live'[p].final
               PROVE  /\ live'[p].actual = spent[p] /\ worker[p] \notin {"queued", "turn"}
                      /\ p # o
    BY <1>1, <1>p DEF FinalIsOver
  <2>1. p # o
    BY <1>2, <1>3
  <2> QED BY <1>2, <2>1 DEF Sound, FinalIsOver
<1>7. NoTurnNoTokens'
  <2> SUFFICES ASSUME NEW p \in Op, worker[p] \in {"idle", "queued", "refused"}
               PROVE  spent[p] = 0 /\ live'[p].actual = 0
    BY <1>1 DEF NoTurnNoTokens
  <2> QED BY <1>2 DEF Sound, NoTurnNoTokens
<1>8. SentIsRecorded'
  <2> SUFFICES ASSUME NEW p \in Op, Sent(p)
               PROVE  /\ p # o /\ live'[p].run # 0 /\ live'[p].key = row'.alloc[p].key
                      /\ live'[p].state # "none" /\ row'.alloc[p].state # "none"
    BY <1>1, <1>p DEF SentIsRecorded, Sent
  <2>1. p # o
    BY <1>3
  <2> QED BY <1>2, <1>4, <2>1 DEF Sound, SentIsRecorded
<1>9. ResolvedIsAnswered'
  <2> SUFFICES ASSUME NEW p \in Op, NEW r \in {live'[p], row'.alloc[p]}
               PROVE  /\ r.state \in Resolved /\ Sent(p) => p \in answered
                      /\ r.state = "not_attempted" =>
                           worker[p] \in {"idle", "refused"} /\ pend'.op # p
    BY <1>1 DEF ResolvedIsAnswered, Sent
  <2>1. CASE p # o
    BY <1>2, <1>4, <1>p, <2>1 DEF Sound, ResolvedIsAnswered
  <2>2. CASE p = o /\ r = live'[o]
    BY <1>2, <2>2 DEF Resolved
  <2>3. CASE p = o /\ r = row.alloc[o] /\ pend' = Idle
    BY <1>1, <2>3 DEF Sound, ResolvedIsAnswered
  <2> QED BY <1>4, <2>1, <2>2, <2>3
<1>10. AdmissionStands'
  <2>1. CASE pend' = Idle
    BY <2>1 DEF AdmissionStands
  <2>2. CASE row'.alloc = live' /\ row'.retry = row.retry /\ row'.attempts = row.attempts
             /\ mode' = mode /\ pend' = pend
    <3>1. \A p \in Op : Sent(p) => p # o /\ row'.alloc[p].key = row.alloc[p].key
      BY <1>2, <1>3, <2>2 DEF Sound, SentIsRecorded
    <3>2. Tried(pend.key)' = Tried(pend.key)
      BY <1>1, <2>2, <3>1 DEF Tried, Sent
    <3> QED BY <1>1, <1>2, <2>2, <3>1, <3>2 DEF Sound, AdmissionStands, Sent
  <2> QED BY <1>4, <2>1, <2>2
<1> QED BY <1>5, <1>6, <1>7, <1>8, <1>9, <1>10 DEF Sound

LEMMA HandOverSound ==
  ASSUME TypeOK, Sound, NEW o \in Op, HandOver(o)
  PROVE  Sound'
<1>1. /\ pend.op = o /\ pend # Idle /\ live[o].state = "open" /\ pend' = Idle
      /\ UNCHANGED <<row, live, spent, answered>> /\ pend'.op = 0 /\ 0 \notin Op
      /\ worker'[o] = "queued" /\ \A p \in Op \ {o} : worker'[p] = worker[p]
  BY DEF HandOver, Idle, Op, TypeOK
<1>2. /\ live[o].run # 0 /\ live[o].key = row.alloc[o].key /\ row.alloc[o].state = "open"
      /\ ~live[o].final /\ worker[o] = "idle"
  BY <1>1 DEF Sound, AdmissionStands, SentIsRecorded, FinalIsOver, Sent
<1>3. AmountsSaved'
  BY <1>1 DEF Sound, AmountsSaved, Amounts
<1>4. FinalIsOver' /\ NoTurnNoTokens'
  BY <1>1, <1>2 DEF Sound, FinalIsOver, NoTurnNoTokens
<1>5. SentIsRecorded'
  BY <1>1, <1>2 DEF Sound, SentIsRecorded, Sent
<1>6. ResolvedIsAnswered'
  BY <1>1, <1>2 DEF Sound, ResolvedIsAnswered, Sent, Resolved
<1>7. AdmissionStands'
  BY <1>1 DEF AdmissionStands
<1> QED BY <1>3, <1>4, <1>5, <1>6, <1>7 DEF Sound

LEMMA ControllerSound ==
  ASSUME TypeOK, Sound, Controller
  PROVE  Sound'
<1>1. ASSUME NEW o \in Op, NotDispatched(o)
      PROVE  Sound'
  <2> DEFINE r == [live[o] EXCEPT !.state = "not_attempted", !.final = TRUE]
  <2>1. /\ pend.op = o /\ pend # Idle /\ pend' = Idle
        /\ UNCHANGED <<worker, spent, answered>> /\ Save([live EXCEPT ![o] = r])
    <3>1. pend.op = o /\ pend' = Idle /\ UNCHANGED <<worker, spent, answered>>
      BY <1>1 DEF NotDispatched, world
    <3>2. Save([live EXCEPT ![o] = r])
      BY <1>1 DEF NotDispatched
    <3> QED BY <3>1, <3>2 DEF Idle, Op
  <2>2. /\ r \in Allocation /\ r.run = live[o].run /\ r.key = live[o].key
        /\ r.state = "not_attempted" /\ r.actual = live[o].actual
    BY Fields DEF Allocation, Resolved
  <2>3. live[o].run # 0 /\ ~Sent(o)
    BY <2>1 DEF Sound, AdmissionStands, SentIsRecorded
  <2>4. live[o].actual = 0 /\ spent[o] = 0
    BY <2>3 DEF Sound, NoTurnNoTokens, Sent
  <2> QED BY <2>1, <2>2, <2>3, <2>4, SaveKeepsSound DEF Sent
<1>2. CASE Stop \/ Unexpected \/ Crash \/ Finish
  <2>1. pend' = Idle
    BY <1>2 DEF Stop, Unexpected, Crash, Finish, Sound, AdmissionStands
  <2>2. UNCHANGED <<worker, spent, answered>>
    BY <1>2 DEF Stop, Unexpected, Crash, Finish, world
  <2>3. \A p \in Op : /\ live'[p] \in {live[p], row.alloc[p]}
                      /\ row'.alloc[p] \in {live[p], row.alloc[p]}
    BY <1>2 DEF Stop, Unexpected, Crash, Finish, TypeOK, Row
  <2> QED BY <2>1, <2>2, <2>3, EitherCopySound
<1> QED BY <1>1, <1>2, ReserveSound, IntendSound, HandOverSound DEF Controller

LEMMA StepSound ==
  ASSUME TypeOK, Sound, [Next]_vars
  PROVE  Sound'
<1>1. CASE Next
  BY <1>1, ControllerSound, ClientSound, WorkerSound, EventSound DEF Next
<1>2. CASE UNCHANGED vars
  BY <1>2 DEF vars, Sound, AmountsSaved, Amounts, FinalIsOver, NoTurnNoTokens,
              SentIsRecorded, ResolvedIsAnswered, AdmissionStands, Tried, Sent
<1> QED BY <1>1, <1>2

(* The ledger agrees with what was sent, answered and burned, in the row   *)
(* and in the runner's memory, at every moment of every run.               *)
THEOREM SoundHolds == Spec => []Sound
<1>1. Init => Sound
  BY InitSound
<1>2. TypeOK /\ Sound /\ [Next]_vars => Sound'
  BY StepSound
<1> QED BY <1>1, <1>2, BudgetTypesHold, PTL DEF Spec

-----------------------------------------------------------------------------
(* The properties.                                                         *)

(* "It is not zero usage": an operation that is not final is charged its   *)
(* whole allowance, and one that is was charged all its turn burned.       *)
THEOREM NothingFreeHolds == Spec => []NothingFree
<1>1. ASSUME TypeOK, Sound
      PROVE  NothingFree
  <2> SUFFICES ASSUME NEW o \in Op
               PROVE  Charge(row.alloc[o]) >= Least(spent[o], row.alloc[o].reserved)
    BY DEF NothingFree
  <2>1. row.alloc[o] \in Allocation /\ spent[o] \in Nat
    BY <1>1, Fields, BudgetAssumptions DEF TypeOK
  <2>2. row.alloc[o].final => row.alloc[o].actual = spent[o]
    BY <1>1 DEF Sound, AmountsSaved, Amounts, FinalIsOver
  <2> QED BY <2>1, <2>2 DEF Charge, Least, Greatest, Allocation
<1> QED BY <1>1, BudgetTypesHold, SoundHolds, PTL

(* The only step that sends an operation, and what it finds.               *)
LEMMA OnlyHandOverSends ==
  ASSUME TypeOK, [Next]_vars, NEW o \in Op, ~Sent(o), Sent(o)'
  PROVE  HandOver(o)
<1>1. UNCHANGED worker => FALSE
  BY DEF Sent
<1>2. ASSUME NEW p \in Op, WorkerStep(p)
      PROVE  FALSE
  BY <1>2 DEF WorkerStep, Begin, RejectLocally, Burn, CompleteTurn, TypeOK, Sent
<1>3. ASSUME NEW p \in Op, HandOver(p)
      PROVE  p = o
  BY <1>3 DEF HandOver, TypeOK, Sent
<1>4. ASSUME NEW p \in Op, Event(p)
      PROVE  FALSE
  BY <1>1, <1>4 DEF Event, Usage, FinalUsage, Settle, Failed, LimitedLocally, world
<1>5. CASE Client
  BY <1>1, <1>5 DEF Client, Continue, Authorize, Reconcile, world
<1>6. CASE Controller
  BY <1>1, <1>3, <1>6 DEF Controller, Reserve, Intend, NotDispatched, Stop, Unexpected,
                          Finish, Crash, world
<1> QED BY <1>1, <1>2, <1>4, <1>5, <1>6 DEF Next, vars

(* No operation is repeated while the outcome of an earlier one of its key *)
(* is unknown, unless the client has said that it may be.                  *)
THEOREM NoBlindRepeatHolds == Spec => NoBlindRepeat
<1>1. ASSUME TypeOK, Sound, [Next]_vars,
             NEW o \in Op, NEW p \in Op, ~Sent(o), Sent(o)', Sent(p),
             row.alloc[p].key = row.alloc[o].key
      PROVE  p \in answered \/ row.retry
  <2>1. pend.op = o /\ pend # Idle /\ live[o].state = "open"
    BY <1>1, OnlyHandOverSends DEF HandOver, Idle, Op
  <2> QED BY <1>1, <2>1 DEF Sound, AdmissionStands
<1>2. TypeOK /\ Sound /\ [Next]_vars =>
        [\A o, p \in Op :
           /\ ~Sent(o) /\ Sent(o)' /\ Sent(p)
           /\ row.alloc[p].key = row.alloc[o].key
           => p \in answered \/ row.retry]_vars
  BY <1>1
<1> QED BY <1>2, BudgetTypesHold, SoundHolds, PTL DEF Spec, NoBlindRepeat

(* An operation reaches a model no more often than was authorized.         *)
THEOREM RetriesBoundedHolds == Spec => RetriesBounded
<1>1. ASSUME TypeOK, Sound, [Next]_vars, NEW o \in Op, ~Sent(o), Sent(o)'
      PROVE  Cardinality({p \in Op : /\ Sent(p) /\ worker[p] # "refused"
                                     /\ row.alloc[p].key = row.alloc[o].key}) < row.attempts
  <2>1. pend.op = o /\ pend # Idle /\ live[o].state = "open"
    BY <1>1, OnlyHandOverSends DEF HandOver, Idle, Op
  <2>2. row.alloc[o].key = pend.key /\ Cardinality(Tried(pend.key)) < row.attempts
    BY <1>1, <2>1 DEF Sound, AdmissionStands
  <2> QED BY <2>2 DEF Tried
<1>2. TypeOK /\ Sound /\ [Next]_vars =>
        [\A o \in Op : ~Sent(o) /\ Sent(o)' =>
           Cardinality({p \in Op : /\ Sent(p) /\ worker[p] # "refused"
                                   /\ row.alloc[p].key = row.alloc[o].key}) < row.attempts]_vars
  BY <1>1
<1> QED BY <1>2, BudgetTypesHold, SoundHolds, PTL DEF Spec, RetriesBounded
-----------------------------------------------------------------------------
(* The sums of the ledger.                                                 *)

LEMMA Numbers ==
  ASSUME TypeOK
  PROVE  /\ IsFiniteSet(Op)
         /\ \A S \in SUBSET Op : IsFiniteSet(S)
         /\ row.run \in 1 .. MaxRuns /\ row.limit \in Nat /\ row.ceiling \in Nat
         /\ \A o \in Op : /\ live[o] \in Allocation /\ row.alloc[o] \in Allocation
                         /\ spent[o] \in Nat
<1>1. IsFiniteSet(Op)
  BY BudgetAssumptions, FS_Interval DEF Op
<1>2. \A S \in SUBSET Op : IsFiniteSet(S)
  BY <1>1, FS_Subset
<1>3. \A o \in Op : spent[o] \in Nat
  BY BudgetAssumptions DEF TypeOK
<1> QED BY <1>1, <1>2, <1>3, Fields DEF TypeOK, Row

(* What is charged is what is covered and what overran.                    *)
LEMMA ChargeParts ==
  ASSUME NEW r \in Allocation
  PROVE  /\ Covered(r) \in Nat /\ Overrun(r) \in Nat /\ Charge(r) \in Nat
         /\ Charge(r) = Covered(r) + Overrun(r)
BY DEF Allocation, Covered, Overrun, Charge, Least, Greatest

LEMMA ChargeOfParts ==
  ASSUME NEW alloc \in [Op -> Allocation], NEW S \in SUBSET Op, IsFiniteSet(S)
  PROVE  /\ CoveredOf(alloc, S) \in Nat /\ OverrunOf(alloc, S) \in Nat
         /\ ChargeOf(alloc, S) = CoveredOf(alloc, S) + OverrunOf(alloc, S)
<1> DEFINE f == [o \in Op |-> Covered(alloc[o])]
           g == [o \in Op |-> Overrun(alloc[o])]
           h == [o \in Op |-> Charge(alloc[o])]
<1>1. \A o \in S : f[o] \in Nat /\ g[o] \in Nat /\ h[o] = f[o] + g[o]
  BY ChargeParts
<1> HIDE DEF f, g, h
<1>2. SumFunctionOnSet(f, S) \in Nat /\ SumFunctionOnSet(g, S) \in Nat
  BY <1>1, SumNat
<1>3. SumFunctionOnSet(h, S) = SumFunctionOnSet(f, S) + SumFunctionOnSet(g, S)
  BY <1>1, SumPlus
<1> QED BY <1>2, <1>3 DEF f, g, h, CoveredOf, OverrunOf, ChargeOf

(* An allocation that only settles: it keeps its allowance, and a final    *)
(* count stands.                                                           *)
Settles(s, r) ==
  /\ s.run = r.run /\ s.reserved = r.reserved
  /\ r.final => s.final /\ s.actual = r.actual

LEMMA CoveredFalls ==
  ASSUME TypeOK, TypeOK', Funded, \A o \in Op : Settles(live[o]', live[o]),
         row.run' = row.run, row.limit' = row.limit, row.ceiling' = row.ceiling
  PROVE  Funded'
<1> DEFINE f == [o \in Op |-> Covered(live[o])]
           g == [o \in Op |-> Covered(live'[o])]
<1>1. \A o \in Op : /\ live[o] \in Allocation /\ live'[o] \in Allocation
                    /\ live'[o].run = live[o].run
  BY DEF TypeOK, Settles
<1>2. \A o \in Op : f[o] \in Int /\ g[o] \in Int /\ g[o] <= f[o]
  <2> TAKE o \in Op
  <2>1. Covered(live[o]) \in Nat /\ Covered(live'[o]) \in Nat
    BY <1>1, ChargeParts
  <2>2. Covered(live'[o]) <= Covered(live[o])
    BY <1>1 DEF Settles, Covered, Least, Allocation
  <2> QED BY <2>1, <2>2
<1>3. Ours(live)' = Ours(live)
  BY <1>1 DEF Ours
<1>4. /\ IsFiniteSet(Op) /\ IsFiniteSet(Ours(live)) /\ Ours(live) \in SUBSET Op
      /\ row.limit \in Nat /\ row.ceiling \in Nat
  BY Numbers DEF Ours
<1>5. /\ CoveredOf(live, Op) = SumFunctionOnSet(f, Op)
      /\ CoveredOf(live, Op)' = SumFunctionOnSet(g, Op)
      /\ CoveredOf(live, Ours(live)) = SumFunctionOnSet(f, Ours(live))
      /\ CoveredOf(live, Ours(live))' = SumFunctionOnSet(g, Ours(live))
  BY <1>3 DEF CoveredOf
<1> HIDE DEF f, g
<1>6. /\ SumFunctionOnSet(g, Op) <= SumFunctionOnSet(f, Op)
      /\ SumFunctionOnSet(g, Ours(live)) <= SumFunctionOnSet(f, Ours(live))
  BY <1>2, <1>4, SumBelow
<1>7. /\ SumFunctionOnSet(g, Op) \in Int /\ SumFunctionOnSet(f, Op) \in Int
      /\ SumFunctionOnSet(g, Ours(live)) \in Int /\ SumFunctionOnSet(f, Ours(live)) \in Int
  BY <1>2, <1>4, SumInt
<1> QED BY <1>1, <1>4, <1>5, <1>6, <1>7 DEF Funded

LEMMA InitFunded == Init => Funded
<1> SUFFICES ASSUME Init PROVE Funded
  OBVIOUS
<1>1. TypeOK
  BY InitTypes
<1>2. IsFiniteSet(Op) /\ Ours(live) = {} /\ \A o \in Op : live[o].run <= row.run
  BY <1>1, Numbers DEF Init, Ours, NoAllocation
<1> DEFINE f == [o \in Op |-> Covered(live[o])]
           zero == [o \in Op |-> 0]
<1>3. \A o \in Op : f[o] = 0
  BY DEF Init, Covered, NoAllocation
<1>4. f = zero
  BY <1>3
<1>5. SumFunctionOnSet(f, {}) = 0
  BY SumEmpty
<1>6. SumFunctionOnSet(f, Op) = 0
  <2>1. \A o \in Op : zero[o] \in Int /\ zero[o] = zero[o] + zero[o]
    OBVIOUS
  <2> HIDE DEF f, zero
  <2>2. SumFunctionOnSet(zero, Op) = SumFunctionOnSet(zero, Op) + SumFunctionOnSet(zero, Op)
    BY <1>2, <2>1, SumPlus
  <2>3. SumFunctionOnSet(zero, Op) \in Int
    BY <1>2, <2>1, SumInt
  <2>4. SumFunctionOnSet(zero, Op) = 0
    BY <2>2, <2>3, SMTT(30)
  <2> QED BY <1>4, <2>4
<1> QED BY <1>1, <1>2, <1>5, <1>6, Numbers DEF Funded, CoveredOf

(* A reservation is made from what remains.                                *)
LEMMA ReserveFunded ==
  ASSUME TypeOK, TypeOK', Funded, NEW o \in Op, NEW k \in Keys, NEW n \in Allowances,
         Reserve(o, k, n)
  PROVE  Funded'
<1> DEFINE r == [NoAllocation EXCEPT !.run = row.run, !.reserved = n]
           f == [p \in Op |-> Covered(live[p])]
           g == [p \in Op |-> Covered(live'[p])]
           S == Ours(live)
<1>1. /\ live' = [live EXCEPT ![o] = r] /\ row.run' = row.run /\ row.limit' = row.limit
      /\ row.ceiling' = row.ceiling /\ live[o].run = 0 /\ n \in Nat
      /\ n <= Remaining
  BY BudgetAssumptions DEF Reserve, Save, TypeOK, Row
<1>2. /\ live \in [Op -> Allocation] /\ live' \in [Op -> Allocation]
      /\ \A p \in Op : live[p] \in Allocation /\ live'[p] \in Allocation
  BY DEF TypeOK
<1>3. /\ live'[o] = r /\ \A p \in Op \ {o} : live'[p] = live[p]
      /\ Covered(r) = n /\ r.run = row.run
  BY <1>1, <1>2 DEF NoAllocation, Covered
<1>4. /\ IsFiniteSet(Op) /\ IsFiniteSet(S) /\ S \in SUBSET Op /\ o \notin S
      /\ row.limit \in Nat /\ row.ceiling \in Nat /\ row.run \in 1 .. MaxRuns
  BY <1>1, Numbers DEF Ours
<1>5. Ours(live)' = S \cup {o} /\ IsFiniteSet(S \cup {o}) /\ (S \cup {o}) \ {o} = S
  <2>1. Ours(live)' = S \cup {o}
    BY <1>1, <1>3 DEF Ours
  <2> QED BY <1>4, <2>1, FS_AddElement
<1>6. \A p \in Op : f[p] \in Nat /\ g[p] \in Nat /\ (p # o => g[p] = f[p])
  BY <1>2, <1>3, ChargeParts
<1>7. g[o] = n
  BY <1>3
<1>8. /\ CoveredOf(live, Op) = SumFunctionOnSet(f, Op)
      /\ CoveredOf(live, Op)' = SumFunctionOnSet(g, Op)
      /\ CoveredOf(live, S) = SumFunctionOnSet(f, S)
      /\ CoveredOf(live, Ours(live))' = SumFunctionOnSet(g, S \cup {o})
  BY <1>5 DEF CoveredOf
<1>9. /\ CoveredOf(live, S) + n <= row.limit
      /\ CoveredOf(live, Op) + n <= row.ceiling
  <2>1. n <= row.limit - ChargeOf(live, S) /\ n <= row.ceiling - ChargeOf(live, Op)
    <3>1. ChargeOf(live, S) \in Nat /\ ChargeOf(live, Op) \in Nat
      BY <1>2, <1>4, ChargeOfParts
    <3> QED BY <1>1, <1>4, <3>1 DEF Remaining, Least
  <2>2. /\ CoveredOf(live, S) \in Nat /\ OverrunOf(live, S) \in Nat
        /\ ChargeOf(live, S) = CoveredOf(live, S) + OverrunOf(live, S)
        /\ CoveredOf(live, Op) \in Nat /\ OverrunOf(live, Op) \in Nat
        /\ ChargeOf(live, Op) = CoveredOf(live, Op) + OverrunOf(live, Op)
    BY <1>2, <1>4, ChargeOfParts
  <2> HIDE DEF S
  <2> QED BY <1>1, <1>4, <2>1, <2>2
<1> HIDE DEF f, g, r
<1>10. SumFunctionOnSet(g, Op) = SumFunctionOnSet(f, Op) - f[o] + g[o]
  BY <1>4, <1>6, SumAt
<1>11. SumFunctionOnSet(g, S \cup {o}) = g[o] + SumFunctionOnSet(f, S)
  <2>1. \A p \in S \cup {o} : g[p] \in Int
    BY <1>4, <1>6
  <2>2. SumFunctionOnSet(g, S \cup {o}) = g[o] + SumFunctionOnSet(g, S)
    BY <1>5, <2>1, SumRemove
  <2>3. SumFunctionOnSet(g, S) = SumFunctionOnSet(f, S)
    BY <1>4, <1>6, SumSame
  <2> QED BY <2>2, <2>3
<1>12. SumFunctionOnSet(f, Op) \in Nat /\ SumFunctionOnSet(f, S) \in Nat
  BY <1>4, <1>6, SumNat
<1>13. \A p \in Op : live'[p].run <= row.run
  BY <1>3, <1>4 DEF Funded
<1> HIDE DEF S
<1> QED BY <1>1, <1>4, <1>6, <1>7, <1>8, <1>9, <1>10, <1>11, <1>12, <1>13 DEF Funded

(* The grants of a stopped task: a continuation has no operations yet, an  *)
(* authorization leaves room for everything charged.                       *)
LEMMA GrantFunded ==
  ASSUME TypeOK, TypeOK', Funded, AmountsSaved,
         \/ \E limit \in Grants, retry \in BOOLEAN : Continue(limit, retry)
         \/ \E ceiling \in Ceilings, attempts \in AttemptGrants : Authorize(ceiling, attempts)
  PROVE  Funded'
<1>1. live' = live /\ row.run \in 1 .. MaxRuns /\ \A o \in Op : live[o].run \in 0 .. MaxRuns
  BY Numbers DEF Continue, Authorize, Allocation
<1>2. ASSUME NEW limit \in Grants, NEW retry \in BOOLEAN, Continue(limit, retry)
      PROVE  Funded'
  <2>1. row.run' = row.run + 1 /\ row.limit' \in Nat /\ row.ceiling' = row.ceiling
    BY <1>2, BudgetAssumptions DEF Continue, TypeOK, Row
  <2>2. Ours(live)' = {} /\ \A o \in Op : live'[o].run <= row.run'
    BY <1>1, <2>1 DEF Ours, Funded
  <2>3. CoveredOf(live, Ours(live))' = 0
    BY <2>2, SumEmpty DEF CoveredOf
  <2>4. CoveredOf(live, Op)' = CoveredOf(live, Op)
    BY <1>1 DEF CoveredOf
  <2> QED BY <2>1, <2>2, <2>3, <2>4 DEF Funded
<1>3. ASSUME NEW ceiling \in Ceilings, NEW attempts \in AttemptGrants, Authorize(ceiling, attempts)
      PROVE  Funded'
  <2>1. /\ row.run' = row.run /\ row.limit' = row.limit /\ row.ceiling' = ceiling
        /\ ceiling >= ChargeOf(row.alloc, Op) /\ ceiling \in Nat
    BY <1>3, BudgetAssumptions DEF Authorize, TypeOK, Row
  <2>2. CoveredOf(live, Op)' = CoveredOf(live, Op) /\ Ours(live)' = Ours(live)
    BY <1>1, <2>1 DEF CoveredOf, Ours
  <2>3. CoveredOf(live, Ours(live))' = CoveredOf(live, Ours(live))
    BY <1>1, <2>2 DEF CoveredOf
  <2>4. CoveredOf(live, Op) = CoveredOf(row.alloc, Op)
    <3>1. \A o \in Op : Covered(live[o]) = Covered(row.alloc[o])
      BY DEF AmountsSaved, Amounts, Covered
    <3>2. [o \in Op |-> Covered(live[o])] = [o \in Op |-> Covered(row.alloc[o])]
      BY <3>1
    <3> QED BY <3>2 DEF CoveredOf
  <2>5. CoveredOf(row.alloc, Op) <= ChargeOf(row.alloc, Op) /\ ChargeOf(row.alloc, Op) \in Nat
    <3>1. /\ CoveredOf(row.alloc, Op) \in Nat /\ OverrunOf(row.alloc, Op) \in Nat
          /\ ChargeOf(row.alloc, Op) = CoveredOf(row.alloc, Op) + OverrunOf(row.alloc, Op)
      BY Fields, Numbers, ChargeOfParts
    <3> QED BY <3>1
  <2>6. CoveredOf(row.alloc, Op) \in Nat
    BY Fields, Numbers, ChargeOfParts
  <2> QED BY <1>1, <2>1, <2>2, <2>3, <2>4, <2>5, <2>6 DEF Funded
<1> QED BY <1>2, <1>3

(* Every other step only settles what was allocated.                       *)
LEMMA OthersSettle ==
  ASSUME TypeOK, TypeOK', Sound,
         \/ \E o \in Op : \/ Intend(o) \/ HandOver(o) \/ NotDispatched(o)
                         \/ WorkerStep(o) \/ Event(o)
         \/ Stop \/ Unexpected \/ Finish \/ Crash \/ Reconcile
  PROVE  /\ \A o \in Op : Settles(live[o]', live[o])
         /\ row.run' = row.run /\ row.limit' = row.limit /\ row.ceiling' = row.ceiling
<1>0. /\ live \in [Op -> Allocation] /\ row \in Row
      /\ \A o \in Op : live[o] \in Allocation /\ Settles(live[o], live[o])
      /\ \A o \in Op : Settles(row.alloc[o], live[o])
  BY DEF TypeOK, Settles, Sound, AmountsSaved, Amounts
<1>a. ASSUME NEW o \in Op, NEW r, live' = [live EXCEPT ![o] = r], Settles(r, live[o])
      PROVE  \A p \in Op : Settles(live'[p], live[p])
  BY <1>0, <1>a
<1>b. ASSUME NEW alloc, row' = row \/ row' = [row EXCEPT !.alloc = alloc]
      PROVE  row.run' = row.run /\ row.limit' = row.limit /\ row.ceiling' = row.ceiling
  BY <1>0, <1>b DEF Row
<1>1. ASSUME NEW o \in Op, Intend(o) PROVE \A p \in Op : Settles(live'[p], live[p])
  <2> DEFINE r == [live[o] EXCEPT !.key = pend.key, !.state = "open"]
  <2>1. live' = [live EXCEPT ![o] = r]
    BY <1>0, <1>1 DEF Intend
  <2>2. Settles(r, live[o])
    BY <1>0 DEF Settles, Allocation
  <2> HIDE DEF r
  <2> QED BY <1>a, <2>1, <2>2
<1>2. ASSUME NEW o \in Op, HandOver(o) \/ WorkerStep(o)
      PROVE  \A p \in Op : Settles(live'[p], live[p])
  BY <1>0, <1>2 DEF HandOver, WorkerStep, Begin, RejectLocally, Burn, CompleteTurn
<1>3. ASSUME NEW o \in Op, NotDispatched(o) \/ LimitedLocally(o)
      PROVE  \A p \in Op : Settles(live'[p], live[p])
  <2> DEFINE r == [live[o] EXCEPT !.state = "not_attempted", !.final = TRUE]
  <2>1. live' = [live EXCEPT ![o] = r]
    BY <1>0, <1>3 DEF NotDispatched, LimitedLocally, Save
  <2>2. Settles(r, live[o])
    BY <1>0 DEF Settles, Allocation
  <2> HIDE DEF r
  <2> QED BY <1>a, <2>1, <2>2
<1>4. ASSUME NEW o \in Op, NEW n \in 1 .. MaxSpend, Usage(o, n)
      PROVE  \A p \in Op : Settles(live'[p], live[p])
  <2> DEFINE r == Measured(live[o], n)
  <2>1. live' = [live EXCEPT ![o] = r] /\ ~live[o].final
    BY <1>0, <1>4 DEF Usage, Save
  <2>2. Settles(r, live[o])
    BY <1>0, <2>1 DEF Settles, Allocation, Measured
  <2> HIDE DEF r
  <2> QED BY <1>a, <2>1, <2>2
<1>5. ASSUME NEW o \in Op, FinalUsage(o)
      PROVE  \A p \in Op : Settles(live'[p], live[p])
  <2> DEFINE r == [Measured(live[o], spent[o]) EXCEPT !.final = TRUE]
  <2>1. live' = [live EXCEPT ![o] = r]
    BY <1>0, <1>5 DEF FinalUsage, Save
  <2>2. Settles(r, live[o])
    BY <1>0 DEF Settles, Allocation, Measured, Sound, FinalIsOver
  <2> HIDE DEF r
  <2> QED BY <1>a, <2>1, <2>2
<1>6. ASSUME NEW o \in Op, Settle(o) PROVE \A p \in Op : Settles(live'[p], live[p])
  <2> DEFINE r == [live[o] EXCEPT !.state = "returned"]
  <2>1. live' = [live EXCEPT ![o] = r]
    BY <1>0, <1>6 DEF Settle
  <2>2. Settles(r, live[o])
    BY <1>0 DEF Settles, Allocation
  <2> HIDE DEF r
  <2> QED BY <1>a, <2>1, <2>2
<1>7. ASSUME NEW o \in Op, Failed(o) PROVE \A p \in Op : Settles(live'[p], live[p])
  <2> DEFINE r == [live[o] EXCEPT !.state = "failed", !.final = @ \/ worker[o] = "refused"]
  <2>1. live' = [live EXCEPT ![o] = r]
    BY <1>0, <1>7 DEF Failed, Save
  <2>2. Settles(r, live[o])
    BY <1>0 DEF Settles, Allocation
  <2> HIDE DEF r
  <2> QED BY <1>a, <2>1, <2>2
<1>8. CASE Stop \/ Unexpected \/ Finish \/ Crash
  BY <1>0, <1>8 DEF Stop, Unexpected, Finish, Crash, Row
<1>9. CASE Reconcile
  <2>1. \A p \in Op : live'[p] = row.alloc[p] \/ live'[p] = [row.alloc[p] EXCEPT !.final = TRUE]
    BY <1>9 DEF Reconcile, Save
  <2>2. \A p \in Op : Settles([row.alloc[p] EXCEPT !.final = TRUE], live[p])
    <3> TAKE p \in Op
    <3>1. row.alloc[p] \in Allocation /\ Settles(row.alloc[p], live[p])
      BY <1>0, Fields
    <3> QED BY <3>1 DEF Settles, Allocation
  <2>3. \A p \in Op : Settles(live'[p], live[p])
    BY <1>0, <2>1, <2>2
  <2>4. row.run' = row.run /\ row.limit' = row.limit /\ row.ceiling' = row.ceiling
    BY <1>9, <1>b DEF Reconcile, Save
  <2> QED BY <2>3, <2>4
<1>10. ASSUME NEW o \in Op, \/ Intend(o) \/ HandOver(o) \/ NotDispatched(o)
                            \/ WorkerStep(o) \/ Event(o)
      PROVE  row.run' = row.run /\ row.limit' = row.limit /\ row.ceiling' = row.ceiling
  <2>1. row' = row \/ row' = [row EXCEPT !.alloc = live']
    BY <1>10 DEF Intend, HandOver, NotDispatched, WorkerStep, Begin, RejectLocally, Burn,
                 CompleteTurn, Event, Usage, FinalUsage, Settle, Failed, LimitedLocally, Save
  <2> QED BY <1>b, <2>1
<1>11. ASSUME NEW o \in Op, Event(o) PROVE \A p \in Op : Settles(live'[p], live[p])
  BY <1>3, <1>4, <1>5, <1>6, <1>7, <1>11 DEF Event
<1> QED BY <1>1, <1>2, <1>3, <1>8, <1>9, <1>10, <1>11

LEMMA StepFunded ==
  ASSUME TypeOK, Sound, Funded, [Next]_vars
  PROVE  Funded'
<1>1. TypeOK'
  BY StepTypes
<1>2. CASE Next
  <2>1. ASSUME NEW o \in Op, NEW k \in Keys, NEW n \in Allowances, Reserve(o, k, n)
        PROVE  Funded'
    BY <1>1, <2>1, ReserveFunded
  <2>2. CASE \/ \E limit \in Grants, retry \in BOOLEAN : Continue(limit, retry)
             \/ \E ceiling \in Ceilings, attempts \in AttemptGrants : Authorize(ceiling, attempts)
    BY <1>1, <2>2, GrantFunded DEF Sound
  <2>3. CASE \/ \E o \in Op : \/ Intend(o) \/ HandOver(o) \/ NotDispatched(o)
                             \/ WorkerStep(o) \/ Event(o)
             \/ Stop \/ Unexpected \/ Finish \/ Crash \/ Reconcile
    <3>1. /\ \A o \in Op : Settles(live[o]', live[o])
          /\ row.run' = row.run /\ row.limit' = row.limit /\ row.ceiling' = row.ceiling
      BY <1>1, <2>3, OthersSettle
    <3> QED BY <1>1, <3>1, CoveredFalls
  <2> QED BY <1>2, <2>1, <2>2, <2>3 DEF Next, Controller, Client
<1>3. CASE UNCHANGED vars
  <2>1. UNCHANGED <<row, live>>
    BY <1>3 DEF vars
  <2> QED BY <2>1 DEF Funded, CoveredOf, Ours
<1> QED BY <1>2, <1>3

(* The limits cover what was reserved and not given back, over any number  *)
(* of operations and runs (reserve, consume, continuation_authorization).  *)
THEOREM FundedHolds == Spec => []Funded
<1>1. Init => Funded
  BY InitFunded
<1>2. TypeOK /\ Sound /\ Funded /\ [Next]_vars => Funded'
  BY StepFunded
<1> QED BY <1>1, <1>2, BudgetTypesHold, SoundHolds, PTL DEF Spec

(* A run commits no more than its token limit and what single operations   *)
(* overran, however its usage is reported, late, doubled or never.         *)
THEOREM WithinLimitHolds == Spec => []WithinLimit
<1>1. TypeOK /\ Sound /\ Funded => WithinLimit
  <2> SUFFICES ASSUME TypeOK, Sound, Funded PROVE WithinLimit
    OBVIOUS
  <2> DEFINE S == Ours(row.alloc)
  <2>1. S = Ours(live) /\ S \in SUBSET Op /\ IsFiniteSet(S) /\ row.limit \in Nat
    BY Numbers DEF Ours, Sound, AmountsSaved, Amounts
  <2>2. CoveredOf(live, S) = CoveredOf(row.alloc, S)
    <3>1. \A o \in Op : Covered(live[o]) = Covered(row.alloc[o])
      BY DEF Sound, AmountsSaved, Amounts, Covered
    <3>2. [o \in Op |-> Covered(live[o])] = [o \in Op |-> Covered(row.alloc[o])]
      BY <3>1
    <3> QED BY <3>2 DEF CoveredOf
  <2>3. /\ CoveredOf(row.alloc, S) \in Nat /\ OverrunOf(row.alloc, S) \in Nat
        /\ ChargeOf(row.alloc, S) = CoveredOf(row.alloc, S) + OverrunOf(row.alloc, S)
    BY <2>1, Fields, ChargeOfParts
  <2>4. CoveredOf(row.alloc, S) <= row.limit
    BY <2>1, <2>2 DEF Funded
  <2> HIDE DEF S
  <2>5. ChargeOf(row.alloc, S) <= row.limit + OverrunOf(row.alloc, S)
    BY <2>1, <2>3, <2>4
  <2> QED BY <2>5 DEF WithinLimit, S
<1> QED BY <1>1, BudgetTypesHold, SoundHolds, FundedHolds, PTL

(* What all model turns have burned within their allowances stays within   *)
(* the aggregate authorization, reported or not and across crashes.        *)
THEOREM BurnedWithinAuthorityHolds == Spec => []BurnedWithinAuthority
<1>1. TypeOK /\ Sound /\ Funded => BurnedWithinAuthority
  <2> SUFFICES ASSUME TypeOK, Sound, Funded PROVE BurnedWithinAuthority
    OBVIOUS
  <2> DEFINE f == [o \in Op |-> Least(spent[o], row.alloc[o].reserved)]
             g == [o \in Op |-> Covered(live[o])]
  <2>1. \A o \in Op : f[o] \in Int /\ g[o] \in Int /\ f[o] <= g[o]
    <3> TAKE o \in Op
    <3>1. live[o] \in Allocation /\ spent[o] \in Nat /\ Covered(live[o]) \in Nat
      BY Numbers, ChargeParts
    <3>2. row.alloc[o].reserved = live[o].reserved
      BY DEF Sound, AmountsSaved, Amounts
    <3>3. live[o].final => live[o].actual = spent[o]
      BY DEF Sound, FinalIsOver
    <3> QED BY <3>1, <3>2, <3>3 DEF Covered, Least, Allocation
  <2>2. SumFunctionOnSet(g, Op) <= row.ceiling /\ row.ceiling \in Nat /\ IsFiniteSet(Op)
    BY Numbers DEF Funded, CoveredOf
  <2> HIDE DEF f, g
  <2>3. SumFunctionOnSet(f, Op) <= SumFunctionOnSet(g, Op)
    BY <2>1, <2>2, SumBelow
  <2>4. SumFunctionOnSet(f, Op) \in Int /\ SumFunctionOnSet(g, Op) \in Int
    BY <2>1, <2>2, SumInt
  <2>5. SumFunctionOnSet(f, Op) <= row.ceiling
    BY <2>2, <2>3, <2>4
  <2> QED BY <2>5 DEF BurnedWithinAuthority, f
<1> QED BY <1>1, BudgetTypesHold, SoundHolds, FundedHolds, PTL
=============================================================================
