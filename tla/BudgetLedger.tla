---------------------------- MODULE BudgetLedger ----------------------------
(***************************************************************************)
(* The token and attempt ledger of one delegated task, over its runs: what *)
(* an operation reserves before it is sent, what its worker reports, what  *)
(* a terminal report releases, which operation may be sent again, and what *)
(* is left of all this when the process dies.                              *)
(*                                                                         *)
(* `row` is the durable ledger and `live` the runner's own list, whose     *)
(* dictionaries are changed in place and saved with the next commit that   *)
(* changes the JSON document.  One runner works at a time (ResearchTask).  *)
(*                                                                         *)
(* An operator A_Variant just above A is a plausible wrong version of A    *)
(* that no action uses; it serves to show that the properties can fail.    *)
(***************************************************************************)
EXTENDS Integers, FiniteSets, Functions

CONSTANTS
  MaxOps,     \* bound: operations over all runs
  MaxRuns,    \* bound: the start and its continuations
  MaxSpend,   \* bound: tokens one model turn may burn
  Keys,       \* operation keys: what an operation is asked to do
  NoKey,
  Allowances, \* token allowances the callers ask for
  TokenLimit, \* the contract's token_limit
  Grants,     \* token limits of continuations
  Ceilings,   \* token ceilings of new authorizations
  AttemptGrants, \* max_operation_attempts of authorizations
  OverrunFloor, OverrunCap, \* 512 and 2000 in the code
  BestEffort  \* best-effort stopping, opted into by the contract

ASSUME BudgetAssumptions ==
  /\ MaxOps \in Nat /\ MaxRuns \in Nat \ {0} /\ MaxSpend \in Nat
  /\ NoKey \notin Keys
  /\ Allowances \subseteq Nat /\ Grants \subseteq Nat /\ Ceilings \subseteq Nat
  /\ AttemptGrants \subseteq Nat
  /\ TokenLimit \in Nat /\ OverrunFloor \in Nat /\ OverrunCap \in Nat
  /\ BestEffort \in BOOLEAN

Op == 1 .. MaxOps   \* operations in the order of their allocation

(* dispatch_state: "open" stands for intent, sent and started, which the   *)
(* code treats alike; "returned" includes returned_invalid.                *)
Unresolved == {"open"}
Resolved   == {"returned", "failed", "not_attempted"}
Allocation == [run : 0 .. MaxRuns, key : Keys \cup {NoKey}, reserved : Nat,
               actual : Nat, reported : Nat, final : BOOLEAN,
               state : {"none"} \cup Unresolved \cup Resolved]
NoAllocation == [run |-> 0, key |-> NoKey, reserved |-> 0, actual |-> 0,
                 reported |-> 0, final |-> FALSE, state |-> "none"]
Row == [run : 1 .. MaxRuns, limit : Nat, ceiling : Nat, attempts : Nat,
        retry : BOOLEAN, alloc : [Op -> Allocation]]

VARIABLES
  row,       \* the durable ledger and the contract's limit
  live,      \* the allocations as the runner's memory has them
  mode,      \* the runner: running, draining or stopped
  pend,      \* the operation send() is working on, and its key
  calls,     \* operations whose events still reach their allocation
  worker,    \* operation -> what its model worker is doing
  spent,     \* operation -> tokens its turn has burned, known or not
  answered   \* history: operations whose outcome reached the runner

vars == <<row, live, mode, pend, calls, worker, spent, answered>>
world == <<worker, spent>>
Idle == [op |-> 0, key |-> NoKey]

Init ==
  /\ row = [run |-> 1, limit |-> TokenLimit, ceiling |-> TokenLimit, attempts |-> 2,
            retry |-> FALSE, alloc |-> [o \in Op |-> NoAllocation]]
  /\ live = row.alloc
  /\ mode = "running" /\ pend = Idle /\ calls = {}
  /\ worker = [o \in Op |-> "idle"]
  /\ spent = [o \in Op |-> 0]
  /\ answered = {}

-----------------------------------------------------------------------------
(* Accounting.                                                             *)

Least(m, n)    == IF m <= n THEN m ELSE n
Greatest(m, n) == IF m >= n THEN m ELSE n

(* Only terminal actual usage releases a reserved allowance.               *)
Charge_KnownReleases(r) == IF r.actual > 0 THEN r.actual ELSE r.reserved

Charge(r)  == IF r.final THEN r.actual ELSE Greatest(r.reserved, r.actual)
Overrun(r) == Greatest(0, r.actual - r.reserved)

Ours(alloc) == {o \in Op : alloc[o].run = row.run}   \* not in previous_runs
ChargeOf(alloc, S)  == SumFunctionOnSet([o \in Op |-> Charge(alloc[o])], S)
KnownOf(alloc, S)   == SumFunctionOnSet([o \in Op |-> alloc[o].actual], S)
OverrunOf(alloc, S) == SumFunctionOnSet([o \in Op |-> Overrun(alloc[o])], S)

Remaining == Least(row.limit - ChargeOf(live, Ours(live)),
                   row.ceiling - ChargeOf(live, Op))

(* check(): known usage has reached the run's or the aggregate limit.      *)
Exhausted == \/ KnownOf(live, Op) >= row.ceiling
             \/ KnownOf(live, Ours(live)) >= row.limit

terminal_overrun_allowance(tokens) ==
  Least(OverrunCap, Greatest(OverrunFloor, (tokens + 49) \div 50))

(* admit_operation looks at the attempts of all runs.                      *)
Attempts_Resolved(k) == {o \in Op : live[o].key = k /\ live[o].state = "returned"}

Attempts(k) == {o \in Op : live[o].key = k /\ live[o].state # "not_attempted"}

Uncertain_ThisRun(k) ==
  \E o \in Attempts(k) : live[o].state \in Unresolved /\ live[o].run = row.run

Uncertain(k) == \E o \in Attempts(k) : live[o].state \in Unresolved

Admissible(k) == /\ Uncertain(k) => row.retry
                 /\ Cardinality(Attempts(k)) < row.attempts

-----------------------------------------------------------------------------
(* send(): admit and reserve, record the intent, hand over.                *)

Save(alloc) == live' = alloc /\ row' = [row EXCEPT !.alloc = alloc]
Running     == mode = "running" /\ pend = Idle
MayStop     == mode' \in {mode, "draining"}

Reserve(o, k, n) ==
  /\ Running /\ live[o].run = 0
  /\ \A p \in Op : p < o => live[p].run # 0
  /\ ~Exhausted /\ Admissible(k)
  /\ n > 0 /\ n <= Remaining
  /\ Save([live EXCEPT ![o] = [NoAllocation EXCEPT !.run = row.run, !.reserved = n]])
  /\ pend' = [op |-> o, key |-> k]
  /\ UNCHANGED <<mode, calls, world, answered>>

(* The intent is in the row once the trace record of the dispatch is, and  *)
(* a full trace stops the run.                                             *)
Intend(o) ==
  /\ mode = "running" /\ pend.op = o /\ live[o].state = "none"
  /\ live' = [live EXCEPT ![o].key = pend.key, ![o].state = "open"]
  /\ \/ row' = [row EXCEPT !.alloc = live'] /\ UNCHANGED <<mode, pend>>
     \/ UNCHANGED row /\ mode' = "draining" /\ pend' = Idle
  /\ UNCHANGED <<calls, world, answered>>

HandOver(o) ==
  /\ mode = "running" /\ pend.op = o /\ live[o].state = "open"
  /\ worker' = [worker EXCEPT ![o] = "queued"]
  /\ calls' = calls \cup {o}
  /\ pend' = Idle
  /\ UNCHANGED <<row, live, mode, spent, answered>>

(* The message exceeds the worker's limit and is never written.            *)
NotDispatched(o) ==
  /\ mode = "running" /\ pend.op = o /\ live[o].state = "open"
  /\ Save([live EXCEPT ![o].state = "not_attempted", ![o].final = TRUE])
  /\ pend' = Idle /\ MayStop
  /\ calls' = calls \cup {o}
  /\ UNCHANGED <<world, answered>>

-----------------------------------------------------------------------------
(* The model worker.                                                       *)

Begin(o) ==
  /\ worker[o] = "queued"
  /\ worker' = [worker EXCEPT ![o] = "turn"]
  /\ UNCHANGED <<row, live, mode, pend, calls, spent, answered>>

(* Rejected before any model turn: deadline, account, prompt too long.     *)
RejectLocally(o) ==
  /\ worker[o] = "queued"
  /\ worker' = [worker EXCEPT ![o] = "refused"]
  /\ UNCHANGED <<row, live, mode, pend, calls, spent, answered>>

Burn(o) ==
  /\ worker[o] = "turn" /\ spent[o] < MaxSpend
  /\ spent' = [spent EXCEPT ![o] = @ + 1]
  /\ UNCHANGED <<row, live, mode, pend, calls, worker, answered>>

(* The turn completes, its usage counted or ("silent") never reported.     *)
CompleteTurn(o) ==
  /\ worker[o] = "turn"
  /\ \E next \in {"complete"} \cup (IF live[o].reported = 0 THEN {"silent"} ELSE {}) :
       worker' = [worker EXCEPT ![o] = next]
  /\ UNCHANGED <<row, live, mode, pend, calls, spent, answered>>

WorkerStep(o) == Begin(o) \/ RejectLocally(o) \/ Burn(o) \/ CompleteTurn(o)

-----------------------------------------------------------------------------
(* event(): what the runner makes of a worker's messages, also while it    *)
(* drains.  A stop of one call ends the task or only that call, as the     *)
(* caller decides; its later events are taken when the runner drains.      *)

Listening(o) == mode \in {"running", "draining"} /\ pend = Idle /\ o \in calls

(* After a report beyond the allowance.                                    *)
Stops(o, n, alloc, terminal) ==
  IF n <= live[o].reserved THEN mode' = mode
  ELSE IF ChargeOf(alloc, Ours(alloc)) > row.limit THEN mode' = "draining"
  ELSE IF /\ terminal /\ BestEffort
          /\ n - live[o].reserved <= terminal_overrun_allowance(live[o].reserved)
       THEN mode' = mode
  ELSE MayStop

(* A streamed count.  At the allowance the worker itself stops the call.   *)
Measured_AsFinal(r, n) == [r EXCEPT !.actual = n, !.reported = n, !.final = TRUE]

Measured(r, n) == [r EXCEPT !.actual = n, !.reported = n]

Usage(o, n) ==
  /\ Listening(o) /\ ~live[o].final
  /\ worker[o] \in {"turn", "complete"} /\ n \in live[o].reported .. spent[o]
  /\ LET alloc == [live EXCEPT ![o] = Measured(@, n)] IN
     /\ Save(alloc)
     /\ IF n = live[o].reserved THEN MayStop ELSE Stops(o, n, alloc, FALSE)
  /\ UNCHANGED <<pend, calls, world, answered>>

(* A terminal receipt, or the usage that comes with the result.            *)
FinalUsage(o) ==
  /\ Listening(o) /\ worker[o] = "complete"
  /\ LET alloc == [live EXCEPT ![o] = [Measured(@, spent[o]) EXCEPT !.final = TRUE]] IN
     Save(alloc) /\ Stops(o, spent[o], alloc, TRUE)
  /\ UNCHANGED <<pend, calls, world, answered>>

(* The result, valid or not.  The new state is in the row only once the    *)
(* trace record that follows it is committed.                              *)
Settle(o) ==
  /\ Listening(o) /\ live[o].state = "open"
  /\ (worker[o] = "complete" /\ live[o].final) \/ worker[o] = "silent"
  /\ live' = [live EXCEPT ![o].state = "returned"]
  /\ \/ row' = [row EXCEPT !.alloc = live'] /\ MayStop
     \/ UNCHANGED row /\ mode' = "draining"
  /\ calls' = calls \ {o} /\ answered' = answered \cup {o}
  /\ UNCHANGED <<pend, world>>

(* An error event.  One that proves no turn was started releases all.      *)
Failed(o) ==
  /\ Listening(o) /\ live[o].state = "open"
  /\ worker[o] \in {"refused", "turn", "complete", "silent"}
  /\ Save([live EXCEPT ![o].state = "failed",
                       ![o].final = @ \/ worker[o] = "refused"])
  /\ calls' = calls \ {o} /\ answered' = answered \cup {o}
  /\ MayStop
  /\ UNCHANGED <<pend, world>>

(* The same proof in a limit event: the attempt does not count.            *)
LimitedLocally(o) ==
  /\ Listening(o) /\ live[o].state = "open" /\ worker[o] = "refused"
  /\ Save([live EXCEPT ![o].state = "not_attempted", ![o].final = TRUE])
  /\ calls' = calls \ {o} /\ answered' = answered \cup {o}
  /\ MayStop
  /\ UNCHANGED <<pend, world>>

Event(o) == \/ \E n \in 1 .. MaxSpend : Usage(o, n)
            \/ FinalUsage(o) \/ Settle(o) \/ Failed(o) \/ LimitedLocally(o)

-----------------------------------------------------------------------------
(* The run.                                                                *)

(* A limit, a cancellation or an expected exception, also within send().   *)
Stop ==
  /\ mode = "running"
  /\ mode' = "draining" /\ pend' = Idle
  /\ UNCHANGED <<row, live, calls, world, answered>>

(* Any other exception: the list is reloaded, and the dictionaries in      *)
(* active_calls are no longer part of it.                                  *)
Unexpected ==
  /\ mode = "running"
  /\ mode' = "draining" /\ pend' = Idle
  /\ live' = row.alloc /\ calls' = {}
  /\ UNCHANGED <<row, world, answered>>

Finish ==
  /\ mode = "draining"
  /\ mode' = "stopped" /\ calls' = {}
  /\ row' = [row EXCEPT !.alloc = live]
  /\ UNCHANGED <<live, pend, world, answered>>

(* The process dies, or the run ends without finish().                     *)
Crash ==
  /\ mode # "stopped"
  /\ mode' = "stopped" /\ pend' = Idle /\ calls' = {}
  /\ live' = row.alloc
  /\ UNCHANGED <<row, world, answered>>

-----------------------------------------------------------------------------
(* A stopped task.                                                         *)

(* prepare() and continuation_authorization(): the run's allocations join  *)
(* those of previous_runs.                                                 *)
Continue(limit, retry) ==
  /\ mode = "stopped" /\ row.run < MaxRuns
  /\ \E o \in Op : row.alloc[o].run = row.run
  /\ limit <= row.ceiling - ChargeOf(row.alloc, Op)
  /\ row' = [row EXCEPT !.run = @ + 1, !.limit = limit, !.retry = retry]
  /\ mode' = "running"
  /\ UNCHANGED <<live, pend, calls, world, answered>>

(* authorize_task(), or the authorization that comes with a continuation.  *)
Authorize(ceiling, attempts) ==
  /\ mode = "stopped" /\ ceiling >= ChargeOf(row.alloc, Op)
  /\ row' = [row EXCEPT !.ceiling = ceiling, !.attempts = attempts]
  /\ UNCHANGED <<live, mode, pend, calls, world, answered>>

(* reconcile(): every allocation without a final count must belong to a    *)
(* completed turn whose last count was recorded.                           *)
Verified(o) == /\ row.alloc[o].state = "failed" /\ worker[o] = "complete"
               /\ row.alloc[o].actual = spent[o]

Reconcile ==
  LET held == {o \in Ours(row.alloc) : ~row.alloc[o].final} IN
  /\ mode = "stopped" /\ held # {}
  /\ \A o \in held : Verified(o)
  /\ Save([o \in Op |-> IF o \in held THEN [row.alloc[o] EXCEPT !.final = TRUE]
                        ELSE row.alloc[o]])
  /\ UNCHANGED <<mode, pend, calls, world, answered>>

Controller ==
  \/ \E o \in Op : \/ \E k \in Keys, n \in Allowances : Reserve(o, k, n)
                   \/ Intend(o) \/ HandOver(o) \/ NotDispatched(o)
  \/ Stop \/ Unexpected \/ Finish \/ Crash

Client ==
  \/ \E limit \in Grants, retry \in BOOLEAN : Continue(limit, retry)
  \/ \E ceiling \in Ceilings, attempts \in AttemptGrants : Authorize(ceiling, attempts)
  \/ Reconcile

Next == Controller \/ Client \/ \E o \in Op : WorkerStep(o) \/ Event(o)

Spec == Init /\ [][Next]_vars

-----------------------------------------------------------------------------
(* Properties.                                                             *)

Steps == {"idle", "queued", "refused", "turn", "complete", "silent"}

TypeOK ==
  /\ row \in Row /\ live \in [Op -> Allocation]
  /\ mode \in {"running", "draining", "stopped"}
  /\ pend \in [op : 0 .. MaxOps, key : Keys \cup {NoKey}]
  /\ calls \subseteq Op /\ answered \subseteq Op
  /\ worker \in [Op -> Steps]
  /\ spent \in [Op -> 0 .. MaxSpend]

(* What a run has committed exceeds its token limit by no more than its    *)
(* operations overran their own allowances: no capacity is released while  *)
(* a worker may still use it, and none is reserved twice.                  *)
WithinLimit ==
  ChargeOf(row.alloc, Ours(row.alloc)) <= row.limit + OverrunOf(row.alloc, Ours(row.alloc))

(* What the model turns of all runs have burned, reported or not, stays    *)
(* within the aggregate authorization, except for what single operations   *)
(* burned beyond their own allowances.                                     *)
BurnedWithinAuthority ==
  SumFunctionOnSet([o \in Op |-> Least(spent[o], row.alloc[o].reserved)], Op) <= row.ceiling

(* "It is not zero usage": whatever a turn has burned, told or untold,     *)
(* the durable ledger charges it up to its allowance, after any crash.     *)
NothingFree ==
  \A o \in Op : Charge(row.alloc[o]) >= Least(spent[o], row.alloc[o].reserved)

Sent(o) == worker[o] # "idle"

(* No operation is repeated while the outcome of an earlier one of the     *)
(* same key is unknown, in any run, unless the client said so.             *)
NoBlindRepeat ==
  [][\A o, p \in Op :
       /\ ~Sent(o) /\ Sent(o)' /\ Sent(p)
       /\ row.alloc[p].key = row.alloc[o].key
       => p \in answered \/ row.retry]_vars

(* An operation reaches a model no more often than was authorized, however *)
(* often the task is stopped, crashed and continued.                       *)
RetriesBounded ==
  [][\A o \in Op : ~Sent(o) /\ Sent(o)' =>
       Cardinality({p \in Op : /\ Sent(p) /\ worker[p] # "refused"
                               /\ row.alloc[p].key = row.alloc[o].key}) < row.attempts]_vars
-----------------------------------------------------------------------------
(* Why these hold.                                                         *)

(* A commit that fails loses a state at most: amounts are always saved.    *)
Amounts(r)   == <<r.run, r.reserved, r.actual, r.final>>
AmountsSaved == \A o \in Op : Amounts(row.alloc[o]) = Amounts(live[o])

(* A final count is what the turn burned, and no turn is left to burn more.*)
FinalIsOver ==
  \A o \in Op : live[o].final =>
    /\ live[o].actual = spent[o]
    /\ worker[o] \notin {"queued", "turn"} /\ pend.op # o

NoTurnNoTokens ==
  \A o \in Op : worker[o] \in {"idle", "queued", "refused"} =>
    spent[o] = 0 /\ live[o].actual = 0

SentIsRecorded ==
  \A o \in Op : Sent(o) =>
    /\ live[o].run # 0 /\ pend.op # o
    /\ live[o].key = row.alloc[o].key
    /\ live[o].state # "none" /\ row.alloc[o].state # "none"

(* A state that no longer blocks a repetition was earned by an answer.     *)
ResolvedIsAnswered ==
  \A o \in Op : \A r \in {live[o], row.alloc[o]} :
    /\ r.state \in Resolved /\ Sent(o) => o \in answered
    /\ r.state = "not_attempted" => worker[o] \in {"idle", "refused"} /\ pend.op # o

(* What admit_operation has seen still holds at the send.                  *)
Tried(k) == {p \in Op : Sent(p) /\ worker[p] # "refused" /\ row.alloc[p].key = k}

AdmissionStands ==
  pend # Idle =>
    /\ mode = "running" /\ pend.op \in Op /\ live[pend.op].run # 0
    /\ live[pend.op].state = "open" =>
         /\ live[pend.op].key = pend.key /\ row.alloc[pend.op].key = pend.key
         /\ row.alloc[pend.op].state = "open"
    /\ Cardinality(Tried(pend.key)) < row.attempts
    /\ \A p \in Op : Sent(p) /\ row.alloc[p].key = pend.key => p \in answered \/ row.retry

Sound == /\ AmountsSaved /\ FinalIsOver /\ NoTurnNoTokens /\ SentIsRecorded
         /\ ResolvedIsAnswered /\ AdmissionStands

(* What an operation may have burned by the authority it was given: its    *)
(* allowance, until a final count gives back the rest.                     *)
Covered(r) == IF r.final THEN Least(r.actual, r.reserved) ELSE r.reserved
CoveredOf(alloc, S) == SumFunctionOnSet([o \in Op |-> Covered(alloc[o])], S)

(* The limits were granted for what was covered already, and nothing but a *)
(* reservation within them adds to it; overruns are charged but not        *)
(* covered.  A continuation begins with operations of its own only.        *)
Funded == /\ \A o \in Op : live[o].run <= row.run
          /\ CoveredOf(live, Ours(live)) <= row.limit
          /\ CoveredOf(live, Op) <= row.ceiling
=============================================================================
