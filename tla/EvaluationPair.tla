---------------------------- MODULE EvaluationPair ----------------------------
(***************************************************************************)
(* The paid evaluation of two arms, each through six stages by one         *)
(* controller.  A stage is a grant reserved in the arm's durable ledger    *)
(* and spent by a child run, which reserves every priced operation in a    *)
(* ledger of its own before it is sent; what has no certain outcome keeps  *)
(* its reservation and stops everything.  Another thread may cancel.       *)
(*                                                                         *)
(* Costs are in the units of the tariff; tokens obey the same rules and    *)
(* are left out.  A crash needs no action: nothing is resumed, and an      *)
(* invariant holds between any two transactions.                           *)
(***************************************************************************)
EXTENDS Integers, Sequences, FiniteSetsExt

CONSTANTS
  Ceiling,   \* cost ceiling of an arm
  Fee,       \* price of a count, a poll or a cancellation
  Counts,    \* input costs the provider may count
  MaxOut,    \* output allowance of a generation
  MaxPolls,
  Arms       \* the arms, run one after the other (the code has 2)

ASSUME EvaluationAssumptions ==
  /\ Ceiling \in Nat /\ Ceiling % 4 = 0 /\ Ceiling \div 4 >= 6
  /\ Fee \in Nat /\ Counts \subseteq Nat \ {0} /\ MaxOut \in Nat /\ MaxPolls \in Nat
  /\ Arms \in Nat \ {0}

VARIABLES
  pair,     \* the controller: state, arm, stage, calls in the stage, cancel flag
  at,       \* where its step() is
  ledger,   \* arm -> the arm's ledger
  agent,    \* the child run of the stage
  purse,    \* the child's ledger
  call,     \* the gateway of the child's present step
  stopping, \* cancel() : "no", "flagged" (its first line), "returned"
  owed,     \* history: arm -> what the provider may bill for what was sent
  accepted, \* history: arm -> the stages whose result was accepted
  late      \* history: the requests, cancellations apart, sent after cancel() returned

evars == <<pair, at, ledger, agent, purse, call, stopping, owed, accepted, late>>

(* Role, generation slots; a grant is for three of each phase.             *)
Schedule == <<[phase |-> "work", slots |-> 3], [phase |-> "verification", slots |-> 1],
              [phase |-> "work", slots |-> 3], [phase |-> "verification", slots |-> 1],
              [phase |-> "work", slots |-> 2], [phase |-> "verification", slots |-> 2]>>
Phases == {"work", "verification"}

(* At most one attempt of a ledger is not settled: reserve() refuses.      *)
NoAttempt == [phase |-> "work", reserved |-> 0, state |-> "none"]
Attempt == [phase : Phases, reserved : Nat,
            state : {"none", "pending", "dispatched", "uncertain"}]
Ledger == [work : Nat, verification : Nat, open : Attempt]
NewLedger == [work |-> 0, verification |-> 0, open |-> NoAttempt]

Ended == {"cancelled", "resource_limit", "stopped"}
NoChild == [state |-> "none", grant |-> 0, cancel |-> FALSE]
NoCall == [op |-> "none", passed |-> FALSE, sent |-> FALSE, counted |-> 0, created |-> FALSE,
           over |-> FALSE, polls |-> 0, aux |-> 0]

TypeOKEvaluation ==
  /\ pair \in [state : {"running", "stopped_partial", "uncertain", "completed"}, arm : 1 .. Arms,
               stage : DOMAIN Schedule, calls : 0 .. 3, cancel : BOOLEAN, captured : BOOLEAN]
  /\ at \in {"idle", "starting", "granted", "started", "calling", "settled", "returned", "failed"}
  /\ ledger \in [1 .. Arms -> Ledger] /\ purse \in Ledger
  /\ agent \in [state : {"none", "running", "uncertain", "completed", "captured"} \cup Ended,
                grant : Nat, cancel : BOOLEAN]
  /\ call \in [op : {"none", "count", "create", "retrieve", "cancel"}, passed : BOOLEAN,
               sent : BOOLEAN, counted : Counts \cup {0}, created : BOOLEAN, over : BOOLEAN,
               polls : 0 .. MaxPolls, aux : 0 .. MaxPolls + 1]
  /\ stopping \in {"no", "flagged", "returned"}
  /\ owed \in [1 .. Arms -> Nat] /\ accepted \in [1 .. Arms -> 0 .. 6]
  /\ late \in Nat

EvaluationInit ==
  /\ pair = [state |-> "running", arm |-> 1, stage |-> 1, calls |-> 0, cancel |-> FALSE,
             captured |-> FALSE]
  /\ at = "idle" /\ stopping = "no"
  /\ ledger = [a \in 1 .. Arms |-> NewLedger] /\ purse = NewLedger
  /\ agent = NoChild /\ call = NoCall
  /\ owed = [a \in 1 .. Arms |-> 0] /\ accepted = [a \in 1 .. Arms |-> 0]
  /\ late = 0

-----------------------------------------------------------------------------
(* AttemptLedger.                                                          *)
Settled(l) == l.open = NoAttempt
Charged(l) == l.work + l.verification
Held(l) == Charged(l) + l.open.reserved

(* reserve() under limits: with a protected part for verification.         *)
Admits(l, limit, protected, phase, maximum) ==
  /\ Settled(l) /\ maximum > 0
  /\ Charged(l) + maximum <= limit
  /\ phase = "work" => l.work + maximum <= limit - protected

Reserved(l, phase, maximum) ==
  [l EXCEPT !.open = [phase |-> phase, reserved |-> maximum, state |-> "pending"]]
Dispatched(l) == [l EXCEPT !.open.state = "dispatched"]

(* reconcile(): with a charge, or with None unless it was settled already. *)
Charge(l, cost) == [l EXCEPT ![l.open.phase] = @ + cost, !.open = NoAttempt]
Unknown(l) == IF Settled(l) THEN l ELSE [l EXCEPT !.open.state = "uncertain"]

-----------------------------------------------------------------------------
(* Grants (_start).                                                        *)
Protected == Ceiling \div 4
Phase == Schedule[pair.stage].phase
Mine == ledger[pair.arm]

Baseline(s) ==
  IF Schedule[s].phase = "work" THEN (Ceiling - Protected) \div 3
  ELSE IF s = Len(Schedule) THEN Protected - 2 * (Protected \div 3) ELSE Protected \div 3

Later(phases) == {s \in pair.stage + 1 .. Len(Schedule) : Schedule[s].phase \in phases}
Baselines(stages) == SumFunctionOnSet([s \in DOMAIN Schedule |-> Baseline(s)], stages)

Granted_WholeRest == Ceiling - Charged(Mine)

Granted ==
  LET available == Ceiling - Charged(Mine) - Baselines(Later(Phases)) IN
  IF Phase = "work"
  THEN Min({available, Ceiling - Protected - Mine.work - Baselines(Later({"work"}))})
  ELSE available

(* The state the close of a stage leaves, from the one it was called in.   *)
Uncertain == agent.state = "uncertain" \/ ~Settled(purse)
After(state) == IF Uncertain THEN "uncertain" ELSE state

(* _close: the child's usage becomes the charge of the stage.              *)
CloseStage ==
  /\ ledger' = [ledger EXCEPT ![pair.arm] =
                  IF Settled(purse) THEN Charge(@, Charged(purse)) ELSE Unknown(@)]
  /\ agent' = NoChild /\ purse' = NewLedger /\ call' = NoCall

BeginStep ==
  /\ at = "idle" /\ pair.state = "running" /\ ~pair.captured
  /\ at' = IF pair.cancel THEN "failed" ELSE IF agent = NoChild THEN "starting" ELSE "started"
  /\ UNCHANGED <<pair, ledger, agent, purse, call, stopping, owed, accepted, late>>

GrantStage ==
  /\ at = "starting"
  /\ \/ /\ Admits(Mine, Ceiling, Protected, Phase, Granted)
        /\ ledger' = [ledger EXCEPT ![pair.arm] = Reserved(@, Phase, Granted)]
        /\ at' = "granted"
     \/ at' = "failed" /\ UNCHANGED ledger    \* the arm's time is over
  /\ UNCHANGED <<pair, agent, purse, call, stopping, owed, accepted, late>>

OpenStage ==
  /\ at = "granted"
  /\ ledger' = [ledger EXCEPT ![pair.arm] = Dispatched(@)]
  /\ \/ at' = "started" /\ agent' = [NoChild EXCEPT !.state = "running", !.grant = Mine.open.reserved]
        /\ pair' = [pair EXCEPT !.calls = 0]
     \/ at' = "failed" /\ UNCHANGED <<agent, pair>>
  /\ UNCHANGED <<purse, call, stopping, owed, accepted, late>>

(* The flag of the pair is looked at once more, for a cancellation that    *)
(* found no child to flag.                                                 *)
Flagged_ChildOnly == agent.cancel

Flagged == agent.cancel \/ pair.cancel

CallChild ==
  /\ at = "started"
  /\ pair' = [pair EXCEPT !.calls = @ + 1]
  /\ \/ /\ ~Flagged /\ at' = "calling"
        /\ agent' = [agent EXCEPT !.state = "uncertain"]   \* until the step has ended well
     \/ /\ Flagged /\ at' = "failed"
        /\ agent' = [agent EXCEPT !.state = "cancelled", !.cancel = TRUE]
     \/ at' = "failed" /\ agent' = [agent EXCEPT !.state = "resource_limit"]
  /\ call' = NoCall
  /\ UNCHANGED <<ledger, purse, stopping, owed, accepted, late>>
-----------------------------------------------------------------------------
(* One step of the child: ResponsesEvaluation, BudgetedGateway and its     *)
(* GatewayPermit.  A reservation and its dispatch are two transactions.    *)
AuxiliaryLimit_PollsOnly == MaxPolls

AuxiliaryLimit == MaxPolls + 1

Quote == call.counted + MaxOut + AuxiliaryLimit * Fee
Price(op) == CASE op = "count"  -> IF Fee > 1 THEN Fee ELSE 1
               [] op = "create" -> Quote
               [] OTHER         -> 0

Permitted(op) ==
  CASE op = "count"    -> call.counted = 0
    [] op = "create"   -> call.counted > 0 /\ ~call.created
    [] op = "retrieve" -> call.created /\ ~call.over /\ call.polls < MaxPolls /\ ~agent.cancel
    [] op = "cancel"   -> call.created /\ ~call.over /\ call.aux = call.polls

(* admit: priced operations are reserved, the others belong to a price.    *)
Admit(op) ==
  /\ at = "calling" /\ call.op = "none" /\ Permitted(op)
  /\ IF Price(op) = 0
     THEN /\ call' = [call EXCEPT !.op = op, !.aux = @ + 1,
                                  !.polls = IF op = "retrieve" THEN @ + 1 ELSE @]
          /\ UNCHANGED <<at, purse, agent>>
     ELSE \/ /\ Admits(purse, agent.grant, 1, "verification", Price(op))
             /\ purse' = Dispatched(Reserved(purse, "verification", Price(op)))
             /\ call' = [call EXCEPT !.op = op] /\ UNCHANGED <<at, agent>>
          \/ /\ ~Admits(purse, agent.grant, 1, "verification", Price(op))
             /\ agent' = [agent EXCEPT !.state = "resource_limit"] /\ at' = "failed"
             /\ UNCHANGED <<purse, call>>
  /\ UNCHANGED <<pair, ledger, stopping, owed, accepted, late>>

(* transport.exchange: only a cancellation passes when cancelled.  Then a  *)
(* thread of its own writes it to the worker process, which sends it:      *)
(* nobody looks at the flag again before the request is out, and a         *)
(* controller that gave up has not ended the worker yet.                   *)
HandOver ==
  /\ at = "calling" /\ call.op # "none" /\ ~call.passed /\ (agent.cancel => call.op = "cancel")
  /\ call' = [call EXCEPT !.passed = TRUE]
  /\ UNCHANGED <<pair, at, ledger, agent, purse, stopping, owed, accepted, late>>

Billable == IF call.op = "create" THEN call.counted + MaxOut ELSE Fee

Transmit ==
  /\ at \in {"calling", "failed"} /\ call.passed /\ ~call.sent
  /\ call' = [call EXCEPT !.sent = TRUE]
  /\ owed' = [owed EXCEPT ![pair.arm] = @ + Billable]
  /\ late' = IF stopping = "returned" /\ call.op # "cancel" THEN late + 1 ELSE late
  /\ UNCHANGED <<pair, at, ledger, agent, purse, stopping, accepted>>

(* acknowledge: the count is settled, the others wait for settle().        *)
Answered == [call EXCEPT !.op = "none", !.passed = FALSE, !.sent = FALSE]

Acknowledge ==
  /\ at = "calling" /\ call.sent
  /\ \/ /\ call.op = "count"
        /\ \E n \in Counts : call' = [Answered EXCEPT !.counted = n]
        /\ purse' = Charge(purse, Fee)
     \/ /\ call.op # "count" /\ UNCHANGED purse
        /\ \E over \in {call.op = "cancel", TRUE} :
             call' = [Answered EXCEPT !.created = TRUE, !.over = over]
  /\ UNCHANGED <<pair, at, ledger, agent, stopping, owed, accepted, late>>

(* The terminal response has usage that fits what was counted.             *)
Settle ==
  /\ at = "calling" /\ call.op = "none" /\ call.over
  /\ \E out \in 0 .. MaxOut :
       /\ purse' = Charge(purse, call.counted + out + call.aux * Fee)
       /\ owed' = [owed EXCEPT ![pair.arm] = @ - (MaxOut - out)]
  /\ at' = "settled"
  /\ UNCHANGED <<pair, ledger, agent, call, stopping, accepted, late>>

(* Any exception: a lost answer, a wrong identity, usage that does not     *)
(* fit, a full disk.  Never sent again; a settled charge is kept.          *)
Retained == Unknown(purse)

Break ==
  /\ at \in {"calling", "settled"}
  /\ purse' = Retained /\ at' = "failed"
  /\ UNCHANGED <<pair, ledger, agent, call, stopping, owed, accepted, late>>

Conclude ==
  /\ at = "settled"
  /\ \E state \in {"running", "completed", "resource_limit", "stopped"} :
       agent' = [agent EXCEPT !.state = IF agent.cancel THEN "cancelled" ELSE state]
  /\ at' = "returned"
  /\ UNCHANGED <<pair, ledger, purse, call, stopping, owed, accepted, late>>

-----------------------------------------------------------------------------
(* What the pair makes of it.                                              *)
NextStage ==
  IF pair.stage < Len(Schedule) THEN [pair EXCEPT !.stage = @ + 1]
  ELSE IF pair.arm < Arms THEN [pair EXCEPT !.stage = 1, !.arm = @ + 1]
  ELSE [pair EXCEPT !.state = "completed"]

AcceptStage ==
  /\ at = "returned" /\ agent.state = "completed"
  /\ \/ /\ CloseStage /\ at' = "idle" /\ pair' = NextStage
        /\ accepted' = [accepted EXCEPT ![pair.arm] = @ + 1]
     \/ at' = "failed" /\ UNCHANGED <<ledger, agent, purse, call, pair, accepted>>
  /\ UNCHANGED <<stopping, owed, late>>

NextCall ==
  /\ at = "returned" /\ agent.state = "running" /\ pair.calls < Schedule[pair.stage].slots
  /\ at' = "idle" /\ UNCHANGED <<pair, ledger, agent, purse, call, stopping, owed, accepted, late>>

StopShort ==
  /\ at = "returned" /\ agent.state # "completed"
  /\ agent.state = "running" => pair.calls >= Schedule[pair.stage].slots
  /\ CloseStage /\ pair' = [pair EXCEPT !.state = After("stopped_partial")]
  /\ at' = "idle" /\ UNCHANGED <<stopping, owed, accepted, late>>

(* The handler of every exception in step().                               *)
Handle ==
  /\ at = "failed" /\ at' = "idle"
  /\ \/ /\ agent # NoChild /\ CloseStage
        /\ pair' = [pair EXCEPT !.state = After("stopped_partial")]
     \/ /\ agent = NoChild /\ UNCHANGED <<ledger, agent, purse, call>>
        /\ pair' = [pair EXCEPT !.state = IF Settled(Mine) THEN "stopped_partial" ELSE "uncertain"]
     \/ /\ agent # NoChild /\ agent' = [agent EXCEPT !.state = "captured"]   \* _close fails too
        /\ pair' = [pair EXCEPT !.state = "uncertain"] /\ UNCHANGED <<ledger, purse, call>>
  /\ UNCHANGED <<stopping, owed, accepted, late>>

FinishPair ==
  /\ at = "idle" /\ ~pair.captured /\ agent.state # "captured"
  /\ LET state == IF pair.state = "running" THEN "stopped_partial" ELSE pair.state IN
     \/ /\ agent = NoChild /\ UNCHANGED <<ledger, agent, purse, call>>
        /\ pair' = [pair EXCEPT !.state = state, !.captured = TRUE]
     \/ /\ agent # NoChild /\ CloseStage
        /\ pair' = [pair EXCEPT !.state = After("stopped_partial"), !.captured = TRUE]
  /\ UNCHANGED <<at, stopping, owed, accepted, late>>

(* cancel(), by another thread and without the lock.                       *)
FlagPair ==
  /\ stopping = "no" /\ stopping' = "flagged" /\ pair' = [pair EXCEPT !.cancel = TRUE]
  /\ UNCHANGED <<at, ledger, agent, purse, call, owed, accepted, late>>

FlagChild ==
  /\ stopping = "flagged" /\ stopping' = "returned"
  /\ agent' = IF agent = NoChild THEN agent ELSE [agent EXCEPT !.cancel = TRUE]
  /\ UNCHANGED <<pair, at, ledger, purse, call, owed, accepted, late>>

EvaluationNext ==
  \/ BeginStep \/ GrantStage \/ OpenStage \/ CallChild
  \/ \E op \in {"count", "create", "retrieve", "cancel"} : Admit(op)
  \/ HandOver \/ Transmit \/ Acknowledge \/ Settle \/ Break \/ Conclude
  \/ AcceptStage \/ NextCall \/ StopShort \/ Handle \/ FinishPair
  \/ FlagPair \/ FlagChild

EvaluationSpec == EvaluationInit /\ [][EvaluationNext]_evars

-----------------------------------------------------------------------------
(* Properties.                                                             *)

(* Whatever breaks where, the provider can never bill an arm for more than *)
(* its ledger holds, nor its ledger hold more than the ceiling; and the    *)
(* child can never spend more than the grant of its stage ("A              *)
(* pending/uncertain attempt continues to consume its full reservation").  *)
BillCovered ==
  /\ \A a \in 1 .. Arms : owed[a] <= Held(ledger[a]) /\ Held(ledger[a]) <= Ceiling
  /\ Held(purse) <= agent.grant
  /\ owed[pair.arm] <= Charged(Mine) + Held(purse) + IF agent = NoChild THEN Mine.open.reserved ELSE 0

(* As long as the pair runs, every stage still to come can be granted its  *)
(* baseline, however the earlier ones spent what they had ("Role grants    *)
(* protect future baseline allocations").                                  *)
StagesFunded ==
  pair.state = "running" =>
    /\ agent # NoChild => agent.grant >= Baseline(pair.stage)
    /\ at = "starting" => /\ Granted >= Baseline(pair.stage)
                          /\ Admits(Mine, Ceiling, Protected, Phase, Granted)

(* Once cancel() has returned, no call passes its check any more but the   *)
(* cancellation of the running response, so that at most one request is    *)
(* still sent, the one that had passed its check by then; and nothing at   *)
(* all passes once an outcome is unknown ("inspect custodian capture; no   *)
(* retry").                                                                *)
Silenced ==
  [][/\ call'.passed /\ ~call.passed => /\ stopping = "returned" => call.op = "cancel"
                                       /\ purse.open.state # "uncertain"
                                       /\ Mine.open.state = "dispatched"
     /\ late' <= 1]_evars
=============================================================================
