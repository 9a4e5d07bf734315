-------------------------- MODULE EvaluationProofs --------------------------
(***************************************************************************)
(* Proofs about the paid evaluation of two arms (EvaluationPair), for any  *)
(* tariff, limits and number of interruptions: what a call holds, what was *)
(* billed and what the stages that are left still cost.                    *)
(***************************************************************************)
EXTENDS EvaluationPair, SequenceTheorems, SumTheorems, TLAPS

-----------------------------------------------------------------------------
(* The paid evaluation of two arms: EvaluationPair.                        *)

(* The controller and its child.  A stage's grant is what its child may    *)
(* spend, and only a step under way leaves an attempt open.                *)
PairShape ==
  /\ at # "idle" => pair.state = "running" /\ ~pair.captured
  /\ agent.state = "none" => agent = NoChild
  /\ at \in {"starting", "granted"} => agent = NoChild
  /\ at \in {"started", "calling", "settled", "returned"} => agent # NoChild
  /\ agent = NoChild => purse = NewLedger
  /\ agent # NoChild =>
       Mine.open = [phase |-> Phase, reserved |-> agent.grant, state |-> "dispatched"]
  /\ at = "granted" => Mine.open.phase = Phase /\ Mine.open.state = "pending"
  /\ at \in {"idle", "starting"} /\ pair.state = "running" /\ agent = NoChild => Settled(Mine)
  /\ pair.state = "running" => Mine.open.state # "uncertain"
  /\ at \in {"idle", "started"} /\ pair.state = "running" /\ agent # NoChild =>
       pair.calls < Schedule[pair.stage].slots
  /\ pair.state = "running" => accepted[pair.arm] = pair.stage - 1
  /\ \A a \in 1 .. Arms : a > pair.arm => ledger[a] = NewLedger /\ owed[a] = 0 /\ accepted[a] = 0

CountPrice == IF Fee > 1 THEN Fee ELSE 1

(* What the child has reserved is the price of what it is doing.           *)
CallShape ==
  /\ ~Settled(purse) /\ at # "calling" =>
       at \in {"failed", "idle"} /\ purse.open.state = "uncertain"
  /\ at = "idle" /\ pair.state = "running" => Settled(purse)
  /\ at = "calling" =>
       /\ call.sent => call.op # "none"
       /\ call.op = "none" /\ ~call.created => Settled(purse)
       /\ call.op = "count" =>
            /\ call.counted = 0 /\ ~call.created
            /\ purse.open = [phase |-> "verification", reserved |-> CountPrice, state |-> "dispatched"]
       /\ call.op = "create" => ~call.created
       /\ call.op # "none" => ~call.over
       /\ call.op \in {"retrieve", "cancel"} => call.created /\ call.aux > 0
       /\ call.op = "create" \/ call.created =>
            /\ call.counted > 0
            /\ purse.open = [phase |-> "verification", reserved |-> Quote, state |-> "dispatched"]
       /\ ~call.created => call.aux = 0 /\ call.polls = 0 /\ ~call.over
       /\ \/ call.aux = call.polls
          \/ call.aux = call.polls + 1 /\ (call.op = "cancel" \/ call.over)

(* What was sent of the present step and is not charged yet.               *)
Unsent == IF call.op \in {"retrieve", "cancel"} /\ ~call.sent THEN 1 ELSE 0
InFlight ==
  IF call.created THEN call.counted + MaxOut + (call.aux - Unsent) * Fee
  ELSE IF call.sent THEN IF call.op = "create" THEN call.counted + MaxOut ELSE Fee
  ELSE 0

(* As long as every outcome is known, the bill is what is charged and what *)
(* is in flight, to the unit; and no reservation is exceeded.              *)
Bill ==
  /\ at = "calling" => owed[pair.arm] = Charged(Mine) + Charged(purse) + InFlight
  /\ at # "calling" /\ Settled(purse) /\ Mine.open.state # "uncertain" =>
       owed[pair.arm] = Charged(Mine) + Charged(purse)
  /\ ~Settled(purse) => owed[pair.arm] <= Charged(Mine) + Held(purse)
  /\ Held(purse) <= agent.grant
  /\ \A a \in 1 .. Arms : owed[a] <= Held(ledger[a]) /\ Held(ledger[a]) <= Ceiling

(* The baselines of the stages from s on.                                  *)
Rest(s, phases) == Baselines({j \in s .. Len(Schedule) : Schedule[j].phase \in phases})

(* What is left is enough for every stage to come.                         *)
Solvent ==
  /\ pair.state = "running" =>
       /\ Charged(Mine) + Rest(pair.stage, Phases) <= Ceiling
       /\ Mine.work + Rest(pair.stage, {"work"}) <= Ceiling - Protected
  /\ agent # NoChild \/ at = "granted" =>
       /\ Mine.open.reserved >= Baseline(pair.stage)
       /\ Held(Mine) + Rest(pair.stage + 1, Phases) <= Ceiling
       /\ Phase = "work" =>
            Mine.work + Mine.open.reserved + Rest(pair.stage + 1, {"work"}) <= Ceiling - Protected

(* A cancellation that has returned has reached the child that is calling. *)
PairFlags ==
  /\ stopping # "no" => pair.cancel
  /\ at = "calling" /\ stopping = "returned" => agent.cancel

PairSound == TypeOKEvaluation /\ PairShape /\ CallShape /\ Bill /\ Solvent /\ PairFlags

(* A request that was handed over and is not out yet is paid for, even     *)
(* after the controller gave up; and after cancel() there is one at most.  *)
Handed ==
  /\ call.sent => call.passed
  /\ call.passed => call.op # "none" /\ (at \in {"calling", "failed"} \/ pair.state # "running")
  /\ at = "failed" /\ call.passed /\ ~call.sent =>
       /\ agent # NoChild /\ purse.open.state = "uncertain"
       /\ owed[pair.arm] + Billable <= Charged(Mine) + Held(purse)
  /\ late <= 1 /\ (stopping # "returned" => late = 0)
  /\ call.passed /\ ~call.sent /\ call.op # "cancel" => late = 0

-----------------------------------------------------------------------------
LEMMA SixStages ==
  /\ Len(Schedule) = 6 /\ DOMAIN Schedule = 1 .. 6
  /\ \A s \in 1 .. 6 : Schedule[s].slots \in 1 .. 3 /\ Schedule[s].phase \in Phases
  /\ \A s \in 1 .. 6 : Schedule[s].phase = IF s \in {1, 3, 5} THEN "work" ELSE "verification"
BY DEF Schedule, Phases

LEMMA Baselines6 ==
  /\ Protected \in Nat /\ Ceiling = 4 * Protected /\ Protected >= 6
  /\ \A s \in 1 .. 6 : Baseline(s) \in Nat /\ Baseline(s) >= 1
  /\ \A s \in {1, 3, 5} : Baseline(s) = Protected
  /\ Baseline(2) + Baseline(4) + Baseline(6) = Protected
<1>1. Protected \in Nat /\ Ceiling = 4 * Protected /\ Protected >= 6
  BY EvaluationAssumptions DEF Protected
<1>2. \A s \in {1, 3, 5} : Baseline(s) = Protected
  BY <1>1, SixStages DEF Baseline
<1>3. Baseline(2) = Protected \div 3 /\ Baseline(4) = Protected \div 3
  BY SixStages DEF Baseline
<1>4. Baseline(6) = Protected - 2 * (Protected \div 3)
  BY SixStages DEF Baseline
<1>5. Protected \div 3 \in Nat /\ Protected \div 3 >= 1 /\ Protected - 2 * (Protected \div 3) >= 1
  BY <1>1
<1>6. \A s \in 1 .. 6 : s \in {1, 3, 5} \/ s = 2 \/ s = 4 \/ s = 6
  OBVIOUS
<1> HIDE DEF Baseline
<1> QED BY <1>1, <1>2, <1>3, <1>4, <1>5, <1>6

LEMMA RestEnd == \A W : Rest(7, W) = 0
<1> TAKE W
<1>1. {j \in 7 .. Len(Schedule) : Schedule[j].phase \in W} = {}
  BY SixStages
<1> QED BY <1>1, SumEmpty DEF Rest, Baselines

LEMMA RestStep ==
  ASSUME NEW W, NEW s \in 1 .. 6
  PROVE  /\ Rest(s, W) \in Nat /\ Rest(s + 1, W) \in Nat
         /\ Rest(s, W) = Rest(s + 1, W) + IF Schedule[s].phase \in W THEN Baseline(s) ELSE 0
<1> DEFINE f == [j \in DOMAIN Schedule |-> Baseline(j)]
           S == {j \in s .. Len(Schedule) : Schedule[j].phase \in W}
           T == {j \in s + 1 .. Len(Schedule) : Schedule[j].phase \in W}
<1>1. \A j \in 1 .. 6 : f[j] \in Nat /\ f[j] = Baseline(j)
  BY SixStages, Baselines6
<1>2. S \in SUBSET (1 .. 6) /\ T \in SUBSET (1 .. 6)
  <2>1. Len(Schedule) = 6
    BY SixStages
  <2>2. \A j \in s .. 6 : j \in 1 .. 6
    OBVIOUS
  <2>3. \A j \in s + 1 .. 6 : j \in 1 .. 6
    OBVIOUS
  <2> QED BY <2>1, <2>2, <2>3, Zenon
<1>3. IsFiniteSet(S) /\ IsFiniteSet(T)
  <2>1. IsFiniteSet(1 .. 6)
    <3>1. 1 \in Int /\ 6 \in Int
      OBVIOUS
    <3> QED BY <3>1, FS_Interval, Zenon
  <2> HIDE DEF S, T
  <2> QED BY <1>2, <2>1, FS_Subset
<1>4. Rest(s, W) = SumFunctionOnSet(f, S) /\ Rest(s + 1, W) = SumFunctionOnSet(f, T)
  BY DEF Rest, Baselines
<1>5. IF Schedule[s].phase \in W THEN s \in S /\ S \ {s} = T ELSE S = T
  BY SixStages
<1> HIDE DEF f, S, T
<1>6. SumFunctionOnSet(f, S) \in Nat /\ SumFunctionOnSet(f, T) \in Nat
  BY <1>1, <1>2, <1>3, SumNat
<1>7. CASE Schedule[s].phase \in W
  <2>1. s \in S /\ S \ {s} = T /\ \A j \in S : f[j] \in Int
    BY <1>1, <1>2, <1>5, <1>7
  <2>2. SumFunctionOnSet(f, S) = f[s] + SumFunctionOnSet(f, S \ {s})
    BY <1>3, <2>1, SumRemove, ZenonT(30)
  <2>3. f[s] = Baseline(s)
    BY <1>1
  <2>4. PICK r \in Nat, n \in Nat : r = SumFunctionOnSet(f, S) /\ n = SumFunctionOnSet(f, T)
    BY <1>6
  <2>5. PICK b \in Nat : b = Baseline(s)
    BY Baselines6
  <2>6. r = n + b
    <3>1. r = b + n
      BY <2>1, <2>2, <2>3, <2>4, <2>5, Zenon
    <3> QED BY <3>1
  <2> QED BY <1>4, <1>7, <2>4, <2>5, <2>6, Zenon
<1>8. CASE Schedule[s].phase \notin W
  BY <1>4, <1>5, <1>6, <1>8
<1> QED BY <1>7, <1>8

LEMMA RestAll == Rest(1, Phases) = Ceiling /\ Rest(1, {"work"}) = Ceiling - Protected
<1>1. \A s \in 1 .. 6 :
        /\ Rest(s, Phases) \in Nat /\ Rest(s + 1, Phases) \in Nat
        /\ Rest(s, Phases) = Rest(s + 1, Phases) + Baseline(s)
  BY RestStep, SixStages
<1>2. \A s \in 1 .. 6 :
        /\ Rest(s, {"work"}) \in Nat /\ Rest(s + 1, {"work"}) \in Nat
        /\ Rest(s, {"work"}) = Rest(s + 1, {"work"}) + IF s \in {1, 3, 5} THEN Baseline(s) ELSE 0
  BY RestStep, SixStages
<1>3. Rest(7, Phases) = 0 /\ Rest(7, {"work"}) = 0
  BY RestEnd
<1>4. /\ Rest(6, Phases) = Baseline(6)
      /\ Rest(5, Phases) = Rest(6, Phases) + Baseline(5) /\ Rest(4, Phases) = Rest(5, Phases) + Baseline(4)
      /\ Rest(3, Phases) = Rest(4, Phases) + Baseline(3) /\ Rest(2, Phases) = Rest(3, Phases) + Baseline(2)
      /\ Rest(1, Phases) = Rest(2, Phases) + Baseline(1)
  BY <1>1, <1>3, Baselines6
<1>5. /\ Rest(6, {"work"}) = 0 /\ Rest(5, {"work"}) = Baseline(5) /\ Rest(4, {"work"}) = Baseline(5)
      /\ Rest(3, {"work"}) = Baseline(5) + Baseline(3) /\ Rest(2, {"work"}) = Baseline(5) + Baseline(3)
      /\ Rest(1, {"work"}) = Baseline(5) + Baseline(3) + Baseline(1)
  BY <1>2, <1>3, Baselines6
<1>6. \A s \in 1 .. 6 : Baseline(s) \in Nat
  BY Baselines6
<1> QED BY <1>4, <1>5, <1>6, Baselines6

-----------------------------------------------------------------------------
(* Ledgers.                                                                *)
LEMMA LedgerNumbers ==
  ASSUME NEW l \in Ledger
  PROVE  /\ l.work \in Nat /\ l.verification \in Nat /\ l.open \in Attempt
         /\ l.open.reserved \in Nat /\ l.open.phase \in Phases
         /\ Charged(l) \in Nat /\ Held(l) \in Nat /\ Held(l) = Charged(l) + l.open.reserved
         /\ Charged(l) = l.work + l.verification
         /\ Settled(l) => Held(l) = Charged(l) /\ l.open.reserved = 0 /\ l.open.state = "none"
BY DEF Ledger, Attempt, Charged, Held, Settled, NoAttempt

LEMMA NewLedgerFits ==
  /\ NewLedger \in Ledger /\ Settled(NewLedger) /\ Charged(NewLedger) = 0
  /\ Held(NewLedger) = 0 /\ NewLedger.work = 0
BY DEF NewLedger, Ledger, Attempt, NoAttempt, Settled, Charged, Held, Phases

LEMMA ReservedLedger ==
  ASSUME NEW l \in Ledger, NEW phase \in Phases, NEW n \in Nat
  PROVE  LET r == Reserved(l, phase, n) IN
         /\ r \in Ledger /\ r.work = l.work /\ r.verification = l.verification
         /\ r.open = [phase |-> phase, reserved |-> n, state |-> "pending"]
BY DEF Reserved, Ledger, Attempt

LEMMA DispatchedLedger ==
  ASSUME NEW l \in Ledger
  PROVE  LET r == Dispatched(l) IN
         /\ r \in Ledger /\ r.work = l.work /\ r.verification = l.verification
         /\ r.open = [phase |-> l.open.phase, reserved |-> l.open.reserved, state |-> "dispatched"]
BY DEF Dispatched, Ledger, Attempt

LEMMA UnknownLedger ==
  ASSUME NEW l \in Ledger, ~Settled(l)
  PROVE  LET r == Unknown(l) IN
         /\ r \in Ledger /\ r.work = l.work /\ r.verification = l.verification
         /\ r.open.reserved = l.open.reserved /\ r.open.state = "uncertain" /\ ~Settled(r)
BY DEF Unknown, Ledger, Attempt, Settled, NoAttempt

LEMMA ChargeLedger ==
  ASSUME NEW l \in Ledger, NEW cost \in Nat
  PROVE  LET r == Charge(l, cost) IN
         /\ r \in Ledger /\ Settled(r) /\ Charged(r) = Charged(l) + cost /\ Held(r) = Charged(r)
         /\ r.work = IF l.open.phase = "work" THEN l.work + cost ELSE l.work
<1> DEFINE r == Charge(l, cost)
<1>1. l.open.phase \in {"work", "verification"}
  BY DEF Ledger, Attempt, Phases
<1>2. NoAttempt \in Attempt
  BY DEF NoAttempt, Attempt, Phases
<1>3. CASE l.open.phase = "work"
  <2>1. r = [l EXCEPT !.work = @ + cost, !.open = NoAttempt]
    BY <1>3 DEF Charge
  <2>2. r = [work |-> l.work + cost, verification |-> l.verification, open |-> NoAttempt]
    BY <2>1 DEF Ledger
  <2>3. l.work \in Nat /\ l.verification \in Nat /\ NoAttempt.reserved = 0
    BY DEF Ledger, NoAttempt
  <2> HIDE DEF r
  <2>4. r \in Ledger /\ r.work = l.work + cost /\ r.verification = l.verification /\ r.open = NoAttempt
    BY <1>2, <2>2, <2>3 DEF Ledger
  <2> QED BY <1>3, <2>3, <2>4 DEF r, Settled, Charged, Held
<1>4. CASE l.open.phase = "verification"
  <2>1. r = [l EXCEPT !.verification = @ + cost, !.open = NoAttempt]
    BY <1>4 DEF Charge
  <2>2. r = [work |-> l.work, verification |-> l.verification + cost, open |-> NoAttempt]
    BY <2>1 DEF Ledger
  <2>3. l.work \in Nat /\ l.verification \in Nat /\ NoAttempt.reserved = 0
    BY DEF Ledger, NoAttempt
  <2> HIDE DEF r
  <2>4. r \in Ledger /\ r.work = l.work /\ r.verification = l.verification + cost /\ r.open = NoAttempt
    BY <1>2, <2>2, <2>3 DEF Ledger
  <2> QED BY <1>4, <2>3, <2>4 DEF r, Settled, Charged, Held
<1> QED BY <1>1, <1>3, <1>4

-----------------------------------------------------------------------------
(* The controller.                                                         *)
LEMMA PairNumbers ==
  ASSUME TypeOKEvaluation
  PROVE  /\ pair.arm \in 1 .. Arms /\ pair.stage \in 1 .. 6 /\ pair.calls \in 0 .. 3
         /\ ledger \in [1 .. Arms -> Ledger] /\ Mine \in Ledger /\ purse \in Ledger
         /\ agent.grant \in Nat /\ owed \in [1 .. Arms -> Nat] /\ owed[pair.arm] \in Nat
         /\ Phase \in Phases /\ Ceiling \in Nat /\ Fee \in Nat /\ MaxOut \in Nat
         /\ call.counted \in Nat /\ call.polls \in Nat /\ call.aux \in Nat
         /\ call.polls <= MaxPolls /\ call.aux <= MaxPolls + 1 /\ MaxPolls \in Nat
<1>1. pair.stage \in 1 .. 6
  BY SixStages DEF TypeOKEvaluation
<1>2. Phase \in Phases
  BY <1>1, SixStages DEF Phase
<1>3. /\ call.counted \in Nat /\ call.polls \in Nat /\ call.aux \in Nat
      /\ call.polls <= MaxPolls /\ call.aux <= MaxPolls + 1
  <2>1. /\ call.counted \in Counts \cup {0} /\ call.polls \in 0 .. MaxPolls
        /\ call.aux \in 0 .. MaxPolls + 1
    BY DEF TypeOKEvaluation
  <2>2. call.counted \in Nat
    <3>1. \A n \in Counts : n \in Nat
      BY EvaluationAssumptions, Zenon
    <3> HIDE DEF TypeOKEvaluation
    <3> QED BY <2>1, <3>1
  <2>3. MaxPolls \in Nat
    BY EvaluationAssumptions
  <2>4. call.polls \in Nat /\ call.polls <= MaxPolls
    BY <2>1, <2>3
  <2>5. call.aux \in Nat /\ call.aux <= MaxPolls + 1
    BY <2>1, <2>3
  <2> QED BY <2>2, <2>4, <2>5
<1>4. /\ pair.arm \in 1 .. Arms /\ pair.calls \in 0 .. 3 /\ agent.grant \in Nat
      /\ Mine \in Ledger /\ owed[pair.arm] \in Nat
  BY DEF TypeOKEvaluation, Mine
<1> QED BY <1>1, <1>2, <1>3, <1>4, EvaluationAssumptions DEF TypeOKEvaluation

LEMMA NoChildFits ==
  /\ NoChild \in [state : {"none", "running", "uncertain", "completed", "captured"} \cup Ended,
                  grant : Nat, cancel : BOOLEAN]
  /\ NoChild.state = "none" /\ NoChild.grant = 0
  /\ NoCall \in [op : {"none", "count", "create", "retrieve", "cancel"}, passed : BOOLEAN, sent : BOOLEAN,
                 counted : Counts \cup {0}, created : BOOLEAN, over : BOOLEAN,
                 polls : 0 .. MaxPolls, aux : 0 .. MaxPolls + 1]
BY EvaluationAssumptions DEF NoChild, NoCall, Ended

(* What is left, if it is enough, is granted.                              *)
LEMMA GrantFits ==
  ASSUME PairSound, pair.state = "running", Settled(Mine)
  PROVE  /\ Granted \in Nat /\ Granted >= Baseline(pair.stage)
         /\ Admits(Mine, Ceiling, Protected, Phase, Granted)
         /\ Charged(Mine) + Granted + Rest(pair.stage + 1, Phases) <= Ceiling
         /\ Phase = "work" =>
              Mine.work + Granted + Rest(pair.stage + 1, {"work"}) <= Ceiling - Protected
<1> DEFINE s == pair.stage
           free == Ceiling - Charged(Mine) - Rest(s + 1, Phases)
           work == Ceiling - Protected - Mine.work - Rest(s + 1, {"work"})
<1>1. /\ s \in 1 .. 6 /\ Mine \in Ledger /\ Phase = Schedule[s].phase /\ Ceiling \in Nat
      /\ Protected \in Nat /\ Baseline(s) \in Nat /\ Baseline(s) >= 1
  BY PairNumbers, Baselines6 DEF PairSound, Phase
<1>2. Mine.work \in Nat /\ Charged(Mine) \in Nat
  BY <1>1, LedgerNumbers
<1>3. /\ Rest(s + 1, Phases) \in Nat /\ Rest(s, Phases) = Rest(s + 1, Phases) + Baseline(s)
      /\ Rest(s + 1, {"work"}) \in Nat
      /\ Phase = "work" => Rest(s, {"work"}) = Rest(s + 1, {"work"}) + Baseline(s)
  <2>1. Schedule[s].phase \in Phases
    BY <1>1, SixStages
  <2> QED BY <1>1, <2>1, RestStep
<1>4. Charged(Mine) + Rest(s, Phases) <= Ceiling /\ Mine.work + Rest(s, {"work"}) <= Ceiling - Protected
  BY DEF PairSound, Solvent
<1>5. free \in Int /\ work \in Int /\ free >= Baseline(s) /\ (Phase = "work" => work >= Baseline(s))
  BY <1>1, <1>2, <1>3, <1>4
<1>6. Granted = IF Phase = "work" THEN Min({free, work}) ELSE free
  <2>1. Baselines(Later(Phases)) = Rest(s + 1, Phases) /\ Baselines(Later({"work"})) = Rest(s + 1, {"work"})
    BY DEF Later, Rest
  <2> QED BY <2>1 DEF Granted
<1>7. Min({free, work}) \in {free, work} /\ Min({free, work}) <= free /\ Min({free, work}) <= work
  <2> HIDE DEF free, work
  <2>1. \E x \in {free, work} : \A y \in {free, work} : x <= y
    BY <1>5
  <2>2. /\ Min({free, work}) \in {free, work}
        /\ \A y \in {free, work} : Min({free, work}) <= y
    BY <2>1 DEF Min
  <2> QED BY <2>2
<1>8. /\ Granted \in Int /\ Granted >= Baseline(s) /\ Granted <= free
      /\ Phase = "work" => Granted <= work
  <2> HIDE DEF free, work
  <2> QED BY <1>5, <1>6, <1>7
<1> QED BY <1>1, <1>2, <1>3, <1>8 DEF Admits

LEMMA BeginSound ==
  ASSUME PairSound, BeginStep
  PROVE  PairSound'
<1>1. /\ at = "idle" /\ pair.state = "running" /\ ~pair.captured
      /\ at' = IF pair.cancel THEN "failed" ELSE IF agent = NoChild THEN "starting" ELSE "started"
      /\ UNCHANGED <<pair, ledger, agent, purse, call, stopping, owed, accepted, late>>
  BY DEF BeginStep
<1>2. Mine' = Mine /\ Phase' = Phase /\ Quote' = Quote /\ InFlight' = InFlight
  BY <1>1 DEF Mine, Phase, Quote, InFlight, Unsent
<1>3. TypeOKEvaluation'
  BY <1>1 DEF PairSound, TypeOKEvaluation
<1>4. PairShape'
  BY <1>1, <1>2 DEF PairSound, PairShape, Settled
<1>5. CallShape'
  BY <1>1, <1>2 DEF PairSound, CallShape, Settled
<1>6. Bill'
  BY <1>1, <1>2 DEF PairSound, Bill, Settled, Charged, Held
<1>7. Solvent'
  BY <1>1, <1>2 DEF PairSound, Solvent, Charged, Held, Rest, Baselines
<1>8. PairFlags'
  BY <1>1 DEF PairSound, PairFlags
<1> QED BY <1>3, <1>4, <1>5, <1>6, <1>7, <1>8 DEF PairSound

(* The arm's ledger changes, but not what it has charged.                  *)
LEMMA GrantSound ==
  ASSUME PairSound, GrantStage
  PROVE  PairSound'
<1>1. /\ at = "starting" /\ agent = NoChild /\ pair.state = "running" /\ ~pair.captured
      /\ UNCHANGED <<pair, agent, purse, call, stopping, owed, accepted, late>>
      /\ Settled(Mine) /\ Settled(purse)
  BY NewLedgerFits DEF GrantStage, PairSound, PairShape
<1>2. Phase' = Phase /\ Quote' = Quote
  BY <1>1 DEF Phase, Quote
<1>3. CASE UNCHANGED ledger /\ at' = "failed"
  <2>1. Mine' = Mine
    BY <1>1, <1>3 DEF Mine
  <2>2. TypeOKEvaluation'
    BY <1>1, <1>3 DEF PairSound, TypeOKEvaluation
  <2>3. PairShape'
    BY <1>1, <1>2, <1>3, <2>1 DEF PairSound, PairShape, Settled
  <2>4. CallShape'
    BY <1>1, <1>3 DEF PairSound, CallShape, Settled
  <2>5. Bill'
    BY <1>1, <1>3, <2>1 DEF PairSound, Bill, Settled, Charged, Held
  <2>6. Solvent'
    BY <1>1, <1>2, <1>3, <2>1 DEF PairSound, Solvent, Charged, Held
  <2>7. PairFlags'
    BY <1>1, <1>3 DEF PairSound, PairFlags
  <2> QED BY <2>2, <2>3, <2>4, <2>5, <2>6, <2>7 DEF PairSound
<1>4. CASE ledger' = [ledger EXCEPT ![pair.arm] = Reserved(@, Phase, Granted)] /\ at' = "granted"
  <2>1. /\ Granted \in Nat /\ Granted >= Baseline(pair.stage)
        /\ Charged(Mine) + Granted + Rest(pair.stage + 1, Phases) <= Ceiling
        /\ Phase = "work" =>
             Mine.work + Granted + Rest(pair.stage + 1, {"work"}) <= Ceiling - Protected
    BY <1>1, GrantFits
  <2>2. /\ pair.arm \in 1 .. Arms /\ Mine \in Ledger /\ Phase \in Phases /\ pair.stage \in 1 .. 6
        /\ ledger \in [1 .. Arms -> Ledger] /\ owed \in [1 .. Arms -> Nat] /\ Ceiling \in Nat
    BY PairNumbers DEF PairSound
  <2>3. Mine' = Reserved(Mine, Phase, Granted)
    BY <1>1, <1>4, <2>2 DEF Mine
  <2>4. /\ Mine' \in Ledger /\ Mine'.work = Mine.work /\ Mine'.verification = Mine.verification
        /\ Mine'.open = [phase |-> Phase, reserved |-> Granted, state |-> "pending"]
    BY <2>1, <2>2, <2>3, ReservedLedger
  <2>5. /\ Charged(Mine)' = Charged(Mine) /\ Held(Mine)' = Charged(Mine) + Granted
        /\ Charged(Mine) \in Nat /\ Held(Mine) = Charged(Mine) /\ Mine.work \in Nat
    BY <1>1, <2>2, <2>4, LedgerNumbers DEF Charged, Held
  <2>6. Rest(pair.stage + 1, Phases) \in Nat
    BY <2>2, RestStep
  <2>7. ledger' \in [1 .. Arms -> Ledger] /\ \A a \in 1 .. Arms : a # pair.arm => ledger'[a] = ledger[a]
    BY <1>1, <1>4, <2>2, <2>3, <2>4 DEF Mine
  <2>8. TypeOKEvaluation'
    BY <1>1, <1>4, <2>7 DEF PairSound, TypeOKEvaluation
  <2>9. PairShape'
    BY <1>1, <1>2, <1>4, <2>4, <2>7 DEF PairSound, PairShape, Settled
  <2>10. CallShape'
    BY <1>1, <1>4 DEF PairSound, CallShape, Settled
  <2>11. Bill'
    <3>1. owed[pair.arm] = Charged(Mine) + Charged(purse)
      BY <1>1 DEF PairSound, Bill, Settled, NoAttempt
    <3>2. \A a \in 1 .. Arms : owed[a] <= Held(ledger'[a]) /\ Held(ledger'[a]) <= Ceiling
      <4> TAKE a \in 1 .. Arms
      <4>1. CASE a # pair.arm
        BY <2>7, <4>1 DEF PairSound, Bill
      <4>2. CASE a = pair.arm
        <5>1. Held(ledger'[a]) = Charged(Mine) + Granted /\ owed[a] <= Held(Mine)
          BY <1>1, <2>5, <4>2 DEF Mine, PairSound, Bill
        <5> QED BY <2>1, <2>2, <2>5, <2>6, <5>1
      <4> QED BY <4>1, <4>2
    <3> QED BY <1>1, <1>4, <2>5, <3>1, <3>2 DEF PairSound, Bill, Settled
  <2>12. Solvent'
    BY <1>1, <1>2, <1>4, <2>1, <2>4, <2>5 DEF PairSound, Solvent
  <2>13. PairFlags'
    BY <1>1, <1>4 DEF PairSound, PairFlags
  <2> QED BY <2>8, <2>9, <2>10, <2>11, <2>12, <2>13 DEF PairSound
<1> QED BY <1>3, <1>4 DEF GrantStage

LEMMA OpenSound ==
  ASSUME PairSound, OpenStage
  PROVE  PairSound'
<1>1. /\ at = "granted" /\ agent = NoChild /\ pair.state = "running" /\ ~pair.captured
      /\ ledger' = [ledger EXCEPT ![pair.arm] = Dispatched(@)]
      /\ UNCHANGED <<purse, call, stopping, owed, accepted, late>>
      /\ purse = NewLedger /\ Mine.open.phase = Phase /\ Mine.open.state = "pending"
  BY DEF OpenStage, PairSound, PairShape
<1>2. \/ /\ at' = "started" /\ pair' = [pair EXCEPT !.calls = 0]
         /\ agent' = [NoChild EXCEPT !.state = "running", !.grant = Mine.open.reserved]
      \/ at' = "failed" /\ UNCHANGED <<agent, pair>>
  BY DEF OpenStage
<1>3. /\ pair.arm \in 1 .. Arms /\ Mine \in Ledger /\ pair.stage \in 1 .. 6
      /\ ledger \in [1 .. Arms -> Ledger]
  BY PairNumbers DEF PairSound
<1>4. /\ pair'.arm = pair.arm /\ pair'.stage = pair.stage /\ pair'.state = pair.state
      /\ pair'.cancel = pair.cancel /\ pair'.captured = pair.captured
      /\ pair' \in [state : {"running", "stopped_partial", "uncertain", "completed"}, arm : 1 .. Arms,
                    stage : DOMAIN Schedule, calls : 0 .. 3, cancel : BOOLEAN, captured : BOOLEAN]
      /\ pair'.calls \in 0 .. 3 /\ (at' = "started" => pair'.calls = 0)
  BY <1>2 DEF PairSound, TypeOKEvaluation
<1>5. Phase' = Phase
  BY <1>4 DEF Phase
<1>6. Mine' = Dispatched(Mine)
  BY <1>1, <1>3, <1>4 DEF Mine
<1>7. /\ Mine' \in Ledger /\ Mine'.work = Mine.work /\ Mine'.verification = Mine.verification
      /\ Mine'.open = [phase |-> Phase, reserved |-> Mine.open.reserved, state |-> "dispatched"]
  BY <1>1, <1>3, <1>6, DispatchedLedger
<1>8. /\ Charged(Mine)' = Charged(Mine) /\ Held(Mine)' = Held(Mine)
      /\ Mine.open.reserved \in Nat /\ Mine.open.state # "uncertain"
  BY <1>1, <1>3, <1>7, LedgerNumbers DEF Charged, Held
<1>9. ledger' \in [1 .. Arms -> Ledger] /\ \A a \in 1 .. Arms : a # pair.arm => ledger'[a] = ledger[a]
  BY <1>1, <1>3, <1>6, <1>7 DEF Mine
<1>10. \/ /\ at' = "started" /\ agent' # NoChild /\ agent'.state = "running"
          /\ agent'.grant = Mine.open.reserved /\ agent'.cancel = FALSE
       \/ at' = "failed" /\ agent' = NoChild
  <2>1. CASE agent' = [NoChild EXCEPT !.state = "running", !.grant = Mine.open.reserved] /\ at' = "started"
    <3>1. agent' = [state |-> "running", grant |-> Mine.open.reserved, cancel |-> FALSE]
      BY <2>1 DEF NoChild
    <3>2. agent' # NoChild
      <4>1. agent'.state = "running" /\ NoChild.state = "none"
        BY <3>1 DEF NoChild
      <4> QED BY <4>1
    <3>3. agent'.state = "running" /\ agent'.grant = Mine.open.reserved /\ agent'.cancel = FALSE
      BY <3>1
    <3> QED BY <2>1, <3>2, <3>3
  <2>2. CASE at' = "failed" /\ agent' = NoChild
    BY <2>2
  <2> QED BY <1>1, <1>2, <2>1, <2>2
<1>11. agent' \in [state : {"none", "running", "uncertain", "completed", "captured"} \cup Ended,
                   grant : Nat, cancel : BOOLEAN]
  BY <1>1, <1>2, <1>8, NoChildFits DEF NoChild
<1>12. TypeOKEvaluation'
  BY <1>1, <1>4, <1>9, <1>10, <1>11 DEF PairSound, TypeOKEvaluation
<1>13. PairShape'
  BY <1>1, <1>3, <1>4, <1>5, <1>7, <1>9, <1>10, SixStages DEF PairSound, PairShape, Settled, NoChild
<1>14. CallShape'
  BY <1>1, <1>10, NewLedgerFits DEF PairSound, CallShape, Settled
<1>15. Bill'
  <2>1. owed[pair.arm] = Charged(Mine) + Charged(purse)
    BY <1>1, <1>8, NewLedgerFits DEF PairSound, Bill
  <2>2. \A a \in 1 .. Arms : owed[a] <= Held(ledger'[a]) /\ Held(ledger'[a]) <= Ceiling
    BY <1>8, <1>9, <1>4 DEF PairSound, Bill, Mine
  <2>3. Held(purse) = 0 /\ Charged(purse) = 0 /\ Settled(purse) /\ agent'.grant >= 0
    BY <1>1, <1>8, <1>10, NewLedgerFits, NoChildFits
  <2>4. Settled(purse)' /\ Held(purse)' = Held(purse) /\ Charged(purse)' = Charged(purse)
    BY <1>1, <2>3
  <2> QED BY <1>1, <1>4, <1>8, <1>10, <2>1, <2>2, <2>3, <2>4 DEF Bill
<1>16. Solvent'
  BY <1>1, <1>3, <1>4, <1>5, <1>7, <1>8, <1>10 DEF PairSound, Solvent, Rest, Baselines
<1>17. PairFlags'
  BY <1>1, <1>4, <1>10 DEF PairSound, PairFlags
<1> QED BY <1>12, <1>13, <1>14, <1>15, <1>16, <1>17 DEF PairSound

(* Steps of the controller that touch no ledger and leave nothing open.    *)
LEMMA QuietSound ==
  ASSUME PairSound, at \notin {"idle", "calling"}, at' # "calling",
         agent # NoChild, agent' # NoChild, agent'.grant = agent.grant, agent'.state # "none",
         agent' \in [state : {"none", "running", "uncertain", "completed", "captured"} \cup Ended,
                     grant : Nat, cancel : BOOLEAN],
         UNCHANGED <<ledger, purse, owed, accepted, stopping, late>>,
         pair'.arm = pair.arm, pair'.stage = pair.stage, pair'.cancel = pair.cancel,
         pair' \in [state : {"running", "stopped_partial", "uncertain", "completed"}, arm : 1 .. Arms,
                    stage : DOMAIN Schedule, calls : 0 .. 3, cancel : BOOLEAN, captured : BOOLEAN],
         \/ /\ at' \in {"failed", "returned", "settled"} /\ pair'.state = pair.state
            /\ pair'.captured = pair.captured
         \/ /\ at' = "idle" /\ pair'.state = pair.state /\ agent'.state = "running" /\ Settled(purse)
            /\ pair'.captured = pair.captured /\ pair'.calls < Schedule[pair.stage].slots
         \/ at' = "idle" /\ pair'.state = "uncertain",
         at' \in {"returned", "settled"} => Settled(purse),
         call' = call \/ call' = NoCall
  PROVE  PairSound'
<1>1. pair.state = "running" /\ ~pair.captured /\ pair.arm \in 1 .. Arms /\ pair.stage \in 1 .. 6
  BY PairNumbers DEF PairSound, PairShape
<1>2. Mine' = Mine /\ Phase' = Phase
  BY DEF Mine, Phase
<1>3. TypeOKEvaluation'
  BY NoChildFits DEF PairSound, TypeOKEvaluation
<1>4. PairShape'
  BY <1>1, <1>2 DEF PairSound, PairShape, Settled
<1>5. CallShape'
  BY <1>1 DEF PairSound, CallShape, Settled
<1>6. Bill'
  BY <1>1, <1>2 DEF PairSound, Bill, Settled, Charged, Held
<1>7. Solvent'
  BY <1>1, <1>2 DEF PairSound, Solvent, Charged, Held, Rest, Baselines
<1>8. PairFlags'
  BY DEF PairSound, PairFlags
<1> QED BY <1>3, <1>4, <1>5, <1>6, <1>7, <1>8 DEF PairSound

LEMMA CallSound ==
  ASSUME PairSound, CallChild
  PROVE  PairSound'
<1>1. /\ at = "started" /\ pair.state = "running" /\ ~pair.captured /\ agent # NoChild
      /\ pair' = [pair EXCEPT !.calls = @ + 1] /\ call' = NoCall
      /\ UNCHANGED <<ledger, purse, stopping, owed, accepted, late>>
      /\ pair.calls < Schedule[pair.stage].slots
  BY DEF CallChild, PairSound, PairShape
<1>2. \/ /\ ~Flagged /\ at' = "calling" /\ agent' = [agent EXCEPT !.state = "uncertain"]
      \/ at' = "failed" /\ agent' = [agent EXCEPT !.state = "cancelled", !.cancel = TRUE]
      \/ at' = "failed" /\ agent' = [agent EXCEPT !.state = "resource_limit"]
  BY DEF CallChild
<1>3. /\ agent' \in [state : {"none", "running", "uncertain", "completed", "captured"} \cup Ended,
                     grant : Nat, cancel : BOOLEAN]
      /\ agent'.grant = agent.grant /\ agent'.state # "none" /\ agent' # NoChild
  <2>1. agent \in [state : {"none", "running", "uncertain", "completed", "captured"} \cup Ended,
                   grant : Nat, cancel : BOOLEAN]
    BY DEF PairSound, TypeOKEvaluation
  <2>2. /\ agent' \in [state : {"none", "running", "uncertain", "completed", "captured"} \cup Ended,
                        grant : Nat, cancel : BOOLEAN]
        /\ agent'.grant = agent.grant /\ agent'.state \in {"uncertain", "cancelled", "resource_limit"}
    BY <1>2, <2>1 DEF Ended
  <2>3. agent' # NoChild
    BY <2>2, NoChildFits
  <2> QED BY <2>2, <2>3
<1>4. /\ pair.stage \in 1 .. 6 /\ pair.calls \in 0 .. 3
  BY PairNumbers DEF PairSound
<1>5. /\ pair'.arm = pair.arm /\ pair'.stage = pair.stage /\ pair'.state = pair.state
      /\ pair'.cancel = pair.cancel /\ pair'.captured = pair.captured
      /\ pair' \in [state : {"running", "stopped_partial", "uncertain", "completed"}, arm : 1 .. Arms,
                    stage : DOMAIN Schedule, calls : 0 .. 3, cancel : BOOLEAN, captured : BOOLEAN]
  BY <1>1, <1>4, SixStages DEF PairSound, TypeOKEvaluation
<1>6. CASE at' = "failed"
  BY <1>1, <1>3, <1>5, <1>6, QuietSound
<1>7. CASE at' = "calling"
  <2>1. ~pair.cancel /\ agent'.cancel = agent.cancel
    BY <1>2, <1>7 DEF Flagged, PairSound, TypeOKEvaluation
  <2>2. Mine' = Mine /\ Phase' = Phase
    BY <1>1, <1>5 DEF Mine, Phase
  <2>3. Settled(purse)
    BY <1>1 DEF PairSound, CallShape
  <2>4. TypeOKEvaluation'
    BY <1>1, <1>3, <1>5, <1>7, NoChildFits DEF PairSound, TypeOKEvaluation
  <2>5. PairShape'
    BY <1>1, <1>3, <1>5, <1>7, <2>2 DEF PairSound, PairShape, Settled
  <2>6. CallShape'
    BY <1>1, <1>7, <2>3 DEF CallShape, NoCall, Settled
  <2>7. Bill'
    <3>1. InFlight' = 0
      BY <1>1 DEF InFlight, NoCall
    <3>2. owed[pair.arm] = Charged(Mine) + Charged(purse)
      BY <1>1, <2>3 DEF PairSound, PairShape, Bill
    <3>3. Charged(Mine) \in Nat /\ Charged(purse) \in Nat
      BY PairNumbers, LedgerNumbers DEF PairSound
    <3>4. Charged(Mine)' = Charged(Mine) /\ Charged(purse)' = Charged(purse) /\ Held(purse)' = Held(purse)
      BY <1>1, <2>2 DEF Charged, Held
    <3> QED BY <1>1, <1>3, <1>5, <1>7, <2>3, <3>1, <3>2, <3>3, <3>4 DEF PairSound, Bill, Settled
  <2>8. Solvent'
    BY <1>1, <1>3, <1>5, <1>7, <2>2 DEF PairSound, Solvent, Charged, Held, Rest, Baselines
  <2>9. PairFlags'
    BY <1>1, <1>5, <1>7, <2>1 DEF PairSound, PairFlags
  <2> QED BY <2>4, <2>5, <2>6, <2>7, <2>8, <2>9 DEF PairSound
<1> QED BY <1>2, <1>6, <1>7

-----------------------------------------------------------------------------
(* One step of the child.  The controller waits, nothing of its own moves. *)
Calling ==
  /\ at = "calling" /\ agent # NoChild /\ pair.state = "running" /\ ~pair.captured
  /\ pair.arm \in 1 .. Arms /\ pair.stage \in 1 .. 6 /\ purse \in Ledger /\ Mine \in Ledger
  /\ owed[pair.arm] = Charged(Mine) + Charged(purse) + InFlight
  /\ Held(purse) <= agent.grant /\ agent.grant \in Nat
  /\ Mine.open = [phase |-> Phase, reserved |-> agent.grant, state |-> "dispatched"]

LEMMA WhileCalling ==
  ASSUME PairSound, at = "calling"
  PROVE  Calling
BY PairNumbers DEF PairSound, PairShape, Bill, Calling

(* What has to be shown of such a step.                                    *)
LEMMA ChildStep ==
  ASSUME PairSound, at = "calling", UNCHANGED <<pair, ledger, stopping, accepted>>, late' \in {late, late + 1},
         agent' \in [state : {"none", "running", "uncertain", "completed", "captured"} \cup Ended,
                     grant : Nat, cancel : BOOLEAN],
         agent'.grant = agent.grant, agent'.state # "none", agent'.cancel = agent.cancel,
         at' \in {"calling", "settled", "failed"}, purse' \in Ledger, Held(purse)' <= agent.grant,
         call' \in [op : {"none", "count", "create", "retrieve", "cancel"}, passed : BOOLEAN, sent : BOOLEAN,
               counted : Counts \cup {0}, created : BOOLEAN, over : BOOLEAN,
               polls : 0 .. MaxPolls, aux : 0 .. MaxPolls + 1],
         owed' \in [1 .. Arms -> Nat], \A a \in 1 .. Arms : a # pair.arm => owed'[a] = owed[a],
         at' = "calling" => owed'[pair.arm] = Charged(Mine) + Charged(purse)' + InFlight',
         at' # "calling" /\ Settled(purse)' => owed'[pair.arm] = Charged(Mine) + Charged(purse)',
         ~Settled(purse)' => owed'[pair.arm] <= Charged(Mine) + Held(purse)',
         CallShape'
  PROVE  PairSound'
<1>1. Calling
  BY WhileCalling
<1>2. Mine' = Mine /\ Phase' = Phase
  BY DEF Mine, Phase
<1>3. agent' # NoChild
  BY NoChildFits
<1>4. TypeOKEvaluation'
  BY DEF PairSound, TypeOKEvaluation
<1>5. PairShape'
  <2>1. \A a \in 1 .. Arms : a > pair.arm => owed'[a] = owed[a]
    BY <1>1 DEF Calling
  <2> QED BY <1>1, <1>2, <1>3, <2>1 DEF Calling, PairSound, PairShape, Settled
<1>6. Bill'
  <2>1. /\ Charged(Mine)' = Charged(Mine) /\ Charged(Mine) \in Nat /\ Charged(purse)' \in Nat
        /\ Held(purse)' \in Nat /\ (Settled(purse)' => Held(purse)' = Charged(purse)')
        /\ Held(Mine) = Charged(Mine) + agent.grant /\ agent.grant \in Nat
    BY <1>1, <1>2, LedgerNumbers DEF Calling, Charged, Held
  <2>2. owed'[pair.arm] <= Held(Mine) /\ owed'[pair.arm] \in Nat
    <3>1. owed'[pair.arm] <= Charged(Mine) + Held(purse)'
      <4>1. CASE Settled(purse)'
        <5>1. at' = "calling" => InFlight' = 0
          BY <4>1 DEF CallShape, InFlight, Settled, NoAttempt
        <5> QED BY <2>1, <4>1, <5>1
      <4>2. CASE ~Settled(purse)'
        BY <4>2
      <4> QED BY <4>1, <4>2
    <3>2. owed'[pair.arm] \in Nat
      BY <1>1 DEF Calling
    <3> QED BY <2>1, <3>1, <3>2
  <2>3. \A a \in 1 .. Arms : owed'[a] <= Held(ledger'[a]) /\ Held(ledger'[a]) <= Ceiling
    <3> TAKE a \in 1 .. Arms
    <3>1. CASE a = pair.arm
      BY <2>2, <3>1 DEF PairSound, Bill, Mine
    <3>2. CASE a # pair.arm
      BY <3>2 DEF PairSound, Bill
    <3> QED BY <3>1, <3>2
  <2> QED BY <1>1, <1>2, <2>1, <2>3 DEF Bill, Calling
<1>7. Solvent'
  BY <1>1, <1>2, <1>3 DEF Calling, PairSound, Solvent, Charged, Held, Rest, Baselines
<1>8. PairFlags'
  BY DEF PairSound, PairFlags
<1> QED BY <1>4, <1>5, <1>6, <1>7, <1>8 DEF PairSound
-----------------------------------------------------------------------------
LEMMA PriceOf ==
  ASSUME TypeOKEvaluation
  PROVE  /\ CountPrice \in Nat /\ CountPrice >= Fee /\ CountPrice >= 1
         /\ Price("count") = CountPrice /\ Price("create") = Quote
         /\ Price("retrieve") = 0 /\ Price("cancel") = 0
         /\ AuxiliaryLimit * Fee \in Nat /\ Quote \in Nat
         /\ Quote = call.counted + MaxOut + AuxiliaryLimit * Fee
         /\ call.counted > 0 => Quote > 0
<1>1. AuxiliaryLimit * Fee \in Nat
  BY PairNumbers DEF AuxiliaryLimit
<1>2. /\ Price("count") = CountPrice /\ Price("create") = Quote
      /\ Price("retrieve") = 0 /\ Price("cancel") = 0
  BY DEF Price, CountPrice
<1>3. CountPrice \in Nat /\ CountPrice >= Fee /\ CountPrice >= 1
  BY PairNumbers DEF CountPrice
<1>4. Quote = call.counted + MaxOut + AuxiliaryLimit * Fee
  BY DEF Quote
<1> HIDE DEF Quote
<1>5. \A n \in Nat : Quote = call.counted + MaxOut + n =>
        Quote \in Nat /\ (call.counted > 0 => Quote > 0)
  BY PairNumbers, SMTT(30)
<1> QED BY <1>1, <1>2, <1>3, <1>4, <1>5

LEMMA AdmitSound ==
  ASSUME PairSound, NEW op \in {"count", "create", "retrieve", "cancel"}, Admit(op)
  PROVE  PairSound'
<1>1. /\ at = "calling" /\ call.op = "none" /\ Permitted(op) /\ Calling /\ TypeOKEvaluation
      /\ UNCHANGED <<pair, ledger, stopping, owed, accepted, late>>
      /\ ~call.sent
  BY WhileCalling DEF Admit, PairSound, CallShape
<1>2. /\ purse \in Ledger /\ agent.grant \in Nat /\ Held(purse) <= agent.grant
      /\ owed \in [1 .. Arms -> Nat]
      /\ agent \in [state : {"none", "running", "uncertain", "completed", "captured"} \cup Ended,
                    grant : Nat, cancel : BOOLEAN]
      /\ agent.state # "none"
      /\ call \in [op : {"none", "count", "create", "retrieve", "cancel"}, passed : BOOLEAN, sent : BOOLEAN,
               counted : Counts \cup {0}, created : BOOLEAN, over : BOOLEAN,
               polls : 0 .. MaxPolls, aux : 0 .. MaxPolls + 1]
  BY <1>1 DEF Calling, PairSound, PairShape, TypeOKEvaluation
<1>3. /\ Quote \in Nat /\ CountPrice \in Nat /\ CountPrice >= 1 /\ (call.counted > 0 => Quote > 0)
      /\ Price(op) = IF op = "count" THEN CountPrice ELSE IF op = "create" THEN Quote ELSE 0
      /\ call.counted \in Nat
  BY <1>1, PriceOf, PairNumbers
<1>4. ~call.created => Settled(purse) /\ call.aux = 0 /\ call.polls = 0 /\ ~call.over
  BY <1>1 DEF PairSound, CallShape
<1>5. CASE Price(op) = 0
  <2>1. op \in {"retrieve", "cancel"} /\ call.created /\ ~call.over /\ call.aux = call.polls
    <3>1. op = "count" \/ op = "create" \/ op = "retrieve" \/ op = "cancel"
      OBVIOUS
    <3>2. op = "create" => call.counted > 0
      BY <1>1 DEF Permitted
    <3>3. op \in {"retrieve", "cancel"}
      BY <1>3, <1>5, <3>1, <3>2
    <3>4. call.created /\ ~call.over
      BY <1>1, <3>3 DEF Permitted
    <3>5. call.aux = call.polls
      BY <1>1, <3>4 DEF PairSound, CallShape
    <3> QED BY <3>3, <3>4, <3>5
  <2>2. /\ call' = [call EXCEPT !.op = op, !.aux = @ + 1,
                                !.polls = IF op = "retrieve" THEN @ + 1 ELSE @]
        /\ UNCHANGED <<at, purse, agent>>
    BY <1>5 DEF Admit
  <2>3. op = "retrieve" => call.polls < MaxPolls
    BY <1>1 DEF Permitted
  <2>4. /\ call'.op = op /\ call'.aux = call.aux + 1 /\ call'.sent = call.sent
        /\ call'.polls = IF op = "retrieve" THEN call.polls + 1 ELSE call.polls
        /\ call'.counted = call.counted /\ call'.created = call.created /\ call'.over = call.over
        /\ call.aux \in Nat /\ call.polls \in Nat /\ call.polls <= MaxPolls /\ MaxPolls \in Nat
    BY <1>1, <1>2, <2>2, PairNumbers
  <2>5. call' \in [op : {"none", "count", "create", "retrieve", "cancel"}, passed : BOOLEAN, sent : BOOLEAN,
               counted : Counts \cup {0}, created : BOOLEAN, over : BOOLEAN,
               polls : 0 .. MaxPolls, aux : 0 .. MaxPolls + 1]
    <3>1. call.aux + 1 \in 0 .. MaxPolls + 1
      BY <2>1, <2>4
    <3>2. (IF op = "retrieve" THEN call.polls + 1 ELSE call.polls) \in 0 .. MaxPolls
      BY <2>3, <2>4
    <3> QED BY <1>2, <2>2, <3>1, <3>2
  <2>6. InFlight' = InFlight
    <3>1. Unsent' = 1 /\ Unsent = 0 /\ call'.created /\ call'.counted = call.counted
      BY <1>1, <2>1, <2>4 DEF Unsent
    <3>2. call'.aux - 1 = call.aux - 0
      BY <2>4
    <3> QED BY <2>1, <3>1, <3>2 DEF InFlight
  <2>7. Quote' = Quote
    BY <2>4 DEF Quote
  <2>8. CallShape'
    <3>1. /\ call.counted > 0
          /\ purse.open = [phase |-> "verification", reserved |-> Quote, state |-> "dispatched"]
      BY <1>1, <2>1 DEF PairSound, CallShape
    <3>2. \/ call'.aux = call'.polls
          \/ call'.aux = call'.polls + 1 /\ call'.op = "cancel"
      BY <2>1, <2>4
    <3>3. ~Settled(purse)
      BY <3>1 DEF Settled, NoAttempt
    <3> QED BY <1>1, <2>1, <2>2, <2>4, <2>7, <3>1, <3>2, <3>3 DEF CallShape, Settled
  <2>9. ~Settled(purse)
    BY <1>1, <2>1 DEF PairSound, CallShape, Settled, NoAttempt
  <2>10. owed[pair.arm] = Charged(Mine) + Charged(purse) + InFlight /\ ~Settled(purse)'
         /\ owed[pair.arm] <= Charged(Mine) + Held(purse) /\ Charged(purse)' = Charged(purse)
         /\ Held(purse)' = Held(purse) /\ Settled(purse)' = Settled(purse)
    BY <1>1, <2>2, <2>9 DEF Calling, PairSound, Bill, Charged, Held, Settled
  <2> QED BY <1>1, <1>2, <2>2, <2>5, <2>6, <2>8, <2>10, ChildStep
<1>6. CASE Price(op) # 0 /\ Admits(purse, agent.grant, 1, "verification", Price(op))
           /\ purse' = Dispatched(Reserved(purse, "verification", Price(op)))
           /\ call' = [call EXCEPT !.op = op] /\ UNCHANGED <<at, agent>>
  <2>1. op \in {"count", "create"} /\ Price(op) \in Nat
    BY <1>3, <1>6
  <2>2. "verification" \in Phases
    BY DEF Phases
  <2>3. /\ Reserved(purse, "verification", Price(op)) \in Ledger
        /\ Reserved(purse, "verification", Price(op)).work = purse.work
        /\ Reserved(purse, "verification", Price(op)).verification = purse.verification
        /\ Reserved(purse, "verification", Price(op)).open =
             [phase |-> "verification", reserved |-> Price(op), state |-> "pending"]
    BY <1>2, <2>1, <2>2, ReservedLedger
  <2>4. /\ purse' \in Ledger /\ purse'.work = purse.work /\ purse'.verification = purse.verification
        /\ purse'.open = [phase |-> "verification", reserved |-> Price(op), state |-> "dispatched"]
    BY <1>6, <2>3, DispatchedLedger
  <2>5. /\ Charged(purse)' = Charged(purse) /\ Held(purse)' = Charged(purse) + Price(op)
        /\ Held(purse)' <= agent.grant /\ Settled(purse) /\ ~Settled(purse)'
    BY <1>6, <2>4 DEF Charged, Held, Admits, Settled, NoAttempt
  <2>6. ~call.created
    <3>1. CASE op = "create"
      BY <1>1, <3>1 DEF Permitted
    <3>2. CASE op = "count"
      BY <1>1, <2>5, <3>2 DEF PairSound, CallShape, Settled, NoAttempt
    <3> QED BY <2>1, <3>1, <3>2
  <2>7. /\ call'.op = op /\ call'.aux = call.aux /\ call'.sent = call.sent /\ call'.polls = call.polls
        /\ call'.counted = call.counted /\ call'.created = call.created /\ call'.over = call.over
        /\ call' \in [op : {"none", "count", "create", "retrieve", "cancel"}, passed : BOOLEAN, sent : BOOLEAN,
               counted : Counts \cup {0}, created : BOOLEAN, over : BOOLEAN,
               polls : 0 .. MaxPolls, aux : 0 .. MaxPolls + 1]
    BY <1>2, <1>6
  <2>8. InFlight = 0 /\ InFlight' = 0
    BY <1>1, <2>6, <2>7 DEF InFlight
  <2>9. Quote' = Quote /\ CountPrice' = CountPrice
    BY <2>7 DEF Quote, CountPrice
  <2>10. Price(op) = IF op = "count" THEN CountPrice ELSE Quote
    BY <1>3, <2>1
  <2>11. op = "count" => call.counted = 0
    BY <1>1 DEF Permitted
  <2>12. op = "create" => call.counted > 0
    BY <1>1 DEF Permitted
  <2>13. CallShape'
    BY <1>1, <1>4, <1>6, <2>1, <2>4, <2>5, <2>6, <2>7, <2>9, <2>10, <2>11, <2>12 DEF CallShape
  <2>14. owed[pair.arm] = Charged(Mine) + Charged(purse) /\ owed[pair.arm] \in Nat
         /\ Charged(Mine) \in Nat /\ Charged(purse) \in Nat
    BY <1>1, <2>8, LedgerNumbers, PairNumbers DEF Calling, PairSound
  <2>15. owed[pair.arm] <= Charged(Mine) + Held(purse)'
    BY <2>1, <2>5, <2>14
  <2> HIDE DEF Admits
  <2> QED BY <1>1, <1>2, <1>6, <2>4, <2>5, <2>7, <2>8, <2>13, <2>14, <2>15, ChildStep
<1>7. CASE Price(op) # 0 /\ ~Admits(purse, agent.grant, 1, "verification", Price(op))
           /\ agent' = [agent EXCEPT !.state = "resource_limit"] /\ at' = "failed"
           /\ UNCHANGED <<purse, call>>
  <2>1. Settled(purse) /\ InFlight = 0
    <3>1. ~call.created
      <4>1. op \in {"count", "create"}
        BY <1>3, <1>7
      <4>2. CASE op = "create"
        BY <1>1, <4>2 DEF Permitted
      <4>3. CASE op = "count"
        BY <1>1, <4>3 DEF Permitted, PairSound, CallShape
      <4> QED BY <4>1, <4>2, <4>3
    <3> QED BY <1>1, <1>4, <3>1 DEF InFlight
  <2>2. owed[pair.arm] = Charged(Mine) + Charged(purse)
    BY <1>1, <2>1, LedgerNumbers DEF Calling
  <2>3. /\ agent' \in [state : {"none", "running", "uncertain", "completed", "captured"} \cup Ended,
                      grant : Nat, cancel : BOOLEAN]
        /\ agent'.grant = agent.grant /\ agent'.state # "none" /\ agent'.cancel = agent.cancel
    BY <1>2, <1>7 DEF Ended
  <2>4. Settled(purse)' /\ Held(purse)' = Held(purse) /\ Charged(purse)' = Charged(purse)
    BY <1>7, <2>1 DEF Settled, Charged, Held
  <2>5. CallShape'
    BY <1>1, <1>7, <2>4 DEF CallShape
  <2> QED BY <1>1, <1>2, <1>7, <2>2, <2>3, <2>4, <2>5, ChildStep
<1> QED BY <1>5, <1>6, <1>7 DEF Admit

LEMMA FeesGrow ==
  ASSUME TypeOKEvaluation
  PROVE  /\ call.aux * Fee \in Nat /\ call.aux * Fee <= AuxiliaryLimit * Fee
         /\ call.aux > 0 => (call.aux - 1) * Fee + Fee = call.aux * Fee
         /\ 0 * Fee = 0 /\ AuxiliaryLimit * Fee \in Nat
<1>1. \A n \in Nat, m \in Nat : n <= m => n * Fee <= m * Fee
  BY PairNumbers, SMTT(30)
<1>2. call.aux \in Nat /\ AuxiliaryLimit \in Nat /\ call.aux <= AuxiliaryLimit /\ Fee \in Nat
  BY PairNumbers DEF AuxiliaryLimit
<1>3. \A n \in Nat : n * Fee \in Nat /\ (n > 0 => (n - 1) * Fee + Fee = n * Fee)
  BY <1>2
<1>4. 0 * Fee = 0
  BY <1>2
<1> QED BY <1>1, <1>2, <1>3, <1>4

(* What is in flight is within what is reserved for it.                    *)
LEMMA FlightFits ==
  ASSUME PairSound, at = "calling"
  PROVE  /\ Settled(purse) => InFlight = 0
         /\ call.op # "none" \/ call.created => ~Settled(purse)
         /\ call.op = "count" => Fee <= purse.open.reserved
         /\ call.op = "create" \/ call.created =>
              /\ purse.open.reserved = call.counted + MaxOut + AuxiliaryLimit * Fee
              /\ purse.open.phase = "verification"
<1>1. TypeOKEvaluation /\ CallShape
  BY DEF PairSound
<1>2. /\ call.op = "create" \/ call.created =>
           purse.open = [phase |-> "verification", reserved |-> Quote, state |-> "dispatched"]
      /\ call.op = "count" =>
           purse.open = [phase |-> "verification", reserved |-> CountPrice, state |-> "dispatched"]
      /\ call.op \in {"retrieve", "cancel"} => call.created
      /\ call.sent => call.op # "none"
  BY <1>1 DEF CallShape
<1>3. call.op \in {"none", "count", "create", "retrieve", "cancel"}
  BY <1>1 DEF TypeOKEvaluation
<1>4. call.op # "none" \/ call.created => ~Settled(purse)
  BY <1>2, <1>3 DEF Settled, NoAttempt
<1>5. Settled(purse) => InFlight = 0
  BY <1>2, <1>4 DEF InFlight
<1>6. CountPrice >= Fee /\ Quote = call.counted + MaxOut + AuxiliaryLimit * Fee
  BY <1>1, PriceOf
<1> QED BY <1>2, <1>4, <1>5, <1>6

(* A request that is not out yet fits what is reserved, beside what is.    *)
LEMMA FlightGrows ==
  ASSUME PairSound, at = "calling", call.op # "none", ~call.sent
  PROVE  LET sent == IF call.created THEN call.counted + MaxOut + call.aux * Fee ELSE Billable IN
         /\ Billable \in Nat /\ sent = InFlight + Billable
         /\ sent \in Nat /\ sent <= purse.open.reserved /\ InFlight \in Int
<1> DEFINE sent == IF call.created THEN call.counted + MaxOut + call.aux * Fee ELSE Billable
<1>1. TypeOKEvaluation /\ Calling
  BY WhileCalling DEF PairSound
<1>2. call.op \in {"none", "count", "create", "retrieve", "cancel"}
  BY <1>1 DEF TypeOKEvaluation
<1>3. /\ Fee \in Nat /\ MaxOut \in Nat /\ call.counted \in Nat /\ call.aux \in Nat
      /\ purse.open.reserved \in Nat
  BY <1>1, PairNumbers, LedgerNumbers DEF Calling
<1>4. Billable \in Nat
  BY <1>3 DEF Billable
<1>5. CASE call.created
  <2>1. call.op \in {"retrieve", "cancel"} /\ call.aux > 0
    BY <1>2, <1>5 DEF PairSound, CallShape
  <2>2. Billable = Fee /\ Unsent = 1
    BY <2>1 DEF Billable, Unsent
  <2>3. InFlight = call.counted + MaxOut + (call.aux - 1) * Fee
    BY <1>5, <2>2 DEF InFlight
  <2>4. /\ (call.aux - 1) * Fee + Fee = call.aux * Fee /\ call.aux * Fee \in Nat
        /\ call.aux * Fee <= AuxiliaryLimit * Fee /\ AuxiliaryLimit * Fee \in Nat
    BY <1>1, <2>1, FeesGrow
  <2>5. purse.open.reserved = call.counted + MaxOut + AuxiliaryLimit * Fee
    BY <1>5, FlightFits
  <2>6. PICK m \in Int, x \in Int, y \in Int :
           m = (call.aux - 1) * Fee /\ x = call.aux * Fee /\ y = AuxiliaryLimit * Fee
    BY <1>3, <2>4
  <2>7. sent = call.counted + MaxOut + call.aux * Fee
    BY <1>5
  <2> HIDE DEF sent
  <2>8. /\ InFlight = call.counted + MaxOut + m /\ sent = call.counted + MaxOut + x
        /\ m + Fee = x /\ x \in Nat /\ x <= y /\ purse.open.reserved = call.counted + MaxOut + y
    BY <2>3, <2>4, <2>5, <2>6, <2>7, Zenon
  <2>9. PICK c \in Nat : c = call.counted + MaxOut
    BY <1>3
  <2>10. /\ InFlight = c + m /\ sent = c + x /\ purse.open.reserved = c + y /\ x = m + Fee
         /\ x \in Nat /\ x <= y /\ m \in Int /\ y \in Int /\ Fee \in Int /\ c \in Nat
    BY <1>3, <2>6, <2>8, <2>9
  <2>11. InFlight \in Int /\ sent \in Nat /\ sent <= purse.open.reserved /\ sent = InFlight + Fee
    BY <2>10
  <2> QED BY <1>4, <2>2, <2>11 DEF sent
<1>6. CASE ~call.created
  <2>1. call.op \in {"count", "create"} /\ InFlight = 0 /\ sent = Billable
    BY <1>2, <1>6 DEF PairSound, CallShape, InFlight
  <2>2. CASE call.op = "count"
    BY <1>3, <1>4, <2>1, <2>2, FlightFits DEF Billable
  <2>3. CASE call.op = "create"
    <3>1. /\ purse.open.reserved = call.counted + MaxOut + AuxiliaryLimit * Fee
          /\ AuxiliaryLimit * Fee \in Nat /\ Billable = call.counted + MaxOut
      BY <1>1, <2>3, FlightFits, FeesGrow DEF Billable
    <3>2. PICK y \in Nat : y = AuxiliaryLimit * Fee
      BY <3>1
    <3> HIDE DEF sent
    <3>3. sent \in Nat /\ sent = InFlight + Billable /\ sent <= purse.open.reserved /\ InFlight \in Int
      BY <1>3, <1>4, <2>1, <3>1, <3>2, SMTT(30)
    <3> QED BY <1>4, <3>3 DEF sent
  <2> QED BY <2>1, <2>2, <2>3
<1> QED BY <1>5, <1>6

LEMMA HandOverSound ==
  ASSUME PairSound, HandOver
  PROVE  PairSound'
<1>1. /\ at = "calling" /\ call.op # "none" /\ ~call.passed /\ Calling /\ TypeOKEvaluation
      /\ UNCHANGED <<pair, at, ledger, agent, purse, stopping, owed, accepted, late>>
      /\ call' = [call EXCEPT !.passed = TRUE]
  BY WhileCalling DEF HandOver, PairSound
<1>2. /\ purse \in Ledger /\ agent.grant \in Nat /\ Held(purse) <= agent.grant
      /\ agent \in [state : {"none", "running", "uncertain", "completed", "captured"} \cup Ended,
                    grant : Nat, cancel : BOOLEAN]
      /\ agent.state # "none" /\ owed \in [1 .. Arms -> Nat] /\ late \in Nat
      /\ call \in [op : {"none", "count", "create", "retrieve", "cancel"}, passed : BOOLEAN, sent : BOOLEAN,
               counted : Counts \cup {0}, created : BOOLEAN, over : BOOLEAN,
               polls : 0 .. MaxPolls, aux : 0 .. MaxPolls + 1]
  BY <1>1 DEF Calling, PairSound, PairShape, TypeOKEvaluation
<1>3. /\ call'.op = call.op /\ call'.aux = call.aux /\ call'.sent = call.sent /\ call'.polls = call.polls
      /\ call'.counted = call.counted /\ call'.created = call.created /\ call'.over = call.over
      /\ call' \in [op : {"none", "count", "create", "retrieve", "cancel"}, passed : BOOLEAN, sent : BOOLEAN,
               counted : Counts \cup {0}, created : BOOLEAN, over : BOOLEAN,
               polls : 0 .. MaxPolls, aux : 0 .. MaxPolls + 1]
  BY <1>1, <1>2
<1>4. Quote' = Quote /\ CountPrice' = CountPrice /\ InFlight' = InFlight
  BY <1>3 DEF Quote, CountPrice, InFlight, Unsent
<1>5. CallShape'
  BY <1>1, <1>3, <1>4 DEF PairSound, CallShape, Settled
<1>6. /\ Charged(purse)' = Charged(purse) /\ Held(purse)' = Held(purse) /\ (Settled(purse)' <=> Settled(purse))
      /\ agent' = agent /\ at' = "calling" /\ purse' = purse /\ owed' = owed /\ late' = late
  BY <1>1 DEF Charged, Held, Settled
<1>7. /\ owed[pair.arm] = Charged(Mine) + Charged(purse) + InFlight
      /\ ~Settled(purse) => owed[pair.arm] <= Charged(Mine) + Held(purse)
  BY <1>1 DEF Calling, PairSound, Bill
<1> QED BY <1>1, <1>2, <1>3, <1>4, <1>5, <1>6, <1>7, ChildStep

LEMMA TransmitSound ==
  ASSUME PairSound, Handed, Transmit
  PROVE  PairSound'
<1>1. /\ at \in {"calling", "failed"} /\ call.passed /\ ~call.sent /\ TypeOKEvaluation
      /\ UNCHANGED <<pair, at, ledger, agent, purse, stopping, accepted>>
      /\ call' = [call EXCEPT !.sent = TRUE] /\ owed' = [owed EXCEPT ![pair.arm] = @ + Billable]
      /\ late' \in Nat /\ late' \in {late, late + 1} /\ call.op # "none"
  BY DEF Transmit, Handed, PairSound, TypeOKEvaluation
<1>2. /\ purse \in Ledger /\ Mine \in Ledger /\ agent.grant \in Nat /\ Held(purse) <= agent.grant
      /\ agent \in [state : {"none", "running", "uncertain", "completed", "captured"} \cup Ended,
                    grant : Nat, cancel : BOOLEAN]
      /\ pair.arm \in 1 .. Arms /\ owed \in [1 .. Arms -> Nat]
      /\ call \in [op : {"none", "count", "create", "retrieve", "cancel"}, passed : BOOLEAN, sent : BOOLEAN,
               counted : Counts \cup {0}, created : BOOLEAN, over : BOOLEAN,
               polls : 0 .. MaxPolls, aux : 0 .. MaxPolls + 1]
  BY <1>1, PairNumbers DEF PairSound, Bill, TypeOKEvaluation
<1>3. /\ call'.op = call.op /\ call'.aux = call.aux /\ call'.sent /\ call'.polls = call.polls
      /\ call'.counted = call.counted /\ call'.created = call.created /\ call'.over = call.over
      /\ call' \in [op : {"none", "count", "create", "retrieve", "cancel"}, passed : BOOLEAN, sent : BOOLEAN,
               counted : Counts \cup {0}, created : BOOLEAN, over : BOOLEAN,
               polls : 0 .. MaxPolls, aux : 0 .. MaxPolls + 1]
  BY <1>1, <1>2
<1>4. /\ MaxOut \in Nat /\ call.counted \in Nat /\ Fee \in Nat /\ call.aux \in Nat /\ Ceiling \in Nat
      /\ Charged(Mine) \in Nat /\ Charged(purse) \in Nat /\ purse.open.reserved \in Nat
      /\ Held(purse) = Charged(purse) + purse.open.reserved
      /\ Held(Mine) = Charged(Mine) + Mine.open.reserved
  BY <1>1, <1>2, PairNumbers, LedgerNumbers
<1>5. Billable \in Nat /\ owed'[pair.arm] = owed[pair.arm] + Billable /\ owed[pair.arm] \in Nat
  BY <1>1, <1>2, <1>4 DEF Billable
<1>6. owed' \in [1 .. Arms -> Nat] /\ \A a \in 1 .. Arms : a # pair.arm => owed'[a] = owed[a]
  BY <1>1, <1>2, <1>5, SMTT(30)
<1>7. Quote' = Quote /\ CountPrice' = CountPrice /\ Mine' = Mine /\ Phase' = Phase
  BY <1>1, <1>3 DEF Quote, CountPrice, Mine, Phase
<1>8. Charged(purse)' = Charged(purse) /\ Held(purse)' = Held(purse) /\ (Settled(purse)' <=> Settled(purse))
  BY <1>1 DEF Charged, Held, Settled
<1>9. CASE at = "calling"
  <2>1. ~Settled(purse)
    BY <1>1, <1>9, FlightFits
  <2> DEFINE sent == IF call.created THEN call.counted + MaxOut + call.aux * Fee ELSE Billable
  <2>2. sent = InFlight + Billable /\ sent \in Nat /\ sent <= purse.open.reserved /\ InFlight \in Int
    BY <1>1, <1>9, FlightGrows
  <2>3. InFlight' = sent
    <3>1. Unsent' = 0 /\ call.aux - 0 = call.aux
      BY <1>3, <1>4 DEF Unsent
    <3>2. CASE call.created
      BY <1>3, <3>1, <3>2 DEF InFlight
    <3>3. CASE ~call.created
      <4>1. call.op \in {"count", "create"}
        BY <1>1, <1>2, <1>9, <3>3 DEF PairSound, CallShape
      <4> QED BY <1>3, <3>3, <4>1 DEF InFlight, Billable
    <3> QED BY <3>2, <3>3
  <2> HIDE DEF sent
  <2>4. owed[pair.arm] = Charged(Mine) + Charged(purse) + InFlight
    BY <1>9 DEF PairSound, Bill
  <2>5. /\ owed'[pair.arm] = Charged(Mine) + Charged(purse) + InFlight'
        /\ owed'[pair.arm] <= Charged(Mine) + Held(purse)
    BY <1>4, <1>5, <2>2, <2>3, <2>4, SMTT(30)
  <2>6. CallShape'
    BY <1>1, <1>3, <1>7, <1>9, <2>1 DEF PairSound, CallShape, Settled
  <2>7. agent' = agent /\ at' = "calling" /\ purse' = purse /\ agent.state # "none" /\ ~Settled(purse)'
    BY <1>1, <1>8, <1>9, <2>1 DEF PairSound, PairShape
  <2> QED BY <1>1, <1>2, <1>3, <1>6, <1>8, <1>9, <2>5, <2>6, <2>7, ChildStep
<1>10. CASE at = "failed"
  <2>1. /\ agent # NoChild /\ purse.open.state = "uncertain" /\ ~Settled(purse)
        /\ owed'[pair.arm] <= Charged(Mine) + Held(purse)
    BY <1>1, <1>5, <1>10 DEF Handed, Settled, NoAttempt
  <2>2. Mine.open = [phase |-> Phase, reserved |-> agent.grant, state |-> "dispatched"]
    BY <2>1 DEF PairSound, PairShape
  <2>3. TypeOKEvaluation'
    BY <1>1, <1>3, <1>6 DEF TypeOKEvaluation
  <2>4. PairShape'
    <3>1. \A a \in 1 .. Arms : a > pair.arm => owed'[a] = owed[a]
      BY <1>2, <1>6
    <3> QED BY <1>1, <1>7, <3>1 DEF PairSound, PairShape, Settled
  <2>5. CallShape'
    BY <1>1, <1>8, <1>10, <2>1 DEF CallShape
  <2>6. Bill'
    <3>1. owed'[pair.arm] <= Held(Mine)
      BY <1>2, <1>4, <1>5, <2>1, <2>2
    <3>2. \A a \in 1 .. Arms : owed'[a] <= Held(ledger'[a]) /\ Held(ledger'[a]) <= Ceiling
      BY <1>1, <1>6, <3>1 DEF PairSound, Bill, Mine
    <3>3. Charged(Mine)' = Charged(Mine)
      BY <1>7 DEF Charged
    <3> QED BY <1>1, <1>2, <1>8, <1>10, <2>1, <3>2, <3>3 DEF Bill
  <2>7. Solvent'
    BY <1>1, <1>7 DEF PairSound, Solvent, Charged, Held, Rest, Baselines
  <2>8. PairFlags'
    BY <1>1 DEF PairSound, PairFlags
  <2> QED BY <2>3, <2>4, <2>5, <2>6, <2>7, <2>8 DEF PairSound
<1> QED BY <1>1, <1>9, <1>10

LEMMA AckSound ==
  ASSUME PairSound, Acknowledge
  PROVE  PairSound'
<1>1. /\ at = "calling" /\ call.sent /\ call.op # "none" /\ Calling /\ TypeOKEvaluation
      /\ UNCHANGED <<pair, at, ledger, agent, stopping, owed, accepted, late>>
  BY WhileCalling DEF Acknowledge, PairSound, CallShape
<1>2. /\ purse \in Ledger /\ agent.grant \in Nat /\ Held(purse) <= agent.grant
      /\ agent \in [state : {"none", "running", "uncertain", "completed", "captured"} \cup Ended,
                    grant : Nat, cancel : BOOLEAN]
      /\ agent.state # "none" /\ pair.arm \in 1 .. Arms /\ owed \in [1 .. Arms -> Nat]
      /\ call \in [op : {"none", "count", "create", "retrieve", "cancel"}, passed : BOOLEAN, sent : BOOLEAN,
               counted : Counts \cup {0}, created : BOOLEAN, over : BOOLEAN,
               polls : 0 .. MaxPolls, aux : 0 .. MaxPolls + 1]
  BY <1>1 DEF Calling, PairSound, PairShape, TypeOKEvaluation
<1>3. /\ Fee \in Nat /\ owed[pair.arm] \in Nat
      /\ Charged(Mine) \in Nat /\ Charged(purse) \in Nat /\ purse.open.reserved \in Nat
      /\ Held(purse) = Charged(purse) + purse.open.reserved
  BY <1>1, PairNumbers, LedgerNumbers
<1>4. owed[pair.arm] = Charged(Mine) + Charged(purse) + InFlight
  BY <1>1 DEF Calling
<1>5. CASE /\ call.op = "count" /\ purse' = Charge(purse, Fee)
           /\ \E n \in Counts : call' = [Answered EXCEPT !.counted = n]
  <2>1. PICK n \in Counts : call' = [Answered EXCEPT !.counted = n]
    BY <1>5
  <2>2. \A k \in Counts : k \in Nat /\ k > 0
    <3>1. Counts \subseteq Nat \ {0}
      BY EvaluationAssumptions, Zenon
    <3> QED BY <3>1
  <2>3. /\ call'.op = "none" /\ call'.aux = call.aux /\ ~call'.sent /\ call'.polls = call.polls
        /\ call'.counted = n /\ call'.created = call.created /\ call'.over = call.over
        /\ call' \in [op : {"none", "count", "create", "retrieve", "cancel"}, passed : BOOLEAN, sent : BOOLEAN,
               counted : Counts \cup {0}, created : BOOLEAN, over : BOOLEAN,
               polls : 0 .. MaxPolls, aux : 0 .. MaxPolls + 1]
    BY <1>2, <2>1 DEF Answered
  <2>4. purse' \in Ledger /\ Settled(purse)' /\ Charged(purse)' = Charged(purse) + Fee
        /\ Held(purse)' = Charged(purse)'
    <3> DEFINE r == Charge(purse, Fee)
    <3>1. /\ r \in Ledger /\ Settled(r) /\ Charged(r) = Charged(purse) + Fee /\ Held(r) = Charged(r)
      BY <1>2, <1>3, ChargeLedger
    <3>2. purse' = r
      BY <1>5
    <3> HIDE DEF r
    <3> QED BY <3>1, <3>2 DEF Settled, Charged, Held
  <2>5. ~call.created /\ call.aux = 0 /\ call.polls = 0 /\ ~call.over
    BY <1>1, <1>5 DEF PairSound, CallShape
  <2>6. InFlight = Fee /\ InFlight' = 0
    BY <1>1, <1>5, <2>3, <2>5 DEF InFlight
  <2>7. Fee <= purse.open.reserved
    BY <1>1, <1>5, FlightFits
  <2>8. Held(purse)' <= agent.grant /\ owed[pair.arm] = Charged(Mine) + Charged(purse)' + InFlight'
    BY <1>2, <1>3, <1>4, <2>4, <2>6, <2>7
  <2>9. CallShape'
    BY <1>1, <2>2, <2>3, <2>4, <2>5 DEF CallShape
  <2>10. agent' = agent /\ at' = "calling" /\ owed' = owed
    BY <1>1
  <2> QED BY <1>1, <1>2, <2>3, <2>4, <2>8, <2>9, <2>10, ChildStep
<1>6. CASE /\ call.op # "count" /\ UNCHANGED purse
           /\ \E over \in {call.op = "cancel", TRUE} :
                call' = [Answered EXCEPT !.created = TRUE, !.over = over]
  <2>1. PICK over \in BOOLEAN :
           /\ call' = [Answered EXCEPT !.created = TRUE, !.over = over]
           /\ call.op = "cancel" => over = TRUE
    <3>1. PICK o \in {call.op = "cancel", TRUE} :
             call' = [Answered EXCEPT !.created = TRUE, !.over = o]
      BY <1>6
    <3>2. o \in BOOLEAN /\ (call.op = "cancel" => o = TRUE)
      BY <3>1
    <3> QED BY <3>1, <3>2
  <2>2. /\ call'.op = "none" /\ call'.aux = call.aux /\ ~call'.sent /\ call'.polls = call.polls
        /\ call'.counted = call.counted /\ call'.created /\ call'.over = over
        /\ call' \in [op : {"none", "count", "create", "retrieve", "cancel"}, passed : BOOLEAN, sent : BOOLEAN,
               counted : Counts \cup {0}, created : BOOLEAN, over : BOOLEAN,
               polls : 0 .. MaxPolls, aux : 0 .. MaxPolls + 1]
    BY <1>2, <2>1 DEF Answered
  <2>3. call.op \in {"create", "retrieve", "cancel"}
    BY <1>1, <1>2, <1>6
  <2>4. call.op = "create" \/ call.created
    BY <1>1, <2>3 DEF PairSound, CallShape
  <2>5. /\ call.counted > 0 /\ ~Settled(purse)
        /\ purse.open = [phase |-> "verification", reserved |-> Quote, state |-> "dispatched"]
    BY <1>1, <2>4, FlightFits DEF PairSound, CallShape
  <2>6. \/ call'.aux = call'.polls
        \/ call'.aux = call'.polls + 1 /\ call'.over
    BY <1>1, <2>1, <2>2 DEF PairSound, CallShape
  <2>7. InFlight' = InFlight
    <3>1. Unsent' = 0 /\ Unsent = 0 /\ call.aux \in Nat /\ call.aux - 0 = call.aux
      BY <1>1, <2>2, PairNumbers DEF Unsent
    <3>2. InFlight' = call.counted + MaxOut + (call.aux - 0) * Fee
      BY <2>2, <3>1 DEF InFlight
    <3>3. CASE call.created
      BY <3>1, <3>2, <3>3 DEF InFlight
    <3>4. CASE ~call.created
      <4>1. call.op = "create" /\ call.aux = 0
        BY <1>1, <2>4, <3>4 DEF PairSound, CallShape
      <4>2. InFlight = call.counted + MaxOut
        BY <1>1, <3>4, <4>1 DEF InFlight
      <4>3. (call.aux - 0) * Fee = 0
        BY <1>1, <3>1, <4>1, FeesGrow
      <4>4. call.counted + MaxOut \in Nat
        BY <1>1, PairNumbers
      <4>5. call.counted + MaxOut + 0 = call.counted + MaxOut
        BY <4>4
      <4> QED BY <3>2, <4>2, <4>3, <4>5
    <3> QED BY <3>3, <3>4
  <2>8. Quote' = Quote
    BY <2>2 DEF Quote
  <2>9. CallShape'
    BY <1>1, <1>6, <2>2, <2>5, <2>6, <2>8 DEF CallShape, Settled
  <2>10. /\ Charged(purse)' = Charged(purse) /\ Held(purse)' = Held(purse) /\ ~Settled(purse)'
         /\ purse' = purse /\ agent' = agent /\ at' = "calling" /\ owed' = owed
    BY <1>1, <1>6, <2>5 DEF Charged, Held, Settled
  <2>11. owed[pair.arm] <= Charged(Mine) + Held(purse)
    BY <2>5 DEF PairSound, Bill
  <2> QED BY <1>1, <1>2, <1>4, <2>2, <2>7, <2>9, <2>10, <2>11, ChildStep
<1> QED BY <1>5, <1>6 DEF Acknowledge

LEMMA SettleSound ==
  ASSUME PairSound, Settle
  PROVE  PairSound'
<1>1. /\ at = "calling" /\ call.op = "none" /\ call.over /\ at' = "settled" /\ Calling
      /\ TypeOKEvaluation /\ UNCHANGED <<pair, ledger, agent, call, stopping, accepted, late>>
  BY WhileCalling DEF Settle, PairSound
<1>2. PICK out \in 0 .. MaxOut :
         /\ purse' = Charge(purse, call.counted + out + call.aux * Fee)
         /\ owed' = [owed EXCEPT ![pair.arm] = @ - (MaxOut - out)]
  BY DEF Settle
<1>3. /\ purse \in Ledger /\ agent.grant \in Nat /\ Held(purse) <= agent.grant
      /\ agent \in [state : {"none", "running", "uncertain", "completed", "captured"} \cup Ended,
                    grant : Nat, cancel : BOOLEAN]
      /\ agent.state # "none" /\ pair.arm \in 1 .. Arms /\ owed \in [1 .. Arms -> Nat]
      /\ call \in [op : {"none", "count", "create", "retrieve", "cancel"}, passed : BOOLEAN, sent : BOOLEAN,
               counted : Counts \cup {0}, created : BOOLEAN, over : BOOLEAN,
               polls : 0 .. MaxPolls, aux : 0 .. MaxPolls + 1]
  BY <1>1 DEF Calling, PairSound, PairShape, TypeOKEvaluation
<1>4. /\ MaxOut \in Nat /\ owed[pair.arm] \in Nat /\ call.counted \in Nat
      /\ Charged(Mine) \in Nat /\ Charged(purse) \in Nat /\ purse.open.reserved \in Nat
      /\ Held(purse) = Charged(purse) + purse.open.reserved
  BY <1>1, PairNumbers, LedgerNumbers
<1>5. call.created /\ ~call.sent
  BY <1>1 DEF PairSound, CallShape
<1>6. /\ purse.open.reserved = call.counted + MaxOut + AuxiliaryLimit * Fee
      /\ call.aux * Fee \in Nat /\ AuxiliaryLimit * Fee \in Nat
      /\ call.aux * Fee <= AuxiliaryLimit * Fee
  BY <1>1, <1>5, FlightFits, FeesGrow
<1>7. PICK x \in Nat : x = call.aux * Fee
  BY <1>6
<1>8. PICK y \in Nat : y = AuxiliaryLimit * Fee
  BY <1>6
<1>9. PICK cost \in Nat : cost = call.counted + out + x
  BY <1>4, <1>7
<1>10. x <= y /\ purse.open.reserved = call.counted + MaxOut + y /\ purse' = Charge(purse, cost)
  BY <1>2, <1>6, <1>7, <1>8, <1>9, Zenon
<1>11. InFlight = call.counted + MaxOut + x
  <2>1. Unsent = 0 /\ call.aux - 0 = call.aux
    BY <1>1, PairNumbers DEF Unsent
  <2> QED BY <1>5, <1>7, <2>1 DEF InFlight
<1>12. owed[pair.arm] = Charged(Mine) + Charged(purse) + (call.counted + MaxOut + x)
  BY <1>1, <1>11 DEF Calling
<1>13. /\ purse' \in Ledger /\ Settled(purse)' /\ Charged(purse)' = Charged(purse) + cost
       /\ Held(purse)' = Charged(purse)'
  <2> DEFINE r == Charge(purse, cost)
  <2>1. /\ r \in Ledger /\ Settled(r) /\ Charged(r) = Charged(purse) + cost /\ Held(r) = Charged(r)
    BY <1>3, <1>9, ChargeLedger
  <2>2. purse' = r
    BY <1>10
  <2> HIDE DEF r
  <2> QED BY <2>1, <2>2 DEF Settled, Charged, Held
<1>14. owed'[pair.arm] = owed[pair.arm] - (MaxOut - out) /\ owed'[pair.arm] = Charged(Mine) + Charged(purse)'
  <2>1. owed'[pair.arm] = owed[pair.arm] - (MaxOut - out)
    BY <1>2, <1>3
  <2>2. out \in Nat /\ x \in Nat /\ cost = call.counted + out + x
    BY <1>4, <1>7, <1>9
  <2>3. owed[pair.arm] - (MaxOut - out) = Charged(Mine) + (Charged(purse) + cost)
    BY <1>4, <1>12, <2>2
  <2> QED BY <1>13, <2>1, <2>3
<1>15. Charged(purse)' \in Nat /\ owed'[pair.arm] \in Nat
  BY <1>4, <1>9, <1>13, <1>14
<1>16. owed' \in [1 .. Arms -> Nat] /\ \A a \in 1 .. Arms : a # pair.arm => owed'[a] = owed[a]
  BY <1>2, <1>3, <1>14, <1>15
<1>17. Held(purse)' <= agent.grant
  <2>1. out \in Nat /\ out <= MaxOut
    BY <1>4
  <2>2. cost <= purse.open.reserved
    BY <1>4, <1>9, <1>10, <2>1
  <2> QED BY <1>3, <1>4, <1>13, <2>2
<1>18. CallShape'
  BY <1>1, <1>13 DEF CallShape
<1>19. agent' = agent /\ call' = call
  BY <1>1
<1> QED BY <1>1, <1>3, <1>13, <1>14, <1>16, <1>17, <1>18, <1>19, ChildStep

LEMMA BreakSound ==
  ASSUME PairSound, Break
  PROVE  PairSound'
<1>1. /\ at \in {"calling", "settled"} /\ at' = "failed" /\ purse' = Unknown(purse)
      /\ UNCHANGED <<pair, ledger, agent, call, stopping, owed, accepted, late>> /\ TypeOKEvaluation
  BY DEF Break, Retained, PairSound
<1>2. /\ purse \in Ledger /\ agent.grant \in Nat /\ Held(purse) <= agent.grant
      /\ agent \in [state : {"none", "running", "uncertain", "completed", "captured"} \cup Ended,
                    grant : Nat, cancel : BOOLEAN]
      /\ agent.state # "none" /\ agent # NoChild /\ owed \in [1 .. Arms -> Nat]
      /\ call \in [op : {"none", "count", "create", "retrieve", "cancel"}, passed : BOOLEAN, sent : BOOLEAN,
               counted : Counts \cup {0}, created : BOOLEAN, over : BOOLEAN,
               polls : 0 .. MaxPolls, aux : 0 .. MaxPolls + 1]
  BY <1>1, PairNumbers DEF PairSound, PairShape, Bill, TypeOKEvaluation
<1>3. CASE at = "settled"
  <2>1. Settled(purse)
    BY <1>3 DEF PairSound, CallShape
  <2>2. purse' = purse
    BY <1>1, <2>1 DEF Unknown
  <2>3. pair' \in [state : {"running", "stopped_partial", "uncertain", "completed"}, arm : 1 .. Arms,
                   stage : DOMAIN Schedule, calls : 0 .. 3, cancel : BOOLEAN, captured : BOOLEAN]
    BY <1>1 DEF TypeOKEvaluation
  <2> QED BY <1>1, <1>2, <1>3, <2>2, <2>3, QuietSound
<1>4. CASE at = "calling" /\ Settled(purse)
  <2>1. purse' = purse
    BY <1>1, <1>4 DEF Unknown
  <2>2. Calling /\ InFlight = 0
    BY <1>4, WhileCalling, FlightFits
  <2>3. owed[pair.arm] = Charged(Mine) + Charged(purse)
    BY <2>2, LedgerNumbers DEF Calling
  <2>4. Settled(purse)' /\ Charged(purse)' = Charged(purse) /\ Held(purse)' = Held(purse)
    BY <1>4, <2>1 DEF Settled, Charged, Held
  <2>5. CallShape'
    BY <1>1, <2>4 DEF CallShape
  <2> QED BY <1>1, <1>2, <1>4, <2>1, <2>3, <2>4, <2>5, ChildStep
<1>5. CASE at = "calling" /\ ~Settled(purse)
  <2>1. /\ purse' \in Ledger /\ purse'.work = purse.work /\ purse'.verification = purse.verification
        /\ purse'.open.reserved = purse.open.reserved /\ purse'.open.state = "uncertain"
        /\ ~Settled(purse)'
    <3> DEFINE r == Unknown(purse)
    <3>1. /\ r \in Ledger /\ r.work = purse.work /\ r.verification = purse.verification
          /\ r.open.reserved = purse.open.reserved /\ r.open.state = "uncertain" /\ ~Settled(r)
      BY <1>2, <1>5, UnknownLedger
    <3>2. purse' = r
      BY <1>1
    <3> HIDE DEF r
    <3> QED BY <3>1, <3>2 DEF Settled
  <2>2. Charged(purse)' = Charged(purse) /\ Held(purse)' = Held(purse)
    BY <2>1 DEF Charged, Held
  <2>3. owed[pair.arm] <= Charged(Mine) + Held(purse)
    BY <1>5 DEF PairSound, Bill
  <2>4. CallShape'
    BY <1>1, <2>1 DEF CallShape
  <2> QED BY <1>1, <1>2, <1>5, <2>1, <2>2, <2>3, <2>4, ChildStep
<1> QED BY <1>1, <1>3, <1>4, <1>5

LEMMA ConcludeSound ==
  ASSUME PairSound, Conclude
  PROVE  PairSound'
<1>1. /\ at = "settled" /\ at' = "returned" /\ agent # NoChild /\ Settled(purse)
      /\ UNCHANGED <<pair, ledger, purse, call, stopping, owed, accepted, late>>
  BY DEF Conclude, PairSound, PairShape, CallShape
<1>2. PICK state \in {"running", "completed", "resource_limit", "stopped"} :
         agent' = [agent EXCEPT !.state = IF agent.cancel THEN "cancelled" ELSE state]
  BY DEF Conclude
<1>3. agent \in [state : {"none", "running", "uncertain", "completed", "captured"} \cup Ended,
                 grant : Nat, cancel : BOOLEAN]
  BY DEF PairSound, TypeOKEvaluation
<1>4. /\ agent' \in [state : {"none", "running", "uncertain", "completed", "captured"} \cup Ended,
                     grant : Nat, cancel : BOOLEAN]
      /\ agent'.grant = agent.grant /\ agent'.state # "none"
  BY <1>2, <1>3 DEF Ended
<1>5. agent' # NoChild
  BY <1>4, NoChildFits
<1>6. pair' \in [state : {"running", "stopped_partial", "uncertain", "completed"}, arm : 1 .. Arms,
                 stage : DOMAIN Schedule, calls : 0 .. 3, cancel : BOOLEAN, captured : BOOLEAN]
  BY <1>1 DEF PairSound, TypeOKEvaluation
<1> QED BY <1>1, <1>4, <1>5, <1>6, QuietSound

LEMMA NextCallSound ==
  ASSUME PairSound, NextCall
  PROVE  PairSound'
<1>1. /\ at = "returned" /\ at' = "idle" /\ agent # NoChild /\ Settled(purse)
      /\ agent.state = "running" /\ pair.calls < Schedule[pair.stage].slots
      /\ UNCHANGED <<pair, ledger, agent, purse, call, stopping, owed, accepted, late>>
  BY DEF NextCall, PairSound, PairShape, CallShape
<1>2. /\ agent' \in [state : {"none", "running", "uncertain", "completed", "captured"} \cup Ended,
                     grant : Nat, cancel : BOOLEAN]
      /\ pair' \in [state : {"running", "stopped_partial", "uncertain", "completed"}, arm : 1 .. Arms,
                    stage : DOMAIN Schedule, calls : 0 .. 3, cancel : BOOLEAN, captured : BOOLEAN]
  BY <1>1 DEF PairSound, TypeOKEvaluation
<1> QED BY <1>1, <1>2, QuietSound

-----------------------------------------------------------------------------
(* The close of a stage.                                                   *)
LEMMA CloseFacts ==
  ASSUME PairSound, agent # NoChild, at # "calling", CloseStage
  PROVE  LET l == ledger'[pair.arm] IN
         /\ l \in Ledger /\ ledger' \in [1 .. Arms -> Ledger]
         /\ \A a \in 1 .. Arms : a # pair.arm => ledger'[a] = ledger[a]
         /\ owed[pair.arm] <= Held(l) /\ Held(l) <= Held(Mine)
         /\ IF Settled(purse)
            THEN /\ Settled(l) /\ Held(l) = Charged(l) /\ owed[pair.arm] = Charged(l)
                 /\ l.work <= IF Phase = "work" THEN Mine.work + Mine.open.reserved ELSE Mine.work
            ELSE l.open.state = "uncertain"
<1> DEFINE l == ledger'[pair.arm]
<1>1. /\ pair.arm \in 1 .. Arms /\ Mine \in Ledger /\ purse \in Ledger /\ agent.grant \in Nat
      /\ ledger \in [1 .. Arms -> Ledger] /\ Held(purse) <= agent.grant
      /\ Mine.open = [phase |-> Phase, reserved |-> agent.grant, state |-> "dispatched"]
  BY PairNumbers DEF PairSound, PairShape, Bill
<1>2. l = IF Settled(purse) THEN Charge(Mine, Charged(purse)) ELSE Unknown(Mine)
  BY <1>1 DEF CloseStage, Mine
<1>3. \A a \in 1 .. Arms : a # pair.arm => ledger'[a] = ledger[a]
  BY <1>1 DEF CloseStage
<1>4. ledger' = [ledger EXCEPT ![pair.arm] = l]
  BY <1>1, <1>2 DEF CloseStage, Mine
<1>5. /\ ~Settled(Mine) /\ Mine.open.reserved = agent.grant /\ Mine.open.phase = Phase
      /\ Mine.open.state = "dispatched"
  BY <1>1 DEF Settled, NoAttempt
<1>6. /\ Held(Mine) = Charged(Mine) + agent.grant /\ Charged(Mine) \in Nat /\ Charged(purse) \in Nat
      /\ Mine.work \in Nat /\ Held(purse) \in Nat /\ (Settled(purse) => Held(purse) = Charged(purse))
      /\ Charged(Mine) = Mine.work + Mine.verification
  BY <1>1, <1>5, LedgerNumbers
<1> HIDE DEF l
<1>7. CASE Settled(purse)
  <2>1. owed[pair.arm] = Charged(Mine) + Charged(purse)
    BY <1>5, <1>7 DEF PairSound, Bill
  <2> DEFINE r == Charge(Mine, Charged(purse))
  <2>2. /\ r \in Ledger /\ Settled(r) /\ Charged(r) = Charged(Mine) + Charged(purse) /\ Held(r) = Charged(r)
        /\ r.work = IF Mine.open.phase = "work" THEN Mine.work + Charged(purse) ELSE Mine.work
    BY <1>1, <1>6, ChargeLedger
  <2>3. l = r
    BY <1>2, <1>7
  <2> HIDE DEF r
  <2>4. l \in Ledger /\ Settled(l) /\ Charged(l) = Charged(Mine) + Charged(purse) /\ Held(l) = Charged(l)
    BY <2>2, <2>3
  <2>5. l.work <= IF Phase = "work" THEN Mine.work + Mine.open.reserved ELSE Mine.work
    BY <1>1, <1>5, <1>6, <1>7, <2>2, <2>3
  <2>6. ledger' \in [1 .. Arms -> Ledger]
    BY <1>1, <1>4, <2>4
  <2>7. owed[pair.arm] = Charged(l) /\ owed[pair.arm] <= Held(l) /\ Held(l) <= Held(Mine)
    BY <1>1, <1>6, <1>7, <2>1, <2>4
  <2> QED BY <1>3, <1>7, <2>4, <2>5, <2>6, <2>7 DEF l
<1>8. CASE ~Settled(purse)
  <2> DEFINE r == Unknown(Mine)
  <2>1. /\ r \in Ledger /\ r.work = Mine.work /\ r.verification = Mine.verification
        /\ r.open.reserved = Mine.open.reserved /\ r.open.state = "uncertain" /\ ~Settled(r)
    BY <1>1, <1>5, UnknownLedger
  <2>2. l = r
    BY <1>2, <1>8
  <2> HIDE DEF r
  <2>3. l \in Ledger /\ l.open.state = "uncertain" /\ Held(l) = Held(Mine)
    BY <2>1, <2>2 DEF Held, Charged
  <2>4. ledger' \in [1 .. Arms -> Ledger]
    BY <1>1, <1>4, <2>3
  <2>5. owed[pair.arm] <= Held(Mine) /\ Held(Mine) <= Held(Mine)
    BY <1>1, <1>6 DEF PairSound, Bill, Mine
  <2> QED BY <1>3, <1>8, <2>3, <2>4, <2>5 DEF l
<1> QED BY <1>7, <1>8 DEF l

LEMMA ClosedSound ==
  ASSUME PairSound, agent # NoChild, at # "calling", CloseStage, at' = "idle",
         UNCHANGED <<stopping, owed, accepted, late>>,
         pair'.arm = pair.arm, pair'.stage = pair.stage, pair'.cancel = pair.cancel,
         pair'.state # "running",
         pair' \in [state : {"running", "stopped_partial", "uncertain", "completed"}, arm : 1 .. Arms,
                    stage : DOMAIN Schedule, calls : 0 .. 3, cancel : BOOLEAN, captured : BOOLEAN]
  PROVE  PairSound'
<1> DEFINE l == ledger'[pair.arm]
<1>1. /\ l \in Ledger /\ ledger' \in [1 .. Arms -> Ledger]
      /\ \A a \in 1 .. Arms : a # pair.arm => ledger'[a] = ledger[a]
      /\ owed[pair.arm] <= Held(l) /\ Held(l) <= Held(Mine)
      /\ Settled(purse) => owed[pair.arm] = Charged(l)
      /\ ~Settled(purse) => l.open.state = "uncertain"
  BY CloseFacts
<1>2. Mine' = l
  BY DEF Mine
<1>3. agent' = NoChild /\ purse' = NewLedger /\ call' = NoCall
  BY DEF CloseStage
<1>4. pair.arm \in 1 .. Arms /\ Mine \in Ledger
  BY PairNumbers DEF PairSound
<1> HIDE DEF l
<1>5. TypeOKEvaluation'
  BY <1>1, <1>3, NoChildFits, NewLedgerFits DEF PairSound, TypeOKEvaluation
<1>6. PairShape'
  BY <1>1, <1>3, <1>4, NoChildFits DEF PairSound, PairShape
<1>7. Settled(purse)' /\ Charged(purse)' = 0 /\ Held(purse)' = 0 /\ agent'.grant = 0
  BY <1>3, NewLedgerFits, NoChildFits DEF Settled, Charged, Held
<1>8. CallShape'
  BY <1>3, <1>7 DEF CallShape
<1>9. Bill'
  <2>1. \A a \in 1 .. Arms : owed[a] <= Held(ledger'[a]) /\ Held(ledger'[a]) <= Ceiling
    <3> TAKE a \in 1 .. Arms
    <3>1. CASE a = pair.arm
      <4>1. Held(Mine) <= Ceiling
        BY <1>4 DEF PairSound, Bill, Mine
      <4>2. ledger'[a] = l
        BY <3>1 DEF l
      <4>3. Held(l) \in Nat /\ Held(Mine) \in Nat /\ Ceiling \in Nat
        BY <1>1, <1>4, LedgerNumbers, PairNumbers DEF PairSound
      <4> QED BY <1>1, <3>1, <4>1, <4>2, <4>3
    <3>2. CASE a # pair.arm
      BY <1>1, <3>2 DEF PairSound, Bill
    <3> QED BY <3>1, <3>2
  <2>2. l.open.state # "uncertain" => owed[pair.arm] = Charged(l) + 0
    BY <1>1, LedgerNumbers
  <2>3. Charged(Mine)' = Charged(l)
    BY <1>2 DEF Charged
  <2> QED BY <1>2, <1>7, <2>1, <2>2, <2>3 DEF Bill
<1>10. Solvent'
  BY <1>3 DEF Solvent
<1>11. PairFlags'
  BY DEF PairSound, PairFlags
<1> QED BY <1>5, <1>6, <1>8, <1>9, <1>10, <1>11 DEF PairSound

(* With no child, only the state of the pair changes.                      *)
LEMMA AloneSound ==
  ASSUME PairSound, agent = NoChild, at # "calling", at' = "idle",
         UNCHANGED <<ledger, agent, purse, call, stopping, owed, accepted, late>>,
         pair'.arm = pair.arm, pair'.stage = pair.stage, pair'.cancel = pair.cancel,
         pair'.state # "running",
         pair' \in [state : {"running", "stopped_partial", "uncertain", "completed"}, arm : 1 .. Arms,
                    stage : DOMAIN Schedule, calls : 0 .. 3, cancel : BOOLEAN, captured : BOOLEAN]
  PROVE  PairSound'
<1>1. Mine' = Mine /\ Settled(purse) /\ purse = NewLedger
  BY NewLedgerFits DEF Mine, PairSound, PairShape
<1>2. TypeOKEvaluation'
  BY DEF PairSound, TypeOKEvaluation
<1>3. PairShape'
  BY <1>1 DEF PairSound, PairShape
<1>4. CallShape'
  BY <1>1 DEF CallShape, Settled
<1>5. Bill'
  BY <1>1 DEF PairSound, Bill, Settled, Charged, Held
<1>6. Solvent'
  BY DEF Solvent
<1>7. PairFlags'
  BY DEF PairSound, PairFlags
<1> QED BY <1>2, <1>3, <1>4, <1>5, <1>6, <1>7 DEF PairSound

LEMMA StopSound ==
  ASSUME PairSound, StopShort \/ Handle \/ FinishPair
  PROVE  PairSound'
<1> DEFINE States == {"running", "stopped_partial", "uncertain", "completed"}
           Pairs == [state : {"running", "stopped_partial", "uncertain", "completed"}, arm : 1 .. Arms,
                     stage : DOMAIN Schedule, calls : 0 .. 3, cancel : BOOLEAN, captured : BOOLEAN]
<1>1. pair \in Pairs
  BY DEF PairSound, TypeOKEvaluation
<1>2. \A w \in States, b \in BOOLEAN :
        LET p == [pair EXCEPT !.state = w, !.captured = b] IN
        /\ p \in Pairs /\ p.arm = pair.arm /\ p.stage = pair.stage /\ p.cancel = pair.cancel /\ p.state = w
  BY <1>1
<1>3. \A w \in States :
        LET p == [pair EXCEPT !.state = w] IN
        /\ p \in Pairs /\ p.arm = pair.arm /\ p.stage = pair.stage /\ p.cancel = pair.cancel /\ p.state = w
  BY <1>1
<1>4. After("stopped_partial") \in {"stopped_partial", "uncertain"}
  BY DEF After
<1>5. CASE StopShort
  <2>1. agent # NoChild /\ at = "returned"
    BY <1>5 DEF StopShort, PairSound, PairShape
  <2>2. pair' \in Pairs /\ pair'.arm = pair.arm /\ pair'.stage = pair.stage /\ pair'.cancel = pair.cancel
        /\ pair'.state # "running"
    <3>1. PICK w \in {"stopped_partial", "uncertain"} : w = After("stopped_partial")
      BY <1>4
    <3>2. pair' = [pair EXCEPT !.state = w]
      BY <1>5, <3>1 DEF StopShort
    <3> HIDE DEF Pairs
    <3> QED BY <1>3, <3>2
  <2> QED BY <1>5, <2>1, <2>2, ClosedSound DEF StopShort
<1>6. CASE Handle
  <2>1. at = "failed" /\ at' = "idle" /\ UNCHANGED <<stopping, owed, accepted, late>>
    BY <1>6 DEF Handle
  <2>2. CASE /\ agent # NoChild /\ CloseStage
             /\ pair' = [pair EXCEPT !.state = After("stopped_partial")]
    <3>1. PICK w \in {"stopped_partial", "uncertain"} : w = After("stopped_partial")
      BY <1>4
    <3>2. pair' = [pair EXCEPT !.state = w]
      BY <2>2, <3>1
    <3>3. pair' \in Pairs /\ pair'.arm = pair.arm /\ pair'.stage = pair.stage /\ pair'.cancel = pair.cancel
          /\ pair'.state # "running"
      <4> HIDE DEF Pairs
      <4> QED BY <1>3, <3>2
    <3> QED BY <2>1, <2>2, <3>3, ClosedSound
  <2>3. CASE /\ agent = NoChild /\ UNCHANGED <<ledger, agent, purse, call>>
             /\ pair' = [pair EXCEPT !.state = IF Settled(Mine) THEN "stopped_partial" ELSE "uncertain"]
    <3>1. PICK w \in {"stopped_partial", "uncertain"} : pair' = [pair EXCEPT !.state = w]
      BY <2>3
    <3>2. pair' \in Pairs /\ pair'.arm = pair.arm /\ pair'.stage = pair.stage /\ pair'.cancel = pair.cancel
          /\ pair'.state # "running"
      <4> HIDE DEF Pairs
      <4> QED BY <1>3, <3>1
    <3> QED BY <2>1, <2>3, <3>2, AloneSound
  <2>4. CASE /\ agent # NoChild /\ agent' = [agent EXCEPT !.state = "captured"]
             /\ pair' = [pair EXCEPT !.state = "uncertain"] /\ UNCHANGED <<ledger, purse, call>>
    <3>1. pair' \in Pairs /\ pair'.arm = pair.arm /\ pair'.stage = pair.stage /\ pair'.cancel = pair.cancel
          /\ pair'.state = "uncertain"
      <4> HIDE DEF Pairs
      <4> QED BY <1>3, <2>4
    <3>2. agent \in [state : {"none", "running", "uncertain", "completed", "captured"} \cup Ended,
                     grant : Nat, cancel : BOOLEAN]
      BY DEF PairSound, TypeOKEvaluation
    <3>3. /\ agent' \in [state : {"none", "running", "uncertain", "completed", "captured"} \cup Ended,
                         grant : Nat, cancel : BOOLEAN]
          /\ agent'.grant = agent.grant /\ agent'.state = "captured"
      BY <2>4, <3>2
    <3>4. agent' # NoChild /\ agent'.state # "none"
      BY <3>3, NoChildFits
    <3> QED BY <2>1, <2>4, <3>1, <3>3, <3>4, QuietSound
  <2> QED BY <1>6, <2>2, <2>3, <2>4 DEF Handle
<1>7. CASE FinishPair
  <2>1. at = "idle" /\ at' = "idle" /\ UNCHANGED <<stopping, owed, accepted, late>>
    BY <1>7 DEF FinishPair
  <2>2. CASE /\ agent # NoChild /\ CloseStage
             /\ pair' = [pair EXCEPT !.state = After("stopped_partial"), !.captured = TRUE]
    <3>1. PICK w \in {"stopped_partial", "uncertain"} : w = After("stopped_partial")
      BY <1>4
    <3>2. pair' = [pair EXCEPT !.state = w, !.captured = TRUE]
      BY <2>2, <3>1
    <3>3. pair' \in Pairs /\ pair'.arm = pair.arm /\ pair'.stage = pair.stage /\ pair'.cancel = pair.cancel
          /\ pair'.state # "running"
      <4> HIDE DEF Pairs
      <4> QED BY <1>2, <3>2, ZenonT(30)
    <3> QED BY <2>1, <2>2, <3>3, ClosedSound
  <2>3. CASE \E w \in {"stopped_partial", "uncertain", "completed"} :
               /\ agent = NoChild /\ UNCHANGED <<ledger, agent, purse, call>>
               /\ pair' = [pair EXCEPT !.state = w, !.captured = TRUE]
    <3>1. PICK w \in {"stopped_partial", "uncertain", "completed"} :
             pair' = [pair EXCEPT !.state = w, !.captured = TRUE]
      BY <2>3
    <3>2. pair' \in Pairs /\ pair'.arm = pair.arm /\ pair'.stage = pair.stage /\ pair'.cancel = pair.cancel
          /\ pair'.state # "running"
      <4> HIDE DEF Pairs
      <4> QED BY <1>2, <3>1, ZenonT(30)
    <3> QED BY <2>1, <2>3, <3>2, AloneSound
  <2>4. (IF pair.state = "running" THEN "stopped_partial" ELSE pair.state)
          \in {"stopped_partial", "uncertain", "completed"}
    BY <1>1
  <2> QED BY <1>7, <2>2, <2>3, <2>4 DEF FinishPair
<1> QED BY <1>5, <1>6, <1>7

LEMMA AcceptSound ==
  ASSUME PairSound, AcceptStage
  PROVE  PairSound'
<1>1. /\ at = "returned" /\ agent # NoChild /\ pair.state = "running" /\ ~pair.captured
      /\ Settled(purse) /\ UNCHANGED <<stopping, owed, late>>
  BY DEF AcceptStage, PairSound, PairShape, CallShape
<1>2. CASE at' = "failed" /\ UNCHANGED <<ledger, agent, purse, call, pair, accepted>>
  <2>1. /\ agent' \in [state : {"none", "running", "uncertain", "completed", "captured"} \cup Ended,
                       grant : Nat, cancel : BOOLEAN]
        /\ pair' \in [state : {"running", "stopped_partial", "uncertain", "completed"}, arm : 1 .. Arms,
                      stage : DOMAIN Schedule, calls : 0 .. 3, cancel : BOOLEAN, captured : BOOLEAN]
        /\ agent'.state # "none" /\ agent'.grant = agent.grant
    BY <1>1, <1>2 DEF PairSound, PairShape, TypeOKEvaluation
  <2> QED BY <1>1, <1>2, <2>1, QuietSound
<1>3. CASE /\ CloseStage /\ at' = "idle" /\ pair' = NextStage
           /\ accepted' = [accepted EXCEPT ![pair.arm] = @ + 1]
  <2> DEFINE l == ledger'[pair.arm]
             s == pair.stage
             Pairs == [state : {"running", "stopped_partial", "uncertain", "completed"}, arm : 1 .. Arms,
                       stage : DOMAIN Schedule, calls : 0 .. 3, cancel : BOOLEAN, captured : BOOLEAN]
  <2>1. /\ l \in Ledger /\ ledger' \in [1 .. Arms -> Ledger]
        /\ \A a \in 1 .. Arms : a # pair.arm => ledger'[a] = ledger[a]
        /\ owed[pair.arm] <= Held(l) /\ Held(l) <= Held(Mine)
        /\ Settled(l) /\ Held(l) = Charged(l) /\ owed[pair.arm] = Charged(l)
        /\ l.work <= IF Phase = "work" THEN Mine.work + Mine.open.reserved ELSE Mine.work
    BY <1>1, <1>3, CloseFacts
  <2>2. agent' = NoChild /\ purse' = NewLedger /\ call' = NoCall
    BY <1>3 DEF CloseStage
  <2>3. /\ pair.arm \in 1 .. Arms /\ Mine \in Ledger /\ s \in 1 .. 6 /\ Phase = Schedule[s].phase
        /\ Arms \in Nat /\ Ceiling \in Nat /\ Protected \in Nat /\ pair \in Pairs
    BY PairNumbers, Baselines6, EvaluationAssumptions DEF PairSound, Phase, TypeOKEvaluation
  <2>4. /\ accepted \in [1 .. Arms -> 0 .. 6] /\ accepted[pair.arm] = s - 1
    BY <1>1 DEF PairSound, PairShape, TypeOKEvaluation
  <2>5. /\ accepted' \in [1 .. Arms -> 0 .. 6] /\ accepted'[pair.arm] = s
        /\ \A a \in 1 .. Arms : a # pair.arm => accepted'[a] = accepted[a]
    <3>1. accepted[pair.arm] + 1 = s /\ s \in 0 .. 6
      BY <2>3, <2>4
    <3> QED BY <1>3, <2>3, <2>4, <3>1
  <2>6. /\ pair'.cancel = pair.cancel /\ pair' \in Pairs
        /\ \/ s < 6 /\ pair'.state = "running" /\ pair'.stage = s + 1 /\ pair'.arm = pair.arm
           \/ s = 6 /\ pair'.state = "running" /\ pair'.stage = 1 /\ pair'.arm = pair.arm + 1
           \/ pair'.state # "running" /\ pair'.arm = pair.arm
    <3>1. CASE s < 6
      <4>1. pair' = [pair EXCEPT !.stage = @ + 1] /\ s + 1 \in DOMAIN Schedule
        BY <1>3, <2>3, <3>1, SixStages DEF NextStage
      <4> QED BY <1>1, <2>3, <3>1, <4>1
    <3>2. CASE s = 6 /\ pair.arm < Arms
      <4>1. /\ pair' = [pair EXCEPT !.stage = 1, !.arm = @ + 1] /\ 1 \in DOMAIN Schedule
            /\ pair.arm + 1 \in 1 .. Arms
        BY <1>3, <2>3, <3>2, SixStages DEF NextStage
      <4> QED BY <1>1, <2>3, <3>2, <4>1
    <3>3. CASE s = 6 /\ ~(pair.arm < Arms)
      <4>1. pair' = [pair EXCEPT !.state = "completed"]
        BY <1>3, <3>3, SixStages DEF NextStage
      <4> QED BY <2>3, <4>1
    <3> QED BY <2>3, <3>1, <3>2, <3>3
  <2>7. pair'.arm \in 1 .. Arms
    BY <2>6
  <2>8. Mine' = IF pair'.arm = pair.arm THEN l ELSE ledger[pair'.arm]
    BY <2>1, <2>7 DEF Mine
  <2>9. pair'.arm # pair.arm =>
          /\ s = 6 /\ pair'.state = "running" /\ pair'.stage = 1 /\ pair'.arm = pair.arm + 1
          /\ pair'.arm > pair.arm /\ Mine' = NewLedger /\ owed[pair'.arm] = 0
          /\ accepted'[pair'.arm] = 0
    <3> SUFFICES ASSUME pair'.arm # pair.arm
                 PROVE  /\ s = 6 /\ pair'.state = "running" /\ pair'.stage = 1 /\ pair'.arm = pair.arm + 1
                        /\ pair'.arm > pair.arm /\ Mine' = NewLedger /\ owed[pair'.arm] = 0
                        /\ accepted'[pair'.arm] = 0
      OBVIOUS
    <3>1. s = 6 /\ pair'.state = "running" /\ pair'.stage = 1 /\ pair'.arm = pair.arm + 1 /\ pair'.arm > pair.arm
      BY <2>3, <2>6
    <3>2. ledger[pair'.arm] = NewLedger /\ owed[pair'.arm] = 0 /\ accepted[pair'.arm] = 0
      BY <2>7, <3>1 DEF PairSound, PairShape
    <3> QED BY <2>5, <2>7, <2>8, <3>1, <3>2
  <2> HIDE DEF l, Pairs
  <2>10. Settled(Mine)' /\ Charged(Mine)' = owed[pair'.arm] /\ Mine'.open.state # "uncertain" /\ Mine' \in Ledger
    <3>1. CASE pair'.arm = pair.arm
      <4>1. Mine' = l
        BY <2>8, <3>1
      <4> QED BY <2>1, <3>1, <4>1, LedgerNumbers DEF Settled, Charged
    <3>2. CASE pair'.arm # pair.arm
      BY <2>9, <3>2, NewLedgerFits, LedgerNumbers DEF Settled, Charged
    <3> QED BY <3>1, <3>2
  <2>11. Settled(purse)' /\ Charged(purse)' = 0 /\ Held(purse)' = 0 /\ agent'.grant = 0
    BY <2>2, NewLedgerFits, NoChildFits DEF Settled, Charged, Held
  <2>12. TypeOKEvaluation'
    BY <1>1, <1>3, <2>1, <2>2, <2>5, <2>6, NoChildFits, NewLedgerFits DEF PairSound, TypeOKEvaluation, Pairs
  <2>13. PairShape'
    <3>1. \A a \in 1 .. Arms : a > pair'.arm => ledger'[a] = NewLedger /\ owed[a] = 0 /\ accepted'[a] = 0
      <4> TAKE a \in 1 .. Arms
      <4> HAVE a > pair'.arm
      <4>1. a > pair.arm /\ a # pair.arm
        BY <2>3, <2>6, <2>7
      <4> QED BY <2>1, <2>5, <4>1 DEF PairSound, PairShape
    <3>2. pair'.state = "running" => accepted'[pair'.arm] = pair'.stage - 1
      BY <2>3, <2>5, <2>6, <2>9
    <3> QED BY <1>1, <1>3, <2>2, <2>10, <3>1, <3>2, NoChildFits DEF PairShape
  <2>14. CallShape'
    BY <1>3, <2>11 DEF CallShape
  <2>15. Bill'
    <3>1. \A a \in 1 .. Arms : owed[a] <= Held(ledger'[a]) /\ Held(ledger'[a]) <= Ceiling
      <4> TAKE a \in 1 .. Arms
      <4>1. CASE a = pair.arm
        <5>1. Held(Mine) <= Ceiling
          BY <2>3 DEF PairSound, Bill, Mine
        <5>2. ledger'[a] = l
          BY <4>1 DEF l
        <5>3. Held(l) \in Nat /\ Held(Mine) \in Nat
          BY <2>1, <2>3, LedgerNumbers
        <5> QED BY <2>1, <2>3, <4>1, <5>1, <5>2, <5>3
      <4>2. CASE a # pair.arm
        BY <2>1, <4>2 DEF PairSound, Bill
      <4> QED BY <4>1, <4>2
    <3>2. owed[pair'.arm] = Charged(Mine)' + 0
      <4>1. Charged(Mine)' \in Nat
        BY <2>10, LedgerNumbers DEF Charged
      <4> QED BY <2>10, <4>1
    <3> QED BY <1>1, <1>3, <2>11, <3>1, <3>2 DEF Bill
  <2>16. Solvent'
    <3> SUFFICES ASSUME pair'.state = "running"
                 PROVE  /\ Charged(Mine)' + Rest(pair'.stage, Phases) <= Ceiling
                        /\ Mine'.work + Rest(pair'.stage, {"work"}) <= Ceiling - Protected
      BY <1>3, <2>2 DEF Solvent, Rest, Baselines, Baseline
    <3>1. CASE pair'.arm = pair.arm
      <4>1. Mine' = l /\ pair'.stage = s + 1
        BY <2>3, <2>6, <2>8, <3>1
      <4>2. /\ Rest(s + 1, Phases) \in Nat /\ Rest(s + 1, {"work"}) \in Nat
            /\ Phase # "work" => Rest(s, {"work"}) = Rest(s + 1, {"work"})
        BY <2>3, RestStep
      <4>3. /\ Held(Mine) + Rest(s + 1, Phases) <= Ceiling
            /\ Phase = "work" => Mine.work + Mine.open.reserved + Rest(s + 1, {"work"}) <= Ceiling - Protected
            /\ Mine.work + Rest(s, {"work"}) <= Ceiling - Protected
        BY <1>1 DEF PairSound, Solvent
      <4>4. Charged(l) \in Nat /\ Held(Mine) \in Nat /\ l.work \in Nat /\ Mine.work \in Nat
            /\ Mine.open.reserved \in Nat
        BY <2>1, <2>3, LedgerNumbers
      <4>5. Charged(l) + Rest(s + 1, Phases) <= Ceiling
        BY <2>1, <2>3, <4>2, <4>3, <4>4
      <4>6. l.work + Rest(s + 1, {"work"}) <= Ceiling - Protected
        BY <2>1, <2>3, <4>2, <4>3, <4>4, SMTT(30)
      <4> QED BY <4>1, <4>5, <4>6 DEF Charged
    <3>2. CASE pair'.arm # pair.arm
      <4>1. Charged(Mine)' = 0 /\ Mine'.work = 0 /\ pair'.stage = 1
        BY <2>9, <3>2, NewLedgerFits DEF Charged
      <4> QED BY <2>3, <4>1, RestAll
    <3> QED BY <3>1, <3>2
  <2>17. PairFlags'
    BY <1>1, <1>3, <2>6 DEF PairSound, PairFlags
  <2> QED BY <2>12, <2>13, <2>14, <2>15, <2>16, <2>17 DEF PairSound
<1> QED BY <1>2, <1>3 DEF AcceptStage

LEMMA CancelSound ==
  ASSUME PairSound, FlagPair \/ FlagChild
  PROVE  PairSound'
<1>1. CASE FlagPair
  <2>1. /\ stopping' = "flagged" /\ pair' = [pair EXCEPT !.cancel = TRUE]
        /\ UNCHANGED <<at, ledger, agent, purse, call, owed, accepted, late>>
    BY <1>1 DEF FlagPair
  <2>2. pair \in [state : {"running", "stopped_partial", "uncertain", "completed"}, arm : 1 .. Arms,
                  stage : DOMAIN Schedule, calls : 0 .. 3, cancel : BOOLEAN, captured : BOOLEAN]
    BY DEF PairSound, TypeOKEvaluation
  <2>3. /\ pair' \in [state : {"running", "stopped_partial", "uncertain", "completed"}, arm : 1 .. Arms,
                      stage : DOMAIN Schedule, calls : 0 .. 3, cancel : BOOLEAN, captured : BOOLEAN]
        /\ pair'.arm = pair.arm /\ pair'.stage = pair.stage /\ pair'.state = pair.state
        /\ pair'.calls = pair.calls /\ pair'.captured = pair.captured /\ pair'.cancel
    BY <2>1, <2>2
  <2>4. Mine' = Mine /\ Phase' = Phase
    BY <2>1, <2>3 DEF Mine, Phase
  <2>5. Quote' = Quote /\ InFlight' = InFlight /\ CountPrice' = CountPrice
    BY <2>1 DEF Quote, InFlight, Unsent, CountPrice
  <2>6. TypeOKEvaluation'
    BY <2>1, <2>3 DEF PairSound, TypeOKEvaluation
  <2>7. PairShape'
    BY <2>1, <2>3, <2>4 DEF PairSound, PairShape, Settled
  <2>8. CallShape'
    BY <2>1, <2>3, <2>5 DEF PairSound, CallShape, Settled
  <2>9. Bill'
    BY <2>1, <2>3, <2>4, <2>5 DEF PairSound, Bill, Settled, Charged, Held
  <2>10. Solvent'
    BY <2>1, <2>3, <2>4 DEF PairSound, Solvent, Charged, Held, Rest, Baselines
  <2>11. PairFlags'
    BY <2>1, <2>3 DEF PairFlags
  <2> QED BY <2>6, <2>7, <2>8, <2>9, <2>10, <2>11 DEF PairSound
<1>2. CASE FlagChild
  <2>1. /\ stopping = "flagged" /\ stopping' = "returned"
        /\ agent' = IF agent = NoChild THEN agent ELSE [agent EXCEPT !.cancel = TRUE]
        /\ UNCHANGED <<pair, at, ledger, purse, call, owed, accepted, late>>
    BY <1>2 DEF FlagChild
  <2>2. agent \in [state : {"none", "running", "uncertain", "completed", "captured"} \cup Ended,
                   grant : Nat, cancel : BOOLEAN]
    BY DEF PairSound, TypeOKEvaluation
  <2>3. /\ agent' \in [state : {"none", "running", "uncertain", "completed", "captured"} \cup Ended,
                       grant : Nat, cancel : BOOLEAN]
        /\ agent'.state = agent.state /\ agent'.grant = agent.grant
        /\ agent # NoChild => agent'.cancel
    BY <2>1, <2>2
  <2>4. agent' = NoChild <=> agent = NoChild
    BY <2>1, <2>3, NoChildFits DEF PairSound, PairShape
  <2>5. Mine' = Mine /\ Phase' = Phase
    BY <2>1 DEF Mine, Phase
  <2>6. Quote' = Quote /\ InFlight' = InFlight /\ CountPrice' = CountPrice
    BY <2>1 DEF Quote, InFlight, Unsent, CountPrice
  <2>7. TypeOKEvaluation'
    BY <2>1, <2>3 DEF PairSound, TypeOKEvaluation
  <2>8. PairShape'
    BY <2>1, <2>3, <2>4, <2>5 DEF PairSound, PairShape, Settled
  <2>9. CallShape'
    BY <2>1, <2>6 DEF PairSound, CallShape, Settled
  <2>10. Bill'
    BY <2>1, <2>3, <2>5, <2>6 DEF PairSound, Bill, Settled, Charged, Held
  <2>11. Solvent'
    BY <2>1, <2>4, <2>5 DEF PairSound, Solvent, Charged, Held, Rest, Baselines
  <2>12. PairFlags'
    BY <2>1, <2>3 DEF PairSound, PairShape, PairFlags
  <2> QED BY <2>7, <2>8, <2>9, <2>10, <2>11, <2>12 DEF PairSound
<1> QED BY <1>1, <1>2

LEMMA PairInit ==
  ASSUME EvaluationInit
  PROVE  PairSound
<1>1. /\ pair = [state |-> "running", arm |-> 1, stage |-> 1, calls |-> 0, cancel |-> FALSE,
                 captured |-> FALSE]
      /\ at = "idle" /\ stopping = "no" /\ purse = NewLedger /\ agent = NoChild /\ call = NoCall
      /\ ledger = [a \in 1 .. Arms |-> NewLedger] /\ late = 0
      /\ owed = [a \in 1 .. Arms |-> 0] /\ accepted = [a \in 1 .. Arms |-> 0]
  BY DEF EvaluationInit
<1>2. 1 \in 1 .. Arms
  BY EvaluationAssumptions
<1>3. Mine = NewLedger /\ owed[pair.arm] = 0 /\ accepted[pair.arm] = 0
  BY <1>1, <1>2 DEF Mine
<1>4. TypeOKEvaluation
  BY <1>1, <1>2, NoChildFits, NewLedgerFits, SixStages DEF TypeOKEvaluation
<1>5. PairShape
  BY <1>1, <1>3, NewLedgerFits DEF PairShape, Settled, NoAttempt
<1>6. CallShape
  BY <1>1, NewLedgerFits DEF CallShape
<1>7. Bill
  <2>1. Ceiling \in Nat /\ agent.grant = 0
    BY <1>1, NoChildFits, EvaluationAssumptions
  <2> QED BY <1>1, <1>3, <2>1, NewLedgerFits DEF Bill
<1>8. Solvent
  <2>1. Ceiling \in Nat /\ Protected \in Nat
    BY Baselines6, EvaluationAssumptions
  <2> QED BY <1>1, <1>3, <2>1, NewLedgerFits, RestAll DEF Solvent
<1>9. PairFlags
  BY <1>1 DEF PairFlags
<1> QED BY <1>4, <1>5, <1>6, <1>7, <1>8, <1>9 DEF PairSound

LEMMA PairStutter ==
  ASSUME PairSound, UNCHANGED evars
  PROVE  PairSound'
<1>1. UNCHANGED <<pair, at, ledger, agent, purse, call, stopping, owed, accepted, late>>
  BY DEF evars
<1>2. Mine' = Mine /\ Phase' = Phase
  BY <1>1 DEF Mine, Phase
<1>3. Quote' = Quote /\ InFlight' = InFlight /\ CountPrice' = CountPrice
  BY <1>1 DEF Quote, InFlight, Unsent, CountPrice
<1>4. TypeOKEvaluation'
  BY <1>1 DEF PairSound, TypeOKEvaluation
<1>5. PairShape'
  BY <1>1, <1>2 DEF PairSound, PairShape, Settled
<1>6. CallShape'
  BY <1>1, <1>3 DEF PairSound, CallShape, Settled
<1>7. Bill'
  BY <1>1, <1>2, <1>3 DEF PairSound, Bill, Settled, Charged, Held
<1>8. Solvent'
  BY <1>1, <1>2 DEF PairSound, Solvent, Charged, Held, Rest, Baselines
<1>9. PairFlags'
  BY <1>1 DEF PairSound, PairFlags
<1> QED BY <1>4, <1>5, <1>6, <1>7, <1>8, <1>9 DEF PairSound

LEMMA HandedIdle ==
  ASSUME Handed, UNCHANGED <<stopping, late>>, ~call'.passed, ~call'.sent
  PROVE  Handed'
BY DEF Handed

LEMMA HandedStep ==
  ASSUME PairSound, Handed, EvaluationNext
  PROVE  Handed'
<1>1. /\ call.op \in {"none", "count", "create", "retrieve", "cancel"} /\ late \in Nat
      /\ call \in [op : {"none", "count", "create", "retrieve", "cancel"}, passed : BOOLEAN, sent : BOOLEAN,
               counted : Counts \cup {0}, created : BOOLEAN, over : BOOLEAN,
               polls : 0 .. MaxPolls, aux : 0 .. MaxPolls + 1]
  BY DEF PairSound, TypeOKEvaluation
<1>2. ~NoCall.passed /\ ~NoCall.sent
  BY DEF NoCall
<1>3. at \notin {"calling", "failed"} /\ pair.state = "running" => ~call.passed /\ ~call.sent
  BY DEF Handed
<1>4. CASE BeginStep \/ GrantStage \/ OpenStage \/ Conclude \/ NextCall
  <2>1. UNCHANGED <<call, stopping, late>> /\ at \notin {"calling", "failed"} /\ pair.state = "running"
    BY <1>4 DEF BeginStep, GrantStage, OpenStage, Conclude, NextCall, PairSound, PairShape
  <2> QED BY <1>3, <2>1, HandedIdle
<1>5. CASE CallChild \/ StopShort
  BY <1>2, <1>5, HandedIdle DEF CallChild, StopShort, CloseStage
<1>6. ASSUME NEW op \in {"count", "create", "retrieve", "cancel"}, Admit(op)
      PROVE  Handed'
  <2>1. ~call.passed /\ ~call.sent /\ UNCHANGED <<stopping, late>>
    BY <1>6 DEF Admit, Handed
  <2>2. call'.passed = call.passed /\ call'.sent = call.sent
    <3>1. \/ call' = [call EXCEPT !.op = op, !.aux = @ + 1,
                                  !.polls = IF op = "retrieve" THEN @ + 1 ELSE @]
          \/ call' = [call EXCEPT !.op = op] \/ call' = call
      BY <1>6, Zenon DEF Admit
    <3> QED BY <1>1, <3>1
  <2> QED BY <2>1, <2>2, HandedIdle
<1>7. CASE HandOver
  <2>1. /\ at = "calling" /\ call.op # "none" /\ ~call.passed /\ ~call.sent
        /\ (stopping = "returned" => call.op = "cancel")
        /\ call' = [call EXCEPT !.passed = TRUE] /\ UNCHANGED <<at, pair, stopping, late>>
    BY <1>7 DEF HandOver, Handed, PairSound, PairFlags
  <2>2. call'.passed /\ ~call'.sent /\ call'.op = call.op
    BY <1>1, <2>1
  <2> QED BY <2>1, <2>2 DEF Handed
<1>8. CASE Transmit
  <2>1. /\ call.passed /\ ~call.sent /\ call' = [call EXCEPT !.sent = TRUE]
        /\ late' = IF stopping = "returned" /\ call.op # "cancel" THEN late + 1 ELSE late
        /\ UNCHANGED <<at, pair, stopping>>
    BY <1>8 DEF Transmit
  <2>2. call'.passed /\ call'.sent /\ call'.op = call.op
    BY <1>1, <2>1
  <2>3. late' <= 1 /\ (stopping # "returned" => late' = 0)
    BY <1>1, <2>1 DEF Handed
  <2> QED BY <2>1, <2>2, <2>3 DEF Handed
<1>9. CASE Acknowledge
  <2>1. ~Answered.passed /\ ~Answered.sent
    BY <1>1 DEF Answered
  <2>2. ~call'.passed /\ ~call'.sent /\ UNCHANGED <<stopping, late>>
    <3>1. UNCHANGED <<stopping, late>>
      BY <1>9 DEF Acknowledge
    <3>2. \/ \E n \in Counts : call' = [Answered EXCEPT !.counted = n]
          \/ \E over \in {call.op = "cancel", TRUE} : call' = [Answered EXCEPT !.created = TRUE, !.over = over]
      BY <1>9, Zenon DEF Acknowledge
    <3>3. Answered \in [op : {"none", "count", "create", "retrieve", "cancel"}, passed : BOOLEAN, sent : BOOLEAN,
               counted : Counts \cup {0}, created : BOOLEAN, over : BOOLEAN,
               polls : 0 .. MaxPolls, aux : 0 .. MaxPolls + 1]
      BY <1>1 DEF Answered
    <3>4. call'.passed = Answered.passed /\ call'.sent = Answered.sent
      BY <3>2, <3>3
    <3> QED BY <2>1, <3>1, <3>4
  <2> QED BY <2>2, HandedIdle
<1>10. CASE Settle
  <2>1. UNCHANGED <<call, stopping, late>> /\ ~call.passed /\ ~call.sent
    BY <1>10 DEF Settle, Handed
  <2> QED BY <2>1, HandedIdle
<1>11. CASE Break
  <2>1. /\ at \in {"calling", "settled"} /\ at' = "failed" /\ purse' = Unknown(purse)
        /\ UNCHANGED <<pair, ledger, agent, call, stopping, owed, accepted, late>>
    BY <1>11 DEF Break, Retained
  <2>2. CASE ~call.passed
    BY <2>1, <2>2, HandedIdle DEF Handed
  <2>3. CASE call.passed
    <3>1. at = "calling" /\ call.op # "none" /\ agent # NoChild /\ ~Settled(purse)
      <4>1. at = "calling" /\ call.op # "none"
        BY <2>1, <2>3 DEF Handed, PairSound, PairShape
      <4> QED BY <4>1, FlightFits DEF PairSound, PairShape
    <3>2. /\ purse \in Ledger /\ Mine \in Ledger /\ owed[pair.arm] \in Nat
          /\ owed[pair.arm] = Charged(Mine) + Charged(purse) + InFlight
      BY <3>1, PairNumbers DEF PairSound, Bill
    <3>3. /\ Charged(Mine) \in Nat /\ Charged(purse) \in Nat /\ purse.open.reserved \in Nat
          /\ Held(purse) = Charged(purse) + purse.open.reserved
      BY <3>2, LedgerNumbers
    <3>4. purse'.open.state = "uncertain" /\ Held(purse)' = Held(purse)
      <4> DEFINE r == Unknown(purse)
      <4>1. /\ r.work = purse.work /\ r.verification = purse.verification
            /\ r.open.reserved = purse.open.reserved /\ r.open.state = "uncertain"
        BY <3>1, <3>2, UnknownLedger
      <4>2. purse' = r
        BY <2>1
      <4> HIDE DEF r
      <4> QED BY <4>1, <4>2 DEF Held, Charged
    <3>5. Charged(Mine)' = Charged(Mine) /\ Billable' = Billable
      BY <2>1 DEF Charged, Mine, Billable
    <3>6. ~call.sent => owed[pair.arm] + Billable <= Charged(Mine) + Held(purse)
      <4> HAVE ~call.sent
      <4> DEFINE sent == IF call.created THEN call.counted + MaxOut + call.aux * Fee ELSE Billable
      <4>1. /\ sent = InFlight + Billable /\ sent \in Nat /\ sent <= purse.open.reserved
            /\ InFlight \in Int /\ Billable \in Nat
        BY <3>1, FlightGrows
      <4> HIDE DEF sent
      <4> QED BY <3>2, <3>3, <4>1, SMTT(30)
    <3> QED BY <2>1, <3>1, <3>4, <3>5, <3>6 DEF Handed
  <2> QED BY <2>2, <2>3
<1>12. CASE AcceptStage
  <2>1. at = "returned" /\ UNCHANGED <<stopping, late>> /\ (call' = NoCall \/ call' = call)
    BY <1>12 DEF AcceptStage, CloseStage
  <2>2. ~call.passed /\ ~call.sent
    BY <1>3, <2>1 DEF PairSound, PairShape
  <2> QED BY <1>2, <2>1, <2>2, HandedIdle
<1>13. CASE Handle \/ FinishPair
  <2>1. /\ at' = "idle" /\ UNCHANGED <<stopping, late>>
        /\ call' = NoCall \/ (call' = call /\ pair'.state # "running")
    <3>1. pair.state \in {"running", "stopped_partial", "uncertain", "completed"}
      BY DEF PairSound, TypeOKEvaluation
    <3>2. pair \in [state : {"running", "stopped_partial", "uncertain", "completed"}, arm : 1 .. Arms,
                    stage : DOMAIN Schedule, calls : 0 .. 3, cancel : BOOLEAN, captured : BOOLEAN]
      BY DEF PairSound, TypeOKEvaluation
    <3>3. CASE Handle
      BY <3>2, <3>3 DEF Handle, CloseStage
    <3>4. CASE FinishPair
      BY <3>1, <3>2, <3>4 DEF FinishPair, CloseStage
    <3> QED BY <1>13, <3>3, <3>4
  <2>2. CASE call' = NoCall
    BY <1>2, <2>1, <2>2, HandedIdle
  <2>3. CASE call' = call /\ pair'.state # "running"
    BY <2>1, <2>3 DEF Handed
  <2> QED BY <2>1, <2>2, <2>3
<1>14. CASE FlagPair \/ FlagChild
  <2>1. /\ UNCHANGED <<at, call, purse, owed, ledger, late>> /\ late = 0
        /\ pair'.arm = pair.arm /\ pair'.state = pair.state
        /\ agent # NoChild => agent' # NoChild
    <3>1. pair \in [state : {"running", "stopped_partial", "uncertain", "completed"}, arm : 1 .. Arms,
                    stage : DOMAIN Schedule, calls : 0 .. 3, cancel : BOOLEAN, captured : BOOLEAN]
      BY DEF PairSound, TypeOKEvaluation
    <3>2. CASE FlagPair
      BY <3>1, <3>2 DEF FlagPair, Handed
    <3>3. CASE FlagChild
      <4>1. agent \in [state : {"none", "running", "uncertain", "completed", "captured"} \cup Ended,
                       grant : Nat, cancel : BOOLEAN]
        BY DEF PairSound, TypeOKEvaluation
      <4>2. agent # NoChild => agent' # NoChild
        BY <3>3, <4>1, NoChildFits DEF FlagChild, NoChild
      <4> QED BY <3>3, <4>2 DEF FlagChild, Handed
    <3> QED BY <1>14, <3>2, <3>3
  <2>2. Charged(Mine)' = Charged(Mine) /\ Held(purse)' = Held(purse) /\ Billable' = Billable
    BY <2>1 DEF Charged, Held, Mine, Billable
  <2> QED BY <2>1, <2>2 DEF Handed
<1> QED BY <1>4, <1>5, <1>6, <1>7, <1>8, <1>9, <1>10, <1>11, <1>12, <1>13, <1>14 DEF EvaluationNext

(* The evaluation keeps its books, wherever its steps are interleaved      *)
(* with a cancellation.                                                    *)
THEOREM PairHolds == EvaluationSpec => [](PairSound /\ Handed)
<1>1. EvaluationInit => PairSound /\ Handed
  BY PairInit DEF EvaluationInit, Handed, NoCall
<1>2. PairSound /\ Handed /\ [EvaluationNext]_evars => (PairSound /\ Handed)'
  <2> SUFFICES ASSUME PairSound, Handed, [EvaluationNext]_evars
               PROVE  PairSound' /\ Handed'
    OBVIOUS
  <2>0. Handed'
    <3>1. CASE UNCHANGED evars
      <4>1. Charged(Mine)' = Charged(Mine) /\ Held(purse)' = Held(purse) /\ Billable' = Billable
        BY <3>1 DEF evars, Charged, Held, Mine, Billable
      <4> QED BY <3>1, <4>1 DEF evars, Handed
    <3> QED BY <3>1, HandedStep
  <2>1. ASSUME NEW op \in {"count", "create", "retrieve", "cancel"}, Admit(op)
        PROVE  PairSound'
    BY <2>1, AdmitSound
  <2>2. CASE UNCHANGED evars
    BY <2>0, <2>2, PairStutter
  <2>3. CASE BeginStep \/ GrantStage \/ OpenStage \/ CallChild
    BY <2>0, <2>3, BeginSound, GrantSound, OpenSound, CallSound
  <2>4. CASE HandOver \/ Transmit \/ Acknowledge \/ Settle \/ Break \/ Conclude
    BY <2>0, <2>4, HandOverSound, TransmitSound, AckSound, SettleSound, BreakSound, ConcludeSound
  <2>5. CASE AcceptStage \/ NextCall \/ StopShort \/ Handle \/ FinishPair \/ FlagPair \/ FlagChild
    BY <2>0, <2>5, AcceptSound, NextCallSound, StopSound, CancelSound
  <2> QED BY <2>0, <2>1, <2>2, <2>3, <2>4, <2>5 DEF EvaluationNext
<1> QED BY <1>1, <1>2, PTL DEF EvaluationSpec

(* No arm can be billed above its ledger nor above its ceiling, and a      *)
(* child never spends more than its stage was granted, for all tariffs.    *)
THEOREM BillCoveredHolds == EvaluationSpec => []BillCovered
<1>1. PairSound => BillCovered
  <2> SUFFICES ASSUME PairSound PROVE BillCovered
    OBVIOUS
  <2>1. /\ pair.arm \in 1 .. Arms /\ Mine \in Ledger /\ purse \in Ledger /\ agent.grant \in Nat
        /\ owed[pair.arm] \in Nat
    BY PairNumbers DEF PairSound
  <2>2. /\ Charged(Mine) \in Nat /\ Charged(purse) \in Nat /\ Held(purse) \in Nat
        /\ Held(purse) = Charged(purse) + purse.open.reserved /\ purse.open.reserved \in Nat
        /\ Held(Mine) = Charged(Mine) + Mine.open.reserved /\ Mine.open.reserved \in Nat
        /\ Settled(purse) => Held(purse) = Charged(purse)
    BY <2>1, LedgerNumbers
  <2>3. \A a \in 1 .. Arms : owed[a] <= Held(ledger[a]) /\ Held(ledger[a]) <= Ceiling
    BY DEF PairSound, Bill
  <2>4. Held(purse) <= agent.grant
    BY DEF PairSound, Bill
  <2>5. CASE agent = NoChild
    <3>1. owed[pair.arm] <= Held(Mine) /\ Held(purse) = 0
      BY <2>1, <2>3, <2>5, NewLedgerFits DEF Mine, PairSound, PairShape
    <3>2. owed[pair.arm] <= Charged(Mine) + Held(purse) + Mine.open.reserved
      BY <2>1, <2>2, <3>1
    <3> QED BY <2>3, <2>4, <2>5, <3>2 DEF BillCovered
  <2>6. CASE agent # NoChild
    <3>1. Mine.open.state = "dispatched"
      BY <2>6 DEF PairSound, PairShape
    <3>2. owed[pair.arm] <= Charged(Mine) + Held(purse)
      <4>1. CASE ~Settled(purse)
        BY <4>1 DEF PairSound, Bill
      <4>2. CASE Settled(purse) /\ at # "calling"
        BY <2>1, <2>2, <3>1, <4>2 DEF PairSound, Bill
      <4>3. CASE Settled(purse) /\ at = "calling"
        <5>1. owed[pair.arm] = Charged(Mine) + Charged(purse) + 0
          BY <4>3, FlightFits DEF PairSound, Bill
        <5> QED BY <2>1, <2>2, <4>3, <5>1
      <4> QED BY <4>1, <4>2, <4>3
    <3>3. owed[pair.arm] <= Charged(Mine) + Held(purse) + 0
      BY <2>1, <2>2, <3>2
    <3> QED BY <2>3, <2>4, <2>6, <3>3 DEF BillCovered
  <2> QED BY <2>5, <2>6
<1> QED BY <1>1, PairHolds, PTL

(* While the pair runs, each stage to come can be granted its baseline.    *)
THEOREM StagesFundedHolds == EvaluationSpec => []StagesFunded
<1>1. PairSound => StagesFunded
  <2> SUFFICES ASSUME PairSound, pair.state = "running"
               PROVE  /\ agent # NoChild => agent.grant >= Baseline(pair.stage)
                      /\ at = "starting" => /\ Granted >= Baseline(pair.stage)
                                            /\ Admits(Mine, Ceiling, Protected, Phase, Granted)
    BY DEF StagesFunded
  <2>1. agent # NoChild => agent.grant >= Baseline(pair.stage)
    BY DEF PairSound, PairShape, Solvent
  <2>2. ASSUME at = "starting"
        PROVE  Granted >= Baseline(pair.stage) /\ Admits(Mine, Ceiling, Protected, Phase, Granted)
    <3>1. Settled(Mine)
      BY <2>2 DEF PairSound, PairShape
    <3> QED BY <3>1, GrantFits
  <2> QED BY <2>1, <2>2
<1> QED BY <1>1, PairHolds, PTL

(* After cancel() has returned only the cancellation itself passes its     *)
(* check, one request at most is still sent, and nothing passes once an    *)
(* outcome is unknown.                                                     *)
THEOREM SilencedHolds == EvaluationSpec => Silenced
<1>1. PairSound /\ Handed /\ [EvaluationNext]_evars =>
        [/\ call'.passed /\ ~call.passed => /\ stopping = "returned" => call.op = "cancel"
                                            /\ purse.open.state # "uncertain"
                                            /\ Mine.open.state = "dispatched"
         /\ late' <= 1]_evars
  <2> SUFFICES ASSUME PairSound, Handed, EvaluationNext
               PROVE  /\ call'.passed /\ ~call.passed => /\ stopping = "returned" => call.op = "cancel"
                                                         /\ purse.open.state # "uncertain"
                                                         /\ Mine.open.state = "dispatched"
                      /\ late' <= 1
    BY DEF evars
  <2>1. late' <= 1
    BY HandedStep DEF Handed
  <2>2. CASE HandOver
    <3>1. /\ at = "calling" /\ call.op # "none" /\ (agent.cancel => call.op = "cancel")
      BY <2>2 DEF HandOver
    <3>2. stopping = "returned" => agent.cancel
      BY <3>1 DEF PairSound, PairFlags
    <3>3. Mine.open.state = "dispatched"
      BY <3>1 DEF PairSound, PairShape
    <3>4. purse.open.state # "uncertain"
      <4>1. call.op \in {"none", "count", "create", "retrieve", "cancel"}
        BY DEF PairSound, TypeOKEvaluation
      <4>2. purse.open.state = "dispatched"
        BY <3>1, <4>1 DEF PairSound, CallShape
      <4> QED BY <4>2
    <3> QED BY <2>1, <3>1, <3>2, <3>3, <3>4
  <2>3. CASE ~HandOver
    <3>1. call' = call \/ call' = NoCall \/ call'.passed = call.passed \/ ~call'.passed
      <4>1. call \in [op : {"none", "count", "create", "retrieve", "cancel"}, passed : BOOLEAN, sent : BOOLEAN,
                 counted : Counts \cup {0}, created : BOOLEAN, over : BOOLEAN,
                 polls : 0 .. MaxPolls, aux : 0 .. MaxPolls + 1]
        BY DEF PairSound, TypeOKEvaluation
      <4>2. ASSUME NEW op \in {"count", "create", "retrieve", "cancel"}, Admit(op)
            PROVE  call'.passed = call.passed
        <5>1. \/ call' = [call EXCEPT !.op = op, !.aux = @ + 1,
                                      !.polls = IF op = "retrieve" THEN @ + 1 ELSE @]
              \/ call' = [call EXCEPT !.op = op] \/ call' = call
          BY <4>2, Zenon DEF Admit
        <5> QED BY <4>1, <5>1
      <4>3. CASE Transmit
        BY <4>1, <4>3 DEF Transmit
      <4>4. CASE Acknowledge
        <5>1. \/ \E n \in Counts : call' = [Answered EXCEPT !.counted = n]
              \/ \E over \in {call.op = "cancel", TRUE} : call' = [Answered EXCEPT !.created = TRUE, !.over = over]
          BY <4>4, Zenon DEF Acknowledge
        <5>2. ~Answered.passed /\ Answered \in [op : {"none", "count", "create", "retrieve", "cancel"},
                 passed : BOOLEAN, sent : BOOLEAN, counted : Counts \cup {0}, created : BOOLEAN,
                 over : BOOLEAN, polls : 0 .. MaxPolls, aux : 0 .. MaxPolls + 1]
          BY <4>1 DEF Answered
        <5> QED BY <5>1, <5>2
      <4>5. CASE \/ BeginStep \/ GrantStage \/ OpenStage \/ CallChild \/ Settle \/ Break \/ Conclude
                 \/ AcceptStage \/ NextCall \/ StopShort \/ Handle \/ FinishPair \/ FlagPair \/ FlagChild
        BY <4>5 DEF BeginStep, GrantStage, OpenStage, CallChild, Settle, Break, Conclude, AcceptStage,
                    NextCall, StopShort, Handle, FinishPair, FlagPair, FlagChild, CloseStage
      <4> QED BY <2>3, <4>2, <4>3, <4>4, <4>5 DEF EvaluationNext
    <3> QED BY <2>1, <3>1 DEF NoCall
  <2> QED BY <2>2, <2>3
<1> QED BY <1>1, PairHolds, PTL DEF EvaluationSpec, Silenced
=============================================================================
