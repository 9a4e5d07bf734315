----------------------------- MODULE CodexWorker -----------------------------
(***************************************************************************)
(* The bundled worker process: it says hello once and then executes one    *)
(* operation after another, each as one turn of a provider's thread, until *)
(* anything fails.  Planning and integrating share a thread, whose token   *)
(* counter runs on; repairs, revisions, a synthesis of reviewed work and   *)
(* the first author with a length to keep start a fresh one.               *)
(*                                                                         *)
(* The provider burns and announces tokens of a turn as it likes, also     *)
(* after the worker has turned away from it.  Texts are numbered in the    *)
(* order the worker returned them; 0 is a text it never saw.               *)
(***************************************************************************)
EXTENDS Naturals, Sequences

CONSTANTS
  MaxTurns,    \* bound
  MaxBurned,   \* bound: tokens of a thread
  Allowance,   \* of one operation
  MaxChecks    \* length measurements of one operation

ASSUME WorkerAssumptions ==
  MaxTurns \in Nat /\ MaxBurned \in Nat /\ Allowance \in Nat \ {0} /\ MaxChecks \in Nat

VARIABLES
  codex,      \* the process and what CodexResearchWorker remembers
  order,      \* the operation it executes
  thread,     \* the provider's thread: its counter, and whether there is one
  stream,     \* notifications not read yet
  account,    \* history of the thread: shown, reported, and a limit it was left by
  corrections    \* history: text -> corrections begun

wvars == <<codex, order, thread, stream, account, corrections>>

Authoring == {"draft", "revise"}
Operations == {"plan", "integrate", "synthesize", "audit"} \cup Authoring
Texts == 0 .. MaxTurns

LocalStages == {"input_check", "prompt_preparation"}
WorkerStages == LocalStages \cup {"setup", "turn_start", "turn_stream", "report_validation"}

NoOrder == [op |-> "plan", correction |-> FALSE, bounded |-> FALSE, base |-> 0,
            turn |-> 0, usage |-> 0, counted |-> FALSE, checks |-> 0]
NoAccount == [shown |-> 0, reported |-> 0, limited |-> FALSE]

TypeOKWorker ==
  /\ codex \in [state : {"new", "ready", "busy", "exited"}, stage : WorkerStages, attempted : BOOLEAN,
                 turns : 0 .. MaxTurns, total : 0 .. MaxBurned, returned : Texts,
                 op : Operations, corrected : BOOLEAN, candidate : Texts, audited : BOOLEAN,
                 denied : BOOLEAN]
  /\ order \in [op : Operations, correction : BOOLEAN, bounded : BOOLEAN, base : Texts,
                turn : 0 .. MaxTurns, usage : 0 .. MaxBurned, counted : BOOLEAN, checks : 0 .. MaxChecks]
  /\ thread \in [open : BOOLEAN, tool : BOOLEAN, burned : 0 .. MaxBurned]
  /\ stream \in Seq([turn : 1 .. MaxTurns, total : 0 .. MaxBurned, done : BOOLEAN])
  /\ account \in [shown : 0 .. MaxBurned, reported : Nat, limited : BOOLEAN]
  /\ corrections \in [1 .. MaxTurns -> Nat]

WorkerInit ==
  /\ codex = [state |-> "new", stage |-> "setup", attempted |-> FALSE, turns |-> 0, total |-> 0,
               returned |-> 0, op |-> "draft", corrected |-> FALSE, candidate |-> 0,
               audited |-> FALSE, denied |-> FALSE]
  /\ order = NoOrder /\ thread = [open |-> FALSE, tool |-> FALSE, burned |-> 0] /\ stream = <<>>
  /\ account = NoAccount /\ corrections = [t \in 1 .. MaxTurns |-> 0]

-----------------------------------------------------------------------------
(* Any exception ends the process; its last word says whether a model can  *)
(* have seen the operation.                                                *)
Local == ~codex.attempted /\ codex.stage \in LocalStages

Fail ==
  /\ codex.state \in {"new", "ready", "busy"}
  /\ codex' = [codex EXCEPT !.state = "exited", !.denied = codex.state = "busy" /\ Local]
  /\ UNCHANGED <<order, thread, stream, account, corrections>>

(* hello: preflight of runtime, restrictions, account, quota and model.    *)
Hello ==
  /\ codex.state = "new" /\ codex' = [codex EXCEPT !.state = "ready"]
  /\ UNCHANGED <<order, thread, stream, account, corrections>>

Receive(op, correction, bounded, base) ==
  /\ codex.state = "ready" /\ codex.turns < MaxTurns /\ base <= codex.turns
  /\ correction => op \in Authoring \cup {"audit"}
  /\ bounded => op \in Authoring
  /\ base # 0 => op \in Authoring
  /\ codex' = [codex EXCEPT !.state = "busy", !.attempted = FALSE, !.stage = "input_check",
                              !.denied = FALSE]
  /\ order' = [NoOrder EXCEPT !.op = op, !.correction = correction, !.bounded = bounded,
                             !.base = base]
  /\ UNCHANGED <<thread, stream, account, corrections>>

(* A local rejection is no exception: the worker stays.                    *)
RejectLocally ==
  /\ codex.state = "busy" /\ codex.stage \in LocalStages
  /\ codex' = [codex EXCEPT !.state = "ready", !.denied = TRUE]
  /\ UNCHANGED <<order, thread, stream, account, corrections>>

(* What a repair or a revision must be bound to.  A fresh worker may be    *)
(* given what an earlier one returned, of which the controller holds a     *)
(* checkpoint.                                                             *)
Restored == order.base = 0 /\ ~thread.open

CorrectionBound ==
  /\ \/ codex.returned # 0 /\ codex.returned = order.base /\ codex.op = order.op
     \/ codex.returned = 0 /\ Restored
  /\ ~codex.corrected

RevisionBound ==
  \/ codex.candidate # 0 /\ codex.candidate = order.base
  \/ codex.candidate = 0 /\ Restored

Bound ==
  CASE order.op = "audit" /\ order.correction       -> ~codex.audited
    [] order.op \in Authoring /\ order.correction   -> CorrectionBound
    [] order.op = "revise" /\ ~order.correction     -> RevisionBound
    [] OTHER                                        -> TRUE

(* Only what a model is to see anew gets a fresh thread.                   *)
Fresh ==
  \/ order.correction \/ order.op \in {"revise", "synthesize"}
  \/ order.bounded /\ ~thread.tool

(* The mark of a correction is set before anything can go wrong with it.   *)
Marked_OnReturn == codex

Marked ==
  CASE order.op = "audit" /\ order.correction     -> [codex EXCEPT !.audited = TRUE]
    [] order.op \in Authoring /\ order.correction -> [codex EXCEPT !.corrected = TRUE, !.op = order.op]
    [] OTHER                                      -> codex

Counter_Kept == codex.total

Counter == IF Fresh THEN 0 ELSE codex.total

Prepare ==
  /\ codex.state = "busy" /\ codex.stage = "input_check" /\ Bound
  /\ codex' = [Marked EXCEPT !.stage = "prompt_preparation", !.total = Counter]
  /\ IF Fresh \/ ~thread.open
     THEN thread' = [open |-> TRUE, tool |-> order.bounded, burned |-> 0]
          /\ stream' = <<>> /\ account' = NoAccount
     ELSE UNCHANGED <<thread, stream, account>>
  /\ UNCHANGED <<order, corrections>>

StartTurn ==
  /\ codex.state = "busy" /\ codex.stage = "prompt_preparation"
  /\ codex' = [codex EXCEPT !.stage = "turn_start", !.attempted = TRUE, !.turns = @ + 1]
  /\ order' = [order EXCEPT !.turn = codex.turns + 1]
  /\ corrections' = IF order.correction /\ order.op \in Authoring /\ order.base # 0
                 THEN [corrections EXCEPT ![order.base] = @ + 1] ELSE corrections
  /\ UNCHANGED <<thread, stream, account>>

TurnStarted ==
  /\ codex.state = "busy" /\ codex.stage = "turn_start"
  /\ codex' = [codex EXCEPT !.stage = "turn_stream"]
  /\ UNCHANGED <<order, thread, stream, account, corrections>>

-----------------------------------------------------------------------------
(* The provider.                                                           *)
Burn ==
  /\ order.turn > 0 /\ thread.burned < MaxBurned /\ Len(stream) < 2
  /\ thread' = [thread EXCEPT !.burned = @ + 1]
  /\ stream' = Append(stream, [turn |-> order.turn, total |-> thread.burned + 1, done |-> FALSE])
  /\ UNCHANGED <<codex, order, account, corrections>>

Complete ==
  /\ codex.stage = "turn_stream" /\ Len(stream) < 2
  /\ \A i \in DOMAIN stream : stream[i].turn = order.turn => ~stream[i].done
  /\ stream' = Append(stream, [turn |-> order.turn, total |-> 0, done |-> TRUE])
  /\ UNCHANGED <<codex, order, thread, account, corrections>>

(* handle_length_tool_request: only of the active turn, each call once.    *)
MeasureLength ==
  /\ codex.state = "busy" /\ codex.stage = "turn_stream" /\ order.bounded
  /\ order.checks < MaxChecks /\ order' = [order EXCEPT !.checks = @ + 1]
  /\ UNCHANGED <<codex, thread, stream, account, corrections>>

(* The notifications of other turns are passed over; the counter of the    *)
(* thread says what this turn has cost since the last one that was read.   *)
ReadNotification ==
  LET event == Head(stream)
      mine == event.turn = order.turn
      taken == event.total >= codex.total
      usage == event.total - codex.total IN
  /\ codex.state = "busy" /\ codex.stage = "turn_stream" /\ stream # <<>>
  /\ stream' = Tail(stream)
  /\ CASE ~mine -> UNCHANGED <<codex, order, account>>
       [] mine /\ event.done ->
            /\ codex' = [codex EXCEPT !.stage = "report_validation", !.total = @ + order.usage]
            /\ account' = [account EXCEPT !.reported = @ + order.usage]
            /\ order' = [order EXCEPT !.usage = 0]
       [] mine /\ ~event.done /\ ~taken ->
            account' = [account EXCEPT !.shown = event.total] /\ UNCHANGED <<codex, order>>
       [] mine /\ ~event.done /\ taken /\ usage < Allowance ->
            /\ order' = [order EXCEPT !.usage = usage, !.counted = TRUE]
            /\ account' = [account EXCEPT !.shown = event.total]
            /\ UNCHANGED codex
       [] OTHER ->     \* the limit: reported and left, the counter not moved
            /\ order' = [order EXCEPT !.usage = 0, !.counted = TRUE]
            /\ account' = [shown |-> event.total, reported |-> account.reported + usage,
                           limited |-> TRUE]
            /\ codex' = [codex EXCEPT !.state = "ready"]
  /\ UNCHANGED <<thread, corrections>>

(* The result, or an output that does not fit its schema: that ends the    *)
(* process too, except where the controller owns a correction of it.       *)
ReturnResult ==
  /\ codex.state = "busy" /\ codex.stage = "report_validation"
  /\ \/ /\ order.op \in Authoring
        /\ codex' = [codex EXCEPT !.state = "ready", !.candidate = order.turn,
                        !.returned = IF order.correction THEN @ ELSE order.turn,
                        !.op = IF order.correction THEN @ ELSE order.op,
                        !.corrected = order.correction]
     \/ /\ order.op \in Authoring \cup {"audit"} /\ codex' = [codex EXCEPT !.state = "ready"]
     \/ /\ order.op \notin Authoring /\ codex' = [codex EXCEPT !.state = "ready"]
  /\ UNCHANGED <<order, thread, stream, account, corrections>>

WorkerNext ==
  \/ Hello \/ Fail \/ RejectLocally \/ Prepare \/ StartTurn \/ TurnStarted
  \/ \E op \in Operations, correction \in BOOLEAN, bounded \in BOOLEAN, base \in Texts :
       Receive(op, correction, bounded, base)
  \/ Burn \/ Complete \/ MeasureLength \/ ReadNotification \/ ReturnResult

WorkerSpec == WorkerInit /\ [][WorkerNext]_wvars

-----------------------------------------------------------------------------
(* Whatever is late, whatever failed before and whichever thread it is on, *)
(* the operations of a thread have together reported what the thread has   *)
(* shown them, not a token less, and not more unless one was left at its   *)
(* limit ("Per-thread counters reset; the controller ledger and deadline   *)
(* do not").                                                               *)
UsageReported ==
  LET all == account.reported + order.usage IN
  codex.stage \in {"turn_stream", "report_validation"} =>
    all >= account.shown /\ (~account.limited => all <= account.shown)

(* However its repair ends, no text of this worker is given to a model for *)
(* correction a second time ("owns the one bounded correction").           *)
CorrectedOnce == \A t \in 1 .. MaxTurns : corrections[t] <= 1
=============================================================================
