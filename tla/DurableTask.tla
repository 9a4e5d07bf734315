----------------------------- MODULE DurableTask -----------------------------
(***************************************************************************)
(* What a delegated research task promises, whatever handlers, threads and *)
(* processes carry it out: a run works only while the task is open, every  *)
(* model operation is charged durably before it is dispatched, a charge is *)
(* never taken back, and a closed task opens again only as a new run.      *)
(***************************************************************************)
EXTENDS Naturals

CONSTANTS Runs, Op   \* an operation is a pair <<run, number>>

VARIABLES
  phase,      \* "draft", "open" or "closed"
  run,        \* the run the task belongs to, 0 before the first
  charged,    \* operations whose allowance is in the durable ledger
  dispatched  \* operations that reached a model worker

promise == <<phase, run, charged, dispatched>>

Init == phase = "draft" /\ run = 0 /\ charged = {} /\ dispatched = {}

Open ==
  /\ phase # "open"
  /\ run + 1 \in Runs
  /\ phase' = "open" /\ run' = run + 1
  /\ UNCHANGED <<charged, dispatched>>

Charge ==
  /\ phase = "open"
  /\ \E op \in Op \ charged : op[1] = run /\ charged' = charged \cup {op}
  /\ UNCHANGED <<phase, run, dispatched>>

Dispatch ==
  /\ phase = "open"
  /\ \E op \in charged \ dispatched : op[1] = run /\ dispatched' = dispatched \cup {op}
  /\ UNCHANGED <<phase, run, charged>>

Close ==
  /\ phase # "closed"
  /\ phase' = "closed"
  /\ UNCHANGED <<run, charged, dispatched>>

Next == Open \/ Charge \/ Dispatch \/ Close

Spec == Init /\ [][Next]_promise
=============================================================================
