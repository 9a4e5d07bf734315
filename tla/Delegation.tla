------------------------------ MODULE Delegation ------------------------------
(***************************************************************************)
(* The inside of one run of a delegated task: the parent plans, one child  *)
(* works on each assignment, the parent integrates what came back.         *)
(* Children return, fail or run out at any time; the run may be cancelled, *)
(* reach its limit or break at any point, and a limit leaves the parent a  *)
(* last call for the work that was saved.  Who owns the task, its ledger   *)
(* and its row are ResearchTask's.                                         *)
(***************************************************************************)
EXTENDS Naturals, FiniteSets

CONSTANT MaxChildren   \* of the contract

ASSUME DelegationAssumption == MaxChildren \in Nat \ {0}

VARIABLES
  stage,     \* where the run is
  plan,      \* assignments of the plan the parent returned
  children,  \* those of them that have a child
  child,     \* assignment -> its agent's row
  process,   \* assignment -> its worker, and what lies in the worker's queue
  asked,     \* the reports the parent is given, when it integrates
  answer,    \* the reports the parent's synthesis cites
  handoff,   \* the parent integrates after a limit
  terminal,  \* the state the task will end in
  synthesis  \* the task's

delegvars == <<stage, plan, children, child, process, asked, answer, handoff, terminal, synthesis>>

Assignments == 1 .. (MaxChildren + 1)
Nobody == [state |-> "starting", report |-> FALSE, saved |-> FALSE, returned |-> FALSE]
NoSynthesis == [by |-> "none", cites |-> {}, unfinished |-> {}]
Answers == (SUBSET Assignments) \cup {{0}}   \* {0}: none

TypeOKDelegation ==
  /\ stage \in {"plan", "spawn", "wait", "synthesis", "drain", "finish", "done"}
  /\ plan \in SUBSET Assignments /\ children \in SUBSET plan
  /\ child \in [Assignments -> [state : {"starting", "running", "completed", "failed",
                                         "limit_reached", "cancelled"},
                                report : BOOLEAN, saved : BOOLEAN, returned : BOOLEAN]]
  /\ process \in [Assignments -> [open : BOOLEAN,
                                  queue : {"working", "report", "invalid", "error", "limit", "read"}]]
  /\ asked \in SUBSET Assignments /\ answer \in Answers /\ handoff \in BOOLEAN
  /\ terminal \in {"completed", "failed_partial", "limit_reached_partial", "cancelled_partial"}
  /\ synthesis \in [by : {"none", "parent", "fallback"}, cites : SUBSET Assignments,
                    unfinished : SUBSET Assignments]

DelegationInit ==
  /\ stage = "plan" /\ plan = {} /\ children = {}
  /\ child = [a \in Assignments |-> Nobody]
  /\ process = [a \in Assignments |-> [open |-> FALSE, queue |-> "read"]]
  /\ asked = {} /\ answer = {0} /\ handoff = FALSE /\ terminal = "completed"
  /\ synthesis = NoSynthesis

-----------------------------------------------------------------------------
parentvars == <<asked, answer, handoff, synthesis>>

(* An exception other than a limit: the run is over.                       *)
Breaks(state) == stage' = "drain" /\ terminal' = state

Closed(among) == [a \in Assignments |->
  IF a \in among THEN [process[a] EXCEPT !.open = FALSE] ELSE process[a]]

(* Runner.execute: the plan is saved before it is judged.                  *)
PlanArrives(n) ==
  /\ stage = "plan" /\ plan' = 1 .. n
  /\ \/ n \in 1 .. MaxChildren /\ stage' = "spawn" /\ UNCHANGED terminal
     \/ Breaks("failed_partial")   \* too many, or of sources it does not have
  /\ UNCHANGED <<children, child, process, parentvars>>

SpawnChild ==
  LET a == Cardinality(children) + 1 IN
  /\ stage = "spawn" /\ children # plan /\ children' = children \cup {a}
  /\ \/ /\ child' = [child EXCEPT ![a].state = "running"]
        /\ process' = [process EXCEPT ![a] = [open |-> TRUE, queue |-> "working"]]
        /\ stage' = IF children' = plan THEN "wait" ELSE "spawn"
        /\ UNCHANGED terminal
     \/ /\ Breaks("failed_partial")   \* no worker, or none fit for the task
        /\ UNCHANGED <<child, process>>
  /\ UNCHANGED <<plan, parentvars>>

ChildSends(a, what) ==
  /\ process[a].open /\ process[a].queue = "working"
  /\ process' = [process EXCEPT ![a].queue = what]
  /\ UNCHANGED <<stage, plan, children, child, parentvars, terminal>>

PollCheckpoint(a) ==
  /\ stage = "wait" /\ process[a].open /\ process[a].queue = "working" /\ ~child[a].saved
  /\ child' = [child EXCEPT ![a].saved = TRUE]
  /\ UNCHANGED <<stage, plan, children, process, parentvars, terminal>>

(* An event is read once; a structured return is retained before it is     *)
(* looked at.                                                              *)
Read(a) == process' = [process EXCEPT ![a] = [open |-> FALSE, queue |-> "read"]]

PollReport(a) ==
  /\ stage = "wait" /\ child[a].state = "running" /\ process[a].queue = "report" /\ Read(a)
  /\ child' = [child EXCEPT ![a].state = "completed", ![a].report = TRUE, ![a].returned = TRUE]
  /\ UNCHANGED <<stage, plan, children, parentvars, terminal>>

PollFailure(a) ==
  /\ stage = "wait" /\ child[a].state = "running" /\ process[a].queue \in {"invalid", "error"} /\ Read(a)
  /\ child' = [child EXCEPT ![a].state = "failed", ![a].returned = (process[a].queue = "invalid")]
  /\ terminal' = "failed_partial"
  /\ UNCHANGED <<stage, plan, children, parentvars>>

-----------------------------------------------------------------------------
Reports_OfAll == children

Reports == {a \in children : child[a].state = "completed"}

Asks == asked' = Reports /\ answer' = {0} /\ stage' = "synthesis"

Integrate ==
  /\ stage = "wait" /\ \A a \in plan : child[a].state \in {"completed", "failed"}
  /\ Asks /\ UNCHANGED <<plan, children, child, process, handoff, synthesis, terminal>>

ParentSends(cites) ==
  /\ stage = "synthesis" /\ answer = {0} /\ answer' = cites
  /\ UNCHANGED <<stage, plan, children, child, process, asked, handoff, synthesis, terminal>>

(* A synthesis must account for every returned child report.               *)
Accounts(cites) == cites = asked

PollSynthesis ==
  /\ stage = "synthesis" /\ answer # {0}
  /\ IF Accounts(answer)
     THEN /\ synthesis' = [by |-> "parent", cites |-> answer, unfinished |-> {}]
          /\ stage' = "drain" /\ UNCHANGED terminal
     ELSE /\ UNCHANGED synthesis
          /\ IF handoff THEN stage' = "drain" /\ UNCHANGED terminal ELSE Breaks("failed_partial")
  /\ UNCHANGED <<plan, children, child, process, asked, answer, handoff>>

-----------------------------------------------------------------------------
(* run_task: what ends a run early.  Nothing that goes wrong in a handoff  *)
(* changes how the task ends.                                              *)
EndsEarly(state) ==
  /\ stage \in {"plan", "spawn", "wait", "synthesis"}
  /\ IF handoff THEN stage' = "drain" /\ UNCHANGED terminal ELSE Breaks(state)
  /\ UNCHANGED <<plan, children, child, process, parentvars>>

SavedWork == \E a \in children : child[a].report \/ child[a].saved

(* A limit of the run, or one a child's worker reports.                    *)
Limit(beforeDeadline) ==
  /\ stage \in {"plan", "spawn", "wait", "synthesis"} /\ terminal' = "limit_reached_partial"
  /\ IF beforeDeadline /\ stage \in {"spawn", "wait"} /\ SavedWork
     THEN Asks /\ handoff' = TRUE /\ process' = Closed(children)
     ELSE stage' = "drain" /\ UNCHANGED <<asked, answer, handoff, process>>
  /\ UNCHANGED <<plan, children, child, synthesis>>

(* drain_saved_outputs: returns that are queued are retained, while there  *)
(* is time and nobody cancelled; what the parent returned last is read as  *)
(* an answer to its plan call and dropped.                                 *)
Drain ==
  /\ stage = "drain" /\ stage' = "finish" /\ process' = Closed(Assignments)
  /\ \/ /\ terminal # "cancelled_partial"
        /\ child' = [a \in Assignments |->
             IF process[a].queue \in {"report", "invalid"} THEN [child[a] EXCEPT !.returned = TRUE]
             ELSE child[a]]
     \/ UNCHANGED child
  /\ UNCHANGED <<plan, children, parentvars, terminal>>

Finish ==
  LET ended == IF terminal = "limit_reached_partial" THEN "limit_reached" ELSE "cancelled"
      text == IF synthesis.by = "none"
              THEN [NoSynthesis EXCEPT !.by = "fallback", !.cites = {a \in children : child[a].report}]
              ELSE synthesis IN
  /\ stage = "finish" /\ stage' = "done"
  /\ child' = [a \in Assignments |->
       IF a \in children /\ child[a].state \notin {"completed", "failed"}
       THEN [child[a] EXCEPT !.state = ended] ELSE child[a]]
  /\ synthesis' = [text EXCEPT !.unfinished =
       {a \in plan : a \notin children \/ child[a].state # "completed"}]
  /\ UNCHANGED <<plan, children, process, asked, answer, handoff, terminal>>

DelegationNext ==
  \/ \E n \in Assignments : PlanArrives(n)
  \/ SpawnChild \/ Integrate \/ PollSynthesis \/ Drain \/ Finish
  \/ EndsEarly("cancelled_partial") \/ EndsEarly("failed_partial")
  \/ \E a \in Assignments :
       \/ PollCheckpoint(a) \/ PollReport(a) \/ PollFailure(a)
       \/ \E what \in {"report", "invalid", "error", "limit"} : ChildSends(a, what)
  \/ \E cites \in SUBSET Assignments : ParentSends(cites)
  \/ \E beforeDeadline \in BOOLEAN : Limit(beforeDeadline)

DelegationSpec == DelegationInit /\ [][DelegationNext]_delegvars

-----------------------------------------------------------------------------
(* However a run ends, its synthesis accounts for the whole plan: each     *)
(* assignment's report is cited, or the assignment is listed as            *)
(* unfinished, and only accepted reports are cited; and it ends as         *)
(* completed only if every assignment was carried out and the parent       *)
(* itself integrated them all, after no limit or failure ("parent          *)
(* synthesis must account for every returned child report").               *)
AccountsForAll ==
  stage = "done" =>
    /\ synthesis.cites = {a \in plan : child[a].report}
    /\ synthesis.unfinished = plan \ synthesis.cites
    /\ terminal = "completed" =>
         /\ synthesis.by = "parent" /\ synthesis.cites = plan /\ plan # {} /\ ~handoff
         /\ \A a \in plan : child[a].state = "completed" /\ child[a].returned
=============================================================================
