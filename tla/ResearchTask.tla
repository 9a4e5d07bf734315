---------------------------- MODULE ResearchTask ----------------------------
(***************************************************************************)
(* Lifecycle of one delegated research task: the HTTP handlers that start, *)
(* continue, cancel, recover, authorize and reconcile it, the worker       *)
(* thread that a start creates, and the application processes that own     *)
(* both and may crash between any two steps.                               *)
(*                                                                         *)
(* There is no lock on the database row.  A handler reads the row once     *)
(* (expire_on_commit=False) and writes later: start, continue, claim,      *)
(* allocate and authorize write by compare-and-swap on `revision`; cancel, *)
(* recover, reconcile and the worker's own saves write blindly, and the    *)
(* JSON ledger is always written whole.                                    *)
(*                                                                         *)
(* An operator A_Variant just above A is a plausible wrong version of A    *)
(* that no action uses; it serves to show that the properties can fail.    *)
(***************************************************************************)
EXTENDS Integers

CONSTANTS
  Servers,   \* application processes, one per _OWNER_ID; a restart is another member
  Requests,  \* HTTP request slots
  MaxRuns,   \* bound: starts plus continuations
  MaxOps,    \* bound: model operations one worker may dispatch
  MaxRevision, \* bound: no authorization is granted beyond this revision
  Offered,   \* the operations clients call in this instance
  Overlap,   \* may two application processes serve the same database at once?
  Slow,      \* windows in which the actor may be overtaken (see SlowWindows)
  NoServer

(* An operation not in Slow reads and writes its row in one step.          *)
(* "register": the starter may take over 5 s from its commit to _jobs.     *)
(* "dispatch": the worker may take over 10 s from a passed check to the    *)
(* send that follows it.                                                   *)
Operations  == {"start", "continue", "cancel", "recover", "reconcile", "authorize"}
SlowWindows == Operations \cup {"register", "dispatch"}

ASSUME Assumptions ==
  /\ MaxRuns \in Nat /\ MaxOps \in Nat
  /\ Overlap \in BOOLEAN
  /\ MaxRevision \in Nat
  /\ Offered \subseteq Operations
  /\ Slow \subseteq SlowWindows
  /\ NoServer \notin Servers

Runs     == 1 .. MaxRuns
Op       == Runs \X (1 .. MaxOps)   \* <<thread, k>>: its k-th operation
Active   == {"planning", "researching", "integrating"}
Terminal == {"completed", "limit_reached_partial", "failed_partial",
             "cancelled_partial", "interrupted_partial"}
State    == {"draft"} \cup Active \cup Terminal

(* The parts of the JSON ledger the lifecycle reads: the run that owns the *)
(* task, the process that owns the run, this run's allocations and those   *)
(* of the previous runs.                                                   *)
Ledger   == [run : 0 .. MaxRuns, owner : Servers \cup {NoServer},
             alloc : SUBSET Op, hist : SUBSET Op]
NoLedger == [run |-> 0, owner |-> NoServer, alloc |-> {}, hist |-> {}]
Row      == [state : State, revision : Nat, cancel : BOOLEAN,
             started_at : 0 .. MaxRuns, ledger : Ledger]
View     == [state : State, cancel : BOOLEAN, ledger : Ledger]
Draft    == [state |-> "draft", revision |-> 1, cancel |-> FALSE,
             started_at |-> 0, ledger |-> NoLedger]

(* Thread program counters.  A thread is named after the run whose start   *)
(* created it; `rid` is the run it actually executes.                      *)
Executing == {"claimed", "begin", "check", "go", "allocated", "received",
              "polled", "drain", "drained", "closing", "finish"}
Pc        == {"none", "ready", "exit", "dead"} \cup Executing
Expired   == -1                     \* `revision` expired, reloaded when next read

(* A runner's own memory: the run it executes, the revision and the row as *)
(* its session last saw them, its allocation list, operations dispatched   *)
(* and answered, how far it is, whether it is handing off, its outcome.    *)
Runner   == [rid : 0 .. MaxRuns, rev : Nat \cup {Expired}, view : View,
             mine : SUBSET Op, used : 0 .. MaxOps, got : Nat,
             phase : {"research", "integrate", "synthesis"}, hand : BOOLEAN,
             term : Terminal]
NoRunner == [rid |-> 0, rev |-> Expired,
             view |-> [state |-> "draft", cancel |-> FALSE, ledger |-> NoLedger],
             mine |-> {}, used |-> 0, got |-> 0, phase |-> "research",
             hand |-> FALSE, term |-> "completed"]

(* A request being served: how far it is, for which operation, in which    *)
(* process, the row as it read it, and the run it has committed or found   *)
(* in _jobs.                                                               *)
Request   == [at : {"idle", "loaded", "admitted", "decided", "committed", "cancelled"},
              op : Operations, srv : Servers \cup {NoServer}, snap : Row,
              run : 0 .. MaxRuns]
NoRequest == [at |-> "idle", op |-> "start", srv |-> NoServer, snap |-> Draft, run |-> 0]

VARIABLES
  row,       \* the research_task row
  started,   \* runs started so far
  server,    \* process -> down | up | gone
  jobs,      \* process -> the thread its _jobs holds for this task, 0 if none
  clock,     \* run -> 0 fresh, 1 over 5 s, 2 past its deadline, 3 past it by 10 s
  req,       \* request slot -> the request it serves
  pc,        \* thread -> where it is
  srv,       \* thread -> the process it lives in
  event,     \* thread -> is its cancel event set?
  runner,    \* thread -> its runner's memory
  sent,      \* history: operations handed to a model worker
  late,      \* history: thread -> sends made once it had lost the task
  stale      \* history: has a handler changed a row it had not seen as it was?

threads == <<pc, srv, event, runner>>
history == <<sent, late, stale>>
vars    == <<row, started, server, jobs, clock, req, threads, history>>

Init ==
  /\ row = Draft
  /\ started = 0
  /\ server = [s \in Servers |-> "down"]
  /\ jobs = [s \in Servers |-> 0]
  /\ clock = [r \in Runs |-> 0]
  /\ req = [q \in Requests |-> NoRequest]
  /\ pc = [t \in Runs |-> "none"]
  /\ srv = [t \in Runs |-> NoServer]
  /\ event = [t \in Runs |-> FALSE]
  /\ runner = [t \in Runs |-> NoRunner]
  /\ sent = {}
  /\ late = [t \in Runs |-> 0]
  /\ stale = FALSE

-----------------------------------------------------------------------------
(* Processes and time.                                                     *)

Boot(s) ==
  /\ server[s] = "down"
  /\ Overlap \/ \A u \in Servers : server[u] # "up"
  /\ server' = [server EXCEPT ![s] = "up"]
  /\ UNCHANGED <<row, started, jobs, clock, req, threads, history>>

(* A process dies with its threads, its requests and its _jobs; only the   *)
(* row survives.  Bound: the last process left does not crash.             *)
Crash(s) ==
  /\ server[s] = "up"
  /\ \E u \in Servers \ {s} : server[u] # "gone"
  /\ server' = [server EXCEPT ![s] = "gone"]
  /\ jobs' = [jobs EXCEPT ![s] = 0]
  /\ pc' = [t \in Runs |-> IF srv[t] = s THEN "dead" ELSE pc[t]]
  /\ runner' = [t \in Runs |-> IF srv[t] = s THEN NoRunner ELSE runner[t]]
  /\ event' = [t \in Runs |-> srv[t] # s /\ event[t]]
  /\ req' = [q \in Requests |-> IF req[q].srv = s THEN NoRequest ELSE req[q]]
  /\ UNCHANGED <<row, started, clock, srv, history>>

(* shutdown() sets every job's event; the process then exits (Crash).      *)
Shutdown(s) ==
  /\ server[s] = "up" /\ jobs[s] # 0
  /\ event' = [event EXCEPT ![jobs[s]] = TRUE]
  /\ UNCHANGED <<row, started, server, jobs, clock, req, pc, srv, runner, history>>

Tick(r) ==
  /\ r <= started /\ clock[r] < 3
  /\ \/ clock[r] # 0 \/ "register" \in Slow
     \/ \A q \in Requests : ~(req[q].at = "committed" /\ req[q].run = r)
  /\ \/ clock[r] # 2 \/ "dispatch" \in Slow
     \/ \A t \in Runs : ~(runner[t].rid = r /\ pc[t] \in {"go", "allocated"})
  /\ clock' = [clock EXCEPT ![r] = @ + 1]
  /\ UNCHANGED <<row, started, server, jobs, req, threads, history>>

-----------------------------------------------------------------------------
(* HTTP handlers.                                                          *)

(* Row states in which the handler does not return or refuse at once.      *)
Concerns(op, state) ==
  CASE op = "start"     -> state = "draft"
    [] op = "cancel"    -> state \notin Terminal
    [] op = "recover"   -> state \in Active
    [] op = "reconcile" -> state = "failed_partial"
    [] OTHER            -> state \in Terminal

(* A slow handler reads the row into its own session and may be overtaken. *)
Load(q, s, op) ==
  /\ req[q].at = "idle" /\ server[s] = "up"
  /\ op \in Slow \cap Offered
  /\ Concerns(op, row.state)
  /\ req' = [req EXCEPT ![q] = [at |-> "loaded", op |-> op, srv |-> s,
                                snap |-> row, run |-> 0]]
  /\ UNCHANGED <<row, started, server, jobs, clock, threads, history>>

(* Request q of process s is at step `at` of op, its session holding seen; *)
(* a handler that is not slow reads the row in the step itself.            *)
Serving(q, s, op, at, seen) ==
  /\ server[s] = "up" /\ op \in Offered
  /\ IF op \in Slow
     THEN req[q].at = at /\ req[q].op = op /\ req[q].srv = s /\ seen = req[q].snap
     ELSE req[q].at = "idle" /\ Concerns(op, row.state) /\ seen = row

Seen(q) == {row, req[q].snap}

(* The handler changes the task, which is no longer as it saw it.          *)
Tasks(r) == <<r.state, r.ledger>>
Overwrites(seen) == Tasks(row') # Tasks(row) /\ Tasks(seen) # Tasks(row)

Done(q) == req' = [req EXCEPT ![q] = NoRequest]

(* The handler answers 422 or returns: nothing is written.                 *)
Refuse(q) ==
  /\ req[q].at \in {"loaded", "admitted", "decided"}
  /\ Done(q)
  /\ UNCHANGED <<row, started, server, jobs, clock, threads, history>>

(* continue first looks in _jobs: the previous thread must have left.      *)
(* Then the checkpoint must hold saved work, which took an operation.      *)
MayContinue_JobsIgnored(s, seen) == seen.ledger.alloc \cup seen.ledger.hist # {}

MayContinue(s, seen) ==
  jobs[s] = 0 /\ seen.ledger.alloc \cup seen.ledger.hist # {}

AdmitContinue(q, s) ==
  /\ "continue" \in Slow
  /\ Serving(q, s, "continue", "loaded", req[q].snap)
  /\ MayContinue(s, req[q].snap)
  /\ req' = [req EXCEPT ![q].at = "admitted"]
  /\ UNCHANGED <<row, started, server, jobs, clock, threads, history>>

(* The fresh ledger of a new run; a continuation keeps its predecessors'   *)
(* allocations, as its session knew them.                                  *)
NewLedger_HistoryDropped(r, s, op, seen) ==
  [run |-> r, owner |-> s, alloc |-> {}, hist |-> seen.ledger.hist]

NewLedger(r, s, op, seen) ==
  [run |-> r, owner |-> s, alloc |-> {},
   hist |-> IF op = "continue" THEN seen.ledger.hist \cup seen.ledger.alloc ELSE {}]

(* The compare-and-swap of start() and authorize_task().                   *)
Current_Unchecked(seen) == row.revision >= seen.revision

Current(seen) == row.state = seen.state /\ row.revision = seen.revision

StartCommit(q, s, op) ==
  \E seen \in Seen(q) :
    /\ Serving(q, s, op, IF op = "continue" THEN "admitted" ELSE "loaded", seen)
    /\ op = "continue" /\ op \notin Slow => MayContinue(s, seen)
    /\ started < MaxRuns
    /\ Current(seen)
    /\ row' = [state |-> "planning", revision |-> row.revision + 1, cancel |-> FALSE,
               started_at |-> started + 1,
               ledger |-> NewLedger(started + 1, s, op, seen)]
    /\ started' = started + 1
    /\ req' = [req EXCEPT ![q] = [at |-> "committed", op |-> op, srv |-> s,
                                  snap |-> row', run |-> started + 1]]
    /\ UNCHANGED <<server, jobs, clock, threads, history>>

(* After the commit the handler puts the thread in _jobs and starts it.    *)
Register(q) ==
  /\ req[q].at = "committed"
  /\ jobs' = [jobs EXCEPT ![req[q].srv] = req[q].run]
  /\ pc' = [pc EXCEPT ![req[q].run] = "ready"]
  /\ srv' = [srv EXCEPT ![req[q].run] = req[q].srv]
  /\ Done(q)
  /\ UNCHANGED <<row, started, server, clock, event, runner, history>>

(* thread.start() raised: the job is popped and the row failed.            *)
RegisterFails(q) ==
  /\ req[q].at = "committed"
  /\ jobs' = [jobs EXCEPT ![req[q].srv] = 0]
  /\ row' = [row EXCEPT !.state = "failed_partial", !.ledger = req[q].snap.ledger]
  /\ Done(q)
  /\ UNCHANGED <<started, server, clock, threads, history>>

(* cancel() writes only what changed in its session: the flag if it read   *)
(* it clear, and for a draft the state and the whole ledger.               *)
CancelCommit(q, s) ==
  \E seen \in Seen(q) :
    /\ Serving(q, s, "cancel", "loaded", seen)
    /\ row' = [row EXCEPT
                 !.cancel = @ \/ ~seen.cancel,
                 !.state  = IF seen.state = "draft" THEN "cancelled_partial" ELSE @,
                 !.ledger = IF seen.state = "draft" THEN seen.ledger ELSE @]
    /\ req' = [req EXCEPT ![q].at = "cancelled", ![q].op = "cancel", ![q].srv = s]
    /\ stale' = (stale \/ Overwrites(seen))
    /\ UNCHANGED <<started, server, jobs, clock, threads, sent, late>>

(* Then the event of the thread in this process's _jobs, if there is one.  *)
CancelEvent(q) ==
  /\ req[q].at = "cancelled"
  /\ event' = [t \in Runs |-> event[t] \/ t = jobs[req[q].srv]]
  /\ Done(q)
  /\ UNCHANGED <<row, started, server, jobs, clock, pc, srv, runner, history>>

(* recover_expired: the owner is gone, the thread never got going, or the  *)
(* hard deadline and its grace period are over.                            *)
Due_NoDeadline(s, seen) ==
  \/ seen.ledger.owner # s
  \/ seen.state = "planning" /\ seen.ledger.alloc = {} /\ clock[seen.started_at] >= 1

Due(s, seen) ==
  \/ /\ seen.ledger.owner \in Servers \ {s}
     /\ server[seen.ledger.owner] = "gone"
  \/ /\ seen.ledger.owner = s /\ seen.state = "planning" /\ seen.ledger.alloc = {}
     /\ clock[seen.started_at] >= 1
  \/ clock[seen.started_at] = 3

MayRecover_JobsIgnored(s, seen) == Due(s, seen)

MayRecover(s, seen) == Due(s, seen) /\ jobs[s] = 0

RecoverDecide(q, s) ==
  /\ "recover" \in Slow
  /\ Serving(q, s, "recover", "loaded", req[q].snap)
  /\ MayRecover(s, req[q].snap)
  /\ req' = [req EXCEPT ![q].at = "decided", ![q].run = jobs[s]]
  /\ UNCHANGED <<row, started, server, jobs, clock, threads, history>>

(* A thread came into _jobs since, or a start has yet to put it there.     *)
NewThread(q, s) ==
  \/ "recover" \in Slow /\ jobs[s] # req[q].run
  \/ \E p \in Requests : req[p].at = "committed"

RecoverCommit(q, s) ==
  \E seen \in Seen(q) :
    /\ Serving(q, s, "recover", "decided", seen)
    /\ "recover" \notin Slow => MayRecover(s, seen)
    /\ row' = [row EXCEPT !.state = "interrupted_partial", !.ledger = seen.ledger]
    /\ Done(q)
    /\ stale' = (stale \/ Overwrites(seen) \/ (Tasks(row') # Tasks(row) /\ NewThread(q, s)))
    /\ UNCHANGED <<started, server, jobs, clock, threads, sent, late>>

(* reconcile() rewrites the ledger it read, with no revision check.        *)
Reconcile(q, s) ==
  \E seen \in Seen(q) :
    /\ Serving(q, s, "reconcile", "loaded", seen)
    /\ seen.ledger.alloc # {}
    /\ row' = [row EXCEPT !.ledger = seen.ledger]
    /\ Done(q)
    /\ stale' = (stale \/ Overwrites(seen))
    /\ UNCHANGED <<started, server, jobs, clock, threads, sent, late>>

(* authorize_task() swaps the revision, then rewrites the ledger it read.  *)
Authorize(q, s) ==
  \E seen \in Seen(q) :
    /\ Serving(q, s, "authorize", "loaded", seen)
    /\ row.revision = seen.revision /\ row.revision < MaxRevision
    /\ row' = [row EXCEPT !.revision = @ + 1, !.ledger = seen.ledger]
    /\ Done(q)
    /\ UNCHANGED <<started, server, jobs, clock, threads, history>>

Handler(q, s) ==
  \/ \E op \in Operations : Load(q, s, op)
  \/ \E op \in {"start", "continue"} : StartCommit(q, s, op)
  \/ AdmitContinue(q, s) \/ CancelCommit(q, s)
  \/ RecoverDecide(q, s) \/ RecoverCommit(q, s)
  \/ Reconcile(q, s) \/ Authorize(q, s)

Resume(q) == Refuse(q) \/ Register(q) \/ RegisterFails(q) \/ CancelEvent(q)

-----------------------------------------------------------------------------
(* The worker thread (run_task and Runner).                                *)

frame == <<started, server, jobs, clock, req, srv, event>>
Goto(t, next) == pc' = [pc EXCEPT ![t] = next]
Fresh == [state |-> row.state, cancel |-> row.cancel, ledger |-> row.ledger]
Owned(t) == [runner[t].view.ledger EXCEPT !.alloc = runner[t].mine]

(* What check() and event() compare after their refresh.                   *)
Lost_StateIgnored(t) == runner[t].rid # 0 /\ row.ledger.run # runner[t].rid

Lost(t)    == /\ runner[t].rid # 0
              /\ row.ledger.run # runner[t].rid \/ row.state \in Terminal
Halted(t)  == event[t] \/ row.cancel
PastDue(t) == clock[IF runner[t].rid = 0 THEN t ELSE runner[t].rid] >= 2
MayGoOn(t) == ~Lost(t) /\ ~Halted(t) /\ ~PastDue(t)

(* Why check() stops the runner, in the order it asks.  A token limit, or  *)
(* the research cutoff before the deadline, may be met at any check.       *)
StopState(t) == IF Lost(t) THEN "interrupted_partial"
                ELSE IF Halted(t) THEN "cancelled_partial"
                ELSE "limit_reached_partial"

(* A runner handing off after a limit keeps that limit as its outcome.     *)
Outcome(t, state) == IF runner[t].hand THEN runner[t].term ELSE state

(* The thread reads the row and claims it by compare-and-swap; a revision  *)
(* never comes back, so the two are one step.                              *)
Claim(t) ==
  /\ pc[t] = "ready"
  /\ IF row.state = "planning"
     THEN /\ row' = [row EXCEPT !.state = "researching", !.revision = @ + 1]
          /\ Goto(t, "claimed")
     ELSE Goto(t, "exit") /\ UNCHANGED row
  /\ UNCHANGED <<frame, runner, history>>

(* session.refresh(task) and Runner.__init__.                              *)
Begin(t) ==
  /\ pc[t] = "claimed"
  /\ runner' = [runner EXCEPT ![t].view = Fresh, ![t].rid = row.ledger.run,
                              ![t].rev = row.revision, ![t].mine = row.ledger.alloc]
  /\ Goto(t, "begin")
  /\ UNCHANGED <<frame, row, history>>

(* The first check runs before any executor exists: nothing to drain.      *)
FirstCheck(t) ==
  /\ pc[t] = "begin"
  /\ \/ /\ MayGoOn(t)
        /\ runner' = [runner EXCEPT ![t].view = Fresh]
        /\ Goto(t, "check")
     \/ \E stop \in {StopState(t)} \cup (IF MayGoOn(t) THEN {"failed_partial"} ELSE {}) :
          /\ runner' = [runner EXCEPT ![t].view = Fresh, ![t].term = stop]
          /\ Goto(t, "finish")
  /\ UNCHANGED <<frame, row, history>>

(* A limit before the deadline, with child work saved: integrate that.     *)
CanHandOff(t) == /\ runner[t].phase = "research" /\ ~runner[t].hand
                 /\ runner[t].got > 1 /\ ~PastDue(t)

(* check() on the way to the next dispatch or poll.                        *)
Check(t) ==
  /\ pc[t] \in {"check", "polled"}
  /\ \/ /\ MayGoOn(t)
        /\ runner' = [runner EXCEPT ![t].view = Fresh]
        /\ Goto(t, "go")
     \/ /\ runner' = [runner EXCEPT ![t].view = Fresh,
                                    ![t].term = Outcome(t, StopState(t))]
        /\ Goto(t, "drain")
     \/ /\ ~Lost(t) /\ ~Halted(t) /\ CanHandOff(t)
        /\ runner' = [runner EXCEPT ![t].view = Fresh, ![t].hand = TRUE,
                                    ![t].term = "limit_reached_partial"]
        /\ Goto(t, "check")
  /\ UNCHANGED <<frame, row, history>>

(* integrate(): after its own check, the state is written from the session.*)
Integrate(t) ==
  /\ pc[t] = "go" /\ runner[t].phase = "research"
  /\ runner[t].hand \/ (runner[t].got > 0 /\ runner[t].got = runner[t].used)
  /\ row' = [row EXCEPT !.state = "integrating"]
  /\ runner' = [runner EXCEPT ![t].view.state = "integrating", ![t].phase = "integrate"]
  /\ Goto(t, "check")
  /\ UNCHANGED <<frame, history>>

(* spawn(): once past its own check, it saves the session's ledger.        *)
Spawn(t) ==
  /\ pc[t] = "go" /\ runner[t].phase = "research" /\ ~runner[t].hand
  /\ row' = [row EXCEPT !.ledger = runner[t].view.ledger]
  /\ Goto(t, "check")
  /\ UNCHANGED <<frame, runner, history>>

(* allocate(): lock_revision, then the ledger with one more row.  Reading  *)
(* an expired revision reloads it, so the comparison is then with itself.  *)
Allocate(t) ==
  /\ pc[t] = "go" /\ runner[t].used < MaxOps
  /\ \/ runner[t].phase = "integrate"
     \/ runner[t].phase = "research" /\ ~runner[t].hand
  /\ IF runner[t].rev \in {Expired, row.revision}
     THEN LET k == runner[t].used + 1
              l == [Owned(t) EXCEPT !.alloc = @ \cup {<<t, k>>}] IN
          /\ row' = [row EXCEPT !.revision = @ + 1, !.ledger = l]
          /\ runner' = [runner EXCEPT
               ![t].view.ledger = l, ![t].mine = l.alloc, ![t].used = k, ![t].rev = Expired,
               ![t].phase = IF @ = "integrate" THEN "synthesis" ELSE @]
          /\ Goto(t, "allocated")
     ELSE /\ runner' = [runner EXCEPT ![t].term = Outcome(t, "failed_partial")]
          /\ Goto(t, "drain") /\ UNCHANGED row
  /\ UNCHANGED <<frame, history>>

(* The intent is committed, then the message leaves for the worker.        *)
HoldsTask(t) == row.ledger.run = runner[t].rid /\ row.state \in Active /\ ~row.cancel

Send(t) ==
  /\ pc[t] = "allocated"
  /\ late' = [late EXCEPT ![t] = IF HoldsTask(t) THEN @ ELSE @ + 1]
  /\ sent' = sent \cup {<<t, runner[t].used>>}
  /\ row' = [row EXCEPT !.ledger = Owned(t)]
  /\ runner' = [runner EXCEPT ![t].view.ledger = Owned(t)]
  /\ Goto(t, "check")
  /\ UNCHANGED <<frame, stale>>

(* event(): refresh ledger and state, refuse if the task is lost, else     *)
(* take an event of an outstanding operation, if one has arrived.          *)
Poll(t) ==
  /\ pc[t] \in {"go", "polled"} /\ runner[t].got < runner[t].used
  /\ runner[t].phase # "integrate" /\ (runner[t].hand => runner[t].phase = "synthesis")
  /\ LET v == [runner[t].view EXCEPT !.state = row.state, !.ledger = row.ledger] IN
     IF Lost(t)
     THEN /\ runner' = [runner EXCEPT ![t].view = v,
                          ![t].term = Outcome(t, "interrupted_partial")]
          /\ Goto(t, "drain")
     ELSE /\ runner' = [runner EXCEPT ![t].view = v]
          /\ \E next \in {"received", "check"} : Goto(t, next)
  /\ UNCHANGED <<frame, row, history>>

(* drain_saved_outputs() takes what has arrived when the runner stops,     *)
(* unless it was cancelled or superseded.                                  *)
Drain(t) ==
  /\ pc[t] = "drain" /\ runner[t].got < runner[t].used
  /\ ~event[t] /\ ~runner[t].view.cancel
  /\ runner[t].rid = 0 \/ runner[t].view.ledger.run = runner[t].rid
  /\ runner' = [runner EXCEPT ![t].view.state = row.state, ![t].view.ledger = row.ledger]
  /\ Goto(t, IF Lost(t) THEN "closing" ELSE "drained")
  /\ UNCHANGED <<frame, row, history>>

(* The event is saved: telemetry, or the operation's result.               *)
Accept(t) ==
  /\ pc[t] \in {"received", "drained"}
  /\ row' = [row EXCEPT !.ledger = Owned(t)]
  /\ runner' = [runner EXCEPT ![t].view.ledger = Owned(t), ![t].got = @ + 1]
  /\ Goto(t, IF pc[t] = "drained" THEN "drain" ELSE "polled")
  /\ UNCHANGED <<frame, history>>

(* The synthesis is accepted; the outcome is failed if a child had failed. *)
Complete(t) ==
  /\ pc[t] = "polled" /\ runner[t].phase = "synthesis"
  /\ \E state \in {"completed", "failed_partial"} :
       runner' = [runner EXCEPT ![t].term = Outcome(t, state)]
  /\ Goto(t, "drain")
  /\ UNCHANGED <<frame, row, history>>

(* An allocation refused, an allowance overrun, the worker's own limit.    *)
Limit(t) ==
  /\ pc[t] \in {"go", "received", "polled"}
  /\ \/ /\ CanHandOff(t)
        /\ runner' = [runner EXCEPT ![t].hand = TRUE, ![t].term = "limit_reached_partial"]
        /\ Goto(t, "check")
     \/ /\ runner' = [runner EXCEPT ![t].term = Outcome(t, "limit_reached_partial")]
        /\ Goto(t, "drain")
  /\ UNCHANGED <<frame, row, history>>

(* A worker, protocol or validation error, or a refused operation.         *)
Fail(t) ==
  /\ pc[t] \in {"go", "allocated", "received", "polled"}
  /\ runner' = [runner EXCEPT ![t].term = Outcome(t, "failed_partial")]
  /\ Goto(t, "drain")
  /\ UNCHANGED <<frame, row, history>>

(* Any other exception: roll back, reload the row and its allocations.     *)
Unexpected(t) ==
  /\ pc[t] \in {"go", "allocated", "received", "polled"} /\ ~runner[t].hand
  /\ runner' = [runner EXCEPT ![t].view = Fresh, ![t].mine = row.ledger.alloc,
                              ![t].term = "failed_partial"]
  /\ Goto(t, "drain")
  /\ UNCHANGED <<frame, row, history>>

(* executor.close(), then a trace record that rewrites the session's       *)
(* ledger.                                                                 *)
Close(t) ==
  /\ pc[t] \in {"drain", "closing"}
  /\ row' = [row EXCEPT !.ledger = runner[t].view.ledger]
  /\ Goto(t, "finish")
  /\ UNCHANGED <<frame, runner, history>>

(* A full trace makes that record raise: the run is never finished.        *)
Abandon(t) ==
  /\ pc[t] \in {"drain", "closing"}
  /\ Goto(t, "exit")
  /\ UNCHANGED <<frame, row, runner, history>>

(* finish(): refused to a run the session's ledger does not name, with no  *)
(* fresh read and no look at the state it overwrites.                      *)
Finish(t) ==
  /\ pc[t] = "finish"
  /\ IF runner[t].rid # 0 /\ runner[t].view.ledger.run # runner[t].rid
     THEN UNCHANGED row
     ELSE row' = [row EXCEPT !.ledger = Owned(t),
                    !.state = IF runner[t].term = runner[t].view.state THEN @
                              ELSE runner[t].term]
  /\ Goto(t, "exit")
  /\ UNCHANGED <<frame, runner, history>>

Exit(t) ==
  /\ pc[t] = "exit"
  /\ jobs' = [jobs EXCEPT ![srv[t]] = 0]
  /\ runner' = [runner EXCEPT ![t] = NoRunner]
  /\ event' = [event EXCEPT ![t] = FALSE]
  /\ Goto(t, "dead")
  /\ UNCHANGED <<row, started, server, clock, req, srv, history>>

Worker(t) ==
  \/ Claim(t) \/ Begin(t) \/ FirstCheck(t) \/ Check(t) \/ Integrate(t)
  \/ Spawn(t) \/ Allocate(t) \/ Send(t) \/ Poll(t) \/ Drain(t) \/ Accept(t) \/ Complete(t)
  \/ Limit(t) \/ Fail(t) \/ Unexpected(t) \/ Close(t) \/ Abandon(t) \/ Finish(t)
  \/ Exit(t)

Next ==
  \/ \E s \in Servers : Boot(s) \/ Crash(s) \/ Shutdown(s)
  \/ \E r \in Runs : Tick(r)
  \/ \E q \in Requests : Resume(q) \/ \E s \in Servers : Handler(q, s)
  \/ \E t \in Runs : Worker(t)

Spec == Init /\ [][Next]_vars

(* The scheduler runs every thread and the clock runs on; a process that   *)
(* is down is started again; a committed request goes on; someone, sooner  *)
(* or later, opens the task, which is when recover_expired is called.      *)
Fairness ==
  /\ \A t \in Runs : WF_vars(Worker(t)) /\ WF_vars(Tick(t))
  /\ \A s \in Servers : WF_vars(Boot(s))
  /\ \A q \in Requests : WF_vars(Register(q)) /\ WF_vars(CancelEvent(q))
  /\ SF_vars(\E q \in Requests, s \in Servers : RecoverCommit(q, s))

FairSpec == Spec /\ Fairness

-----------------------------------------------------------------------------
(* Properties.                                                             *)

TypeOK ==
  /\ row \in Row
  /\ started \in 0 .. MaxRuns
  /\ server \in [Servers -> {"down", "up", "gone"}]
  /\ jobs \in [Servers -> 0 .. MaxRuns]
  /\ clock \in [Runs -> 0 .. 3]
  /\ req \in [Requests -> Request]
  /\ pc \in [Runs -> Pc]
  /\ srv \in [Runs -> Servers \cup {NoServer}]
  /\ event \in [Runs -> BOOLEAN]
  /\ runner \in [Runs -> Runner]
  /\ sent \subseteq Runs \X Nat
  /\ late \in [Runs -> Nat]
  /\ stale \in BOOLEAN

(* At most one thread executes the task, although start, continue and      *)
(* recovery decide from a row they read earlier and _jobs is consulted     *)
(* outside the transaction.                                                *)
SingleExecutor ==
  \A t, u \in Runs : pc[t] \in Executing /\ pc[u] \in Executing => t = u

(* cancel() and shutdown() find the event of whatever thread executes: it  *)
(* is the one _jobs of its own process holds.                              *)
Registered ==
  \A t \in Runs : pc[t] \in Executing => srv[t] \in Servers /\ jobs[srv[t]] = t

(* An executing thread works for the run the row names: no runner ever     *)
(* saves over a later run, unless a handler wrote over what it had not     *)
(* seen.                                                                   *)
NoZombie ==
  ~stale => \A t \in Runs : runner[t].rid # 0 => runner[t].rid = row.ledger.run

(* check() is not repeated at the send: a thread that loses the task to a  *)
(* cancellation, a recovery or a new run dispatches one operation at most. *)
OneLateDispatch == \A t \in Runs : late[t] <= 1

(* "After the observed limit, local deadline or cancellation, no further   *)
(* model operation starts" (docs/DELEGATED-RESEARCH.md).                   *)
NoLateDispatch == \A t \in Runs : late[t] = 0

(* Every operation handed to a worker is accounted in the row, where an    *)
(* unanswered one counts in full: "it is not zero usage".                  *)
EveryDispatchCharged == sent \subseteq row.ledger.alloc \cup row.ledger.hist

(* "Terminal tasks cannot resume" (docs/DELEGATED-RESEARCH.md).            *)
TerminalTasksCannotResume ==
  [][row.state \in Terminal => row.state' = row.state]_vars

(* An outcome, once written, is replaced by nothing but the start of a new *)
(* run, however long a handler took and whatever its thread still saves,   *)
(* until one changes a task that it had not seen as it was.                *)
OutcomeStands ==
  [][~stale' /\ row.state \in Terminal =>
       row.state' = row.state \/ (row.state' = "planning" /\ started' = started + 1)]_vars

(* The rows and threads above keep the promise of a durable task, until a  *)
(* handler changes a task that it had not seen as it was.                  *)
Phase == IF row.state = "draft" THEN "draft"
         ELSE IF row.state \in Active THEN "open" ELSE "closed"

Promise == INSTANCE DurableTask
  WITH phase <- Phase, run <- row.ledger.run, dispatched <- sent,
       charged <- row.ledger.alloc \cup row.ledger.hist
KeepsPromise == Promise!Init /\ [][stale' \/ Promise!Next]_(Promise!promise)

(* A task that was started ends, whatever the workers do and whichever     *)
(* process dies, as long as someone opens it again.                        *)
EveryRunEnds == \A r \in Runs : row.state \in Active /\ row.ledger.run = r
                  ~> row.state \in Terminal \/ row.ledger.run > r

-----------------------------------------------------------------------------
(* Why these hold.  With one process at a time and as long as no handler    *)
(* has changed a task it had not seen, the thread that holds the task is    *)
(* the one in _jobs, its session never goes stale, and a snapshot of a      *)
(* finished task whose revision is still current is current altogether.     *)
(* That is so throughout if no handler but start and continue is ever       *)
(* overtaken between its read and its write.                                *)

Prompt == ~Overlap /\ Slow \subseteq {"start", "continue", "dispatch"}

Held == Executing \cup {"ready", "exit"}

OneProcess == \A s, u \in Servers : server[s] = "up" /\ server[u] = "up" => s = u

ThreadsInJobs ==
  \A t \in Runs : pc[t] \in Held =>
    srv[t] \in Servers /\ server[srv[t]] = "up" /\ jobs[srv[t]] = t

ThreadsOwn ==
  \A t \in Runs : pc[t] \in Held \ {"exit"} => row.state \in Active /\ row.ledger.run = t

(* A runner's identity and its session's copy of the ledger are the row's. *)
RunnersCurrent ==
  \A t \in Runs : runner[t].rid # 0 =>
    /\ pc[t] \in Held
    /\ runner[t].rid = row.ledger.run
    /\ runner[t].view.ledger = row.ledger
    /\ runner[t].mine = row.ledger.alloc

RunnersBegun ==
  \A t \in Runs :
    /\ pc[t] \in Executing \ {"claimed"} => runner[t].rid # 0
    /\ pc[t] = "allocated" => <<t, runner[t].used>> \in row.ledger.alloc

DraftIsFresh ==
  row.state = "draft" => row.ledger = NoLedger /\ \A s \in Servers : jobs[s] = 0

ClocksFresh == \A r \in Runs : r > started => clock[r] = 0

RequestsServed ==
  \A q \in Requests : req[q].at # "idle" =>
    req[q].srv \in Servers /\ server[req[q].srv] = "up"

(* Between its commit and _jobs a start has the task to itself.            *)
StartsAlone ==
  \A q \in Requests : req[q].at = "committed" =>
    /\ req[q].run \in Runs /\ row.started_at = req[q].run
    /\ "register" \notin Slow => clock[req[q].run] = 0
    /\ row.state = "planning" /\ row.ledger = req[q].snap.ledger
    /\ row.ledger.run = req[q].run /\ row.ledger.owner = req[q].srv
    /\ jobs[req[q].srv] = 0
    /\ \A p \in Requests : req[p].at = "committed" => p = q

SnapshotsAge ==
  \A q \in Requests : req[q].at \in {"loaded", "admitted", "decided"} =>
    /\ req[q].op \in Slow /\ Concerns(req[q].op, req[q].snap.state)
    /\ req[q].at = "admitted" => req[q].op = "continue"
    /\ req[q].at = "decided" => req[q].op = "recover" /\ req[q].run = 0
    /\ req[q].snap.revision <= row.revision
    /\ req[q].snap.state \in Terminal /\ req[q].snap.revision = row.revision =>
         /\ row.state = req[q].snap.state /\ row.ledger = req[q].snap.ledger
         /\ req[q].at = "admitted" => jobs[req[q].srv] = 0

(* With no stale write a ledger never names an earlier run.                *)
NamesLastRun == row.ledger.run = started

Exclusive ==
  /\ OneProcess /\ ThreadsInJobs /\ ThreadsOwn /\ RunnersCurrent /\ RunnersBegun
  /\ DraftIsFresh /\ ClocksFresh /\ RequestsServed /\ StartsAlone /\ SnapshotsAge

Inductive == Exclusive /\ NamesLastRun
=============================================================================
