----------------------------- MODULE ComputeRuns ----------------------------
(***************************************************************************)
(* Compute runs: a plan bound by its hash to a script, its inputs and an   *)
(* environment; approved by a person, executed in a subprocess, reviewed   *)
(* by a person, promoted to a research result.  Handlers load the row,     *)
(* check it, and write the columns they changed when they commit, with no  *)
(* comparison; an execution keeps the row locked while its subprocess runs *)
(* and makes the run's directory, which outlives a crash.  The binding is  *)
(* compared with the plan before the directory is made, and the files are  *)
(* copied into it afterwards, from what lies at their paths by then.       *)
(*                                                                         *)
(* A plan hash is the version of the world it was computed from.           *)
(***************************************************************************)
EXTENDS Naturals, Sequences

CONSTANTS
  Runs,
  Callers,     \* concurrent requests
  World,       \* versions of the sources, the image and the environment
  MaxResults   \* bound: promoted results of a run

None == "none"

ASSUME ComputeAssumptions == World # {} /\ None \notin World \cup Runs /\ MaxResults \in Nat

VARIABLES
  run,       \* the compute_runs table
  world,     \* the version now
  runDir,    \* runs whose directory exists
  call,      \* caller -> what it has loaded and is about to do
  copies,    \* run -> the versions of the script, inputs and interpreter it has
  results,   \* run -> the manifests cited by its promoted research objects
  started,   \* history: run -> the bindings of its started subprocesses
  since,     \* history: caller -> the versions there were since it took its binding
  judged     \* history: run -> the versions approved and the verdicts given

cvars == <<run, world, runDir, call, copies, results, started, since, judged>>

Outcome == {"succeeded", "failed", "timed_out"}
Manifest == [ver : World, outcome : Outcome]
NoManifest == [ver |-> None, outcome |-> None]
Plan == World \cup {None}
RunRow == [state : {None, "planned", "approved"} \cup Outcome,
           review : {"unreviewed", "verified", "rejected"}, plan : Plan,
           execution : Manifest \cup {NoManifest}, promoted : BOOLEAN]
NoRun == [state |-> None, review |-> "unreviewed", plan |-> None,
          execution |-> NoManifest, promoted |-> FALSE]
Free == [step |-> "free", run |-> None, ver |-> None, cited |-> NoManifest]

TypeOKCompute ==
  /\ run \in [Runs -> RunRow]
  /\ world \in World /\ runDir \subseteq Runs
  /\ call \in [Callers -> [step : {"free", "approve", "stage", "ready", "running",
                                   "review", "promote"},
                           run : Runs \cup {None}, ver : Plan,
                           cited : Manifest \cup {NoManifest}]]
  /\ copies \in [Runs -> SUBSET World] /\ since \in [Callers -> SUBSET World]
  /\ results \in [Runs -> Seq(Manifest)]
  /\ started \in [Runs -> Seq(World)]
  /\ judged \in [Runs -> SUBSET (World \cup {"verified", "rejected"})]

ComputeInit ==
  /\ run = [x \in Runs |-> NoRun]
  /\ world \in World /\ runDir = {}
  /\ call = [c \in Callers |-> Free]
  /\ copies = [x \in Runs |-> {}]
  /\ since = [c \in Callers |-> {}]
  /\ results = [x \in Runs |-> <<>>]
  /\ started = [x \in Runs |-> <<>>]
  /\ judged = [x \in Runs |-> {}]

-----------------------------------------------------------------------------
Begin(c, step, x, v) ==
  /\ call[c] = Free
  /\ call' = [call EXCEPT ![c] = [step |-> step, run |-> x, ver |-> v,
                                  cited |-> run[x].execution]]
Step(c, from, to) == call[c].step = from /\ call' = [call EXCEPT ![c].step = to]
End(c)  == /\ call' = [call EXCEPT ![c] = Free]
           /\ since' = [since EXCEPT ![c] = {}]

(* RUNNING is flushed and not committed: others wait for the row.          *)
RowFree(x) == \A c \in Callers : ~(call[c].step = "running" /\ call[c].run = x)

CreateRun(x) ==
  /\ run[x].state = None
  /\ run' = [run EXCEPT ![x].state = "planned", ![x].plan = world]
  /\ UNCHANGED <<world, runDir, call, copies, results, started, since, judged>>

Stale_Never(x) == FALSE

Stale(x) == run[x].plan # world   \* plan_status

LoadApproval(c, x) ==
  /\ run[x].state = "planned" /\ ~Stale(x)
  /\ Begin(c, "approve", x, run[x].plan)
  /\ UNCHANGED <<run, world, runDir, copies, results, started, since, judged>>

ApproveRun(c) ==
  LET x == call[c].run IN
  /\ call[c].step = "approve" /\ RowFree(x)
  /\ run' = [run EXCEPT ![x].state = "approved"]
  /\ judged' = [judged EXCEPT ![x] = @ \cup {call[c].ver}]
  /\ End(c) /\ UNCHANGED <<world, runDir, copies, results, started>>

(* execute_run: the binding is computed and compared with the plan once.   *)
Execute(c, x) ==
  /\ run[x].state = "approved" /\ ~Stale(x)
  /\ Begin(c, "stage", x, world)
  /\ since' = [since EXCEPT ![c] = {world}]
  /\ UNCHANGED <<run, world, runDir, copies, results, started, judged>>

(* mkdir without exist_ok: FileExistsError ends the request.               *)
MakeDirectory(x) == x \notin runDir /\ runDir' = runDir \cup {x}

(* What is copied is what is there by now; it is not hashed again.         *)
Copies(x, versions) == copies' = [copies EXCEPT ![x] = @ \cup versions]

Stage(c) ==
  /\ Step(c, "stage", "ready")
  /\ MakeDirectory(call[c].run) /\ Copies(call[c].run, {world})
  /\ UNCHANGED <<run, world, results, started, since, judged>>

(* The inputs follow the script, one after another.                        *)
StageInput(c) ==
  /\ call[c].step = "ready" /\ Copies(call[c].run, {world})
  /\ UNCHANGED <<run, world, runDir, call, results, started, since, judged>>

(* An image is pinned by its digest; the local interpreter is the one      *)
(* there is.                                                               *)
Start(c) ==
  LET x == call[c].run IN
  /\ RowFree(x) /\ Step(c, "ready", "running")
  /\ \E interpreter \in {{}, {world}} : Copies(x, interpreter)
  /\ started' = [started EXCEPT ![x] = Append(@, call[c].ver)]
  /\ UNCHANGED <<run, world, runDir, results, since, judged>>

FinishRun(c) ==
  LET x == call[c].run IN
  /\ call[c].step = "running"
  /\ \E outcome \in Outcome :
       run' = [run EXCEPT ![x].state = outcome,
                          ![x].execution = [ver |-> call[c].ver, outcome |-> outcome]]
  /\ End(c) /\ UNCHANGED <<world, runDir, copies, results, started, judged>>

(* review_run.                                                             *)
Review(c, x) ==
  /\ run[x].state = "succeeded" /\ run[x].review = "unreviewed"
  /\ Begin(c, "review", x, None)
  /\ UNCHANGED <<run, world, runDir, copies, results, started, since, judged>>

ReviewRun(c) ==
  LET x == call[c].run IN
  /\ call[c].step = "review" /\ RowFree(x)
  /\ \E verdict \in {"verified", "rejected"} :
       /\ run' = [run EXCEPT ![x].review = verdict]
       /\ judged' = [judged EXCEPT ![x] = @ \cup {verdict}]
  /\ End(c) /\ UNCHANGED <<world, runDir, copies, results, started>>

(* promote_result: the captured outputs are checked against the store.     *)
Promotable(x) == /\ run[x].state = "succeeded" /\ run[x].review = "verified"
                 /\ ~run[x].promoted

Promote(c, x) ==
  /\ Promotable(x) /\ Begin(c, "promote", x, None)
  /\ UNCHANGED <<run, world, runDir, copies, results, started, since, judged>>

PromoteResult(c) ==
  LET x == call[c].run IN
  /\ call[c].step = "promote" /\ RowFree(x) /\ Len(results[x]) < MaxResults
  /\ results' = [results EXCEPT ![x] = Append(@, call[c].cited)]
  /\ run' = [run EXCEPT ![x].promoted = TRUE]
  /\ End(c) /\ UNCHANGED <<world, runDir, copies, started, judged>>

(* The process or the client dies; what was not committed is gone, and the *)
(* directory stays.                                                        *)
Die(c) ==
  /\ call[c] # Free /\ End(c)
  /\ UNCHANGED <<run, world, runDir, copies, results, started, judged>>

WorldChanges ==
  /\ world' \in World \ {world}
  /\ since' = [c \in Callers |-> IF since[c] = {} THEN {} ELSE since[c] \cup {world'}]
  /\ UNCHANGED <<run, runDir, call, copies, results, started, judged>>

ComputeNext ==
  \/ \E c \in Callers :
       \/ ApproveRun(c) \/ Stage(c) \/ StageInput(c) \/ Start(c) \/ FinishRun(c) \/ ReviewRun(c)
       \/ PromoteResult(c) \/ Die(c)
       \/ \E x \in Runs : LoadApproval(c, x) \/ Execute(c, x) \/ Review(c, x) \/ Promote(c, x)
  \/ \E x \in Runs : CreateRun(x)
  \/ WorldChanges

ComputeSpec == ComputeInit /\ [][ComputeNext]_cvars

-----------------------------------------------------------------------------
(* Properties.                                                             *)

(* However executions, late approvals and crashes interleave, a run starts *)
(* at most one subprocess ("runs cannot be replayed in place"), bound to   *)
(* what a person approved; every promoted result cites the manifest of     *)
(* that execution, which succeeded and which a person verified.  And it    *)
(* runs with nothing else than that, unless a file or the interpreter was  *)
(* changed between the comparison with the plan and the start: the copies  *)
(* are not hashed again.                                                   *)
ComputeAsApproved ==
  /\ \A x \in Runs :
       /\ Len(started[x]) <= 1
       /\ \A i \in DOMAIN started[x] : started[x][i] \in judged[x]
       /\ \A i \in DOMAIN results[x] :
            /\ results[x][i] = run[x].execution /\ results[x][i].outcome = "succeeded"
            /\ results[x][i].ver = started[x][1] /\ "verified" \in judged[x]
  /\ \A c \in Callers : call[c].step = "running" /\ since[c] = {call[c].ver} =>
       copies[call[c].run] = {call[c].ver}
=============================================================================
