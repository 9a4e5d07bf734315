---------------------------- MODULE DesktopPilot ----------------------------
(***************************************************************************)
(* The file-backed coordinator of the desktop pilot.  A custodian calls    *)
(* prepare before it spawns the agent of a stage, attach after it has seen *)
(* it, and accept when it has finished; every call holds a lock file, may  *)
(* fail at any write and may be killed, which leaves the lock behind.      *)
(* Files are only ever created.  The exception is a submission, which its  *)
(* agent may write again whenever it likes, accepted or not.               *)
(*                                                                         *)
(* Receipts are hash-chained and never rewritten, so the number of the     *)
(* last one stands for the hash a coordinator expects.                     *)
(***************************************************************************)
EXTENDS Naturals

CONSTANTS
  Coordinators,  \* instances of DesktopWorkflow
  PerArm,        \* stages of an arm, twelve in all
  Gradings,      \* two
  Good, Bad      \* submissions that fit their contract, and that do not

NoOwner == "nobody"
Nothing == "nothing"
Submission == Good \cup Bad

ASSUME PilotAssumptions ==
  /\ PerArm \in Nat \ {0} /\ Gradings \in Nat
  /\ NoOwner \notin Coordinators /\ Good \cap Bad = {} /\ Nothing \notin Submission

VARIABLES
  lockfile,    \* who created coordinator.lock
  stage,       \* stage -> the files of its directory
  stopped,     \* stopped.json exists
  coordinator, \* instance -> its tip, its call and what that has read
  anchor,      \* the tip the custodian was told last
  spawned      \* history: stage -> spawn requests handed to the custodian

deskvars == <<lockfile, stage, stopped, coordinator, anchor, spawned>>

LastStage == 2 * PerArm + Gradings
StageId == 1 .. LastStage
Arm(i) == IF i <= PerArm THEN "B0" ELSE IF i <= 2 * PerArm THEN "B1" ELSE "grading"

Result == Submission \cup {Nothing}

NoStage == [made |-> FALSE, packet |-> [j \in StageId |-> Nothing], dispatched |-> FALSE,
            identity |-> FALSE, submission |-> Nothing, raw |-> Nothing, accepted |-> Nothing,
            receipt |-> Nothing]
Resting == [at |-> "rest", tip |-> 0, index |-> 0, raw |-> Nothing]

TypeOKPilot ==
  /\ lockfile \in Coordinators \cup {NoOwner} /\ stopped \in BOOLEAN /\ anchor \in 0 .. LastStage
  /\ stage \in [StageId -> [made : BOOLEAN, packet : [StageId -> Result], dispatched : BOOLEAN,
                            identity : BOOLEAN, submission : Result, raw : Result,
                            accepted : Result, receipt : Result]]
  /\ coordinator \in [Coordinators ->
       [at : {"rest", "gone", "prepare", "dispatch", "spawn", "attach", "accept", "capture",
              "promote", "seal", "told", "stop", "done"},
        tip : 0 .. LastStage, index : 0 .. (LastStage + 1), raw : Result]]
  /\ spawned \in [StageId -> Nat]

PilotInit ==
  /\ lockfile = NoOwner /\ stage = [i \in StageId |-> NoStage] /\ stopped = FALSE
  /\ coordinator = [c \in Coordinators |-> Resting] /\ anchor = 0
  /\ spawned = [i \in StageId |-> 0]

-----------------------------------------------------------------------------
Goes(c, to) == coordinator' = [coordinator EXCEPT ![c].at = to]

(* history(): every receipt up to the expected one, none after it, and the *)
(* files still those the receipts name.                                    *)
Receipted(i) == stage[i].receipt # Nothing

Intact(c) ==
  LET n == coordinator[c].tip IN
  /\ \A i \in StageId : i <= n => Receipted(i) /\ stage[i].receipt = stage[i].submission
  /\ n < LastStage => ~Receipted(n + 1)

(* What an arm sees of its own work and the gradings of both.              *)
Packet(i) ==
  [j \in StageId |-> IF j < i /\ Arm(i) \in {Arm(j), "grading"} /\ Arm(j) # "grading"
                     THEN stage[j].accepted ELSE Nothing]

Call(c, op) ==
  /\ coordinator[c].at = "rest" /\ lockfile = NoOwner /\ lockfile' = c
  /\ coordinator' = [coordinator EXCEPT ![c].at = op, ![c].index = coordinator[c].tip + 1]
  /\ UNCHANGED <<stage, stopped, anchor, spawned>>

(* A directory that exists was dispatched, or may have been.               *)
NotBegun_Undispatched(i) == ~stage[i].identity

NotBegun(i) == ~stage[i].made

MakeStage(c) ==
  LET i == coordinator[c].index IN
  /\ coordinator[c].at = "prepare" /\ Intact(c) /\ i <= LastStage /\ ~stopped /\ NotBegun(i)
  /\ stage' = [stage EXCEPT ![i].made = TRUE] /\ Goes(c, "dispatch")
  /\ UNCHANGED <<lockfile, stopped, anchor, spawned>>

Dispatch(c) ==
  LET i == coordinator[c].index IN
  /\ coordinator[c].at = "dispatch"
  /\ stage' = [stage EXCEPT ![i].packet = Packet(i), ![i].dispatched = TRUE]
  /\ Goes(c, "spawn") /\ UNCHANGED <<lockfile, stopped, anchor, spawned>>

Spawn(c) ==
  /\ coordinator[c].at = "spawn"
  /\ spawned' = [spawned EXCEPT ![coordinator[c].index] = @ + 1]
  /\ Goes(c, "rest") /\ lockfile' = NoOwner /\ UNCHANGED <<stage, stopped, anchor>>

(* The custodian names the dispatch it was told of.                        *)
Attach(c) ==
  LET i == coordinator[c].index IN
  /\ coordinator[c].at = "attach" /\ Intact(c) /\ i <= LastStage
  /\ spawned[i] > 0 /\ stage[i].dispatched /\ ~stage[i].identity
  /\ stage' = [stage EXCEPT ![i].identity = TRUE] /\ Goes(c, "done")
  /\ UNCHANGED <<lockfile, stopped, anchor, spawned>>

Submit(i, text) ==
  /\ spawned[i] > 0 /\ stage[i].submission # text
  /\ stage' = [stage EXCEPT ![i].submission = text]
  /\ UNCHANGED <<lockfile, stopped, coordinator, anchor, spawned>>

Capture(c) ==
  LET i == coordinator[c].index IN
  /\ coordinator[c].at = "accept" /\ Intact(c) /\ i <= LastStage /\ ~stopped
  /\ stage[i].identity /\ stage[i].submission # Nothing /\ stage[i].raw = Nothing
  /\ coordinator' = [coordinator EXCEPT ![c].at = "capture", ![c].raw = stage[i].submission]
  /\ stage' = [stage EXCEPT ![i].raw = stage[i].submission]
  /\ UNCHANGED <<lockfile, stopped, anchor, spawned>>

(* role_result, or the shape of a grading.                                 *)
Fits(c) == coordinator[c].raw \in Good

Unmoved(c) == stage[coordinator[c].index].submission = coordinator[c].raw

AcceptText(c) ==
  LET i == coordinator[c].index IN
  /\ coordinator[c].at = "capture"
  /\ IF Fits(c) /\ Intact(c) /\ Unmoved(c)
     THEN stage' = [stage EXCEPT ![i].accepted = coordinator[c].raw] /\ Goes(c, "seal")
     ELSE Goes(c, "stop") /\ UNCHANGED stage
  /\ UNCHANGED <<lockfile, stopped, anchor, spawned>>

(* The files are hashed for the receipt and compared with what was checked.*)
Sealed_Unchecked(c) == TRUE

Sealed(c) ==
  LET i == coordinator[c].index IN
  /\ Unmoved(c) /\ stage[i].raw = coordinator[c].raw /\ stage[i].accepted = coordinator[c].raw

Seal(c) ==
  LET i == coordinator[c].index IN
  /\ coordinator[c].at = "seal"
  /\ IF Sealed(c)
     THEN stage' = [stage EXCEPT ![i].receipt = stage[i].submission] /\ Goes(c, "told")
     ELSE Goes(c, "stop") /\ UNCHANGED stage
  /\ UNCHANGED <<lockfile, stopped, anchor, spawned>>

Tell(c) ==
  /\ coordinator[c].at = "told"
  /\ coordinator' = [coordinator EXCEPT ![c] = [Resting EXCEPT !.tip = coordinator[c].index]]
  /\ anchor' = coordinator[c].index /\ lockfile' = NoOwner
  /\ UNCHANGED <<stage, stopped, spawned>>

(* Anything that goes wrong once the submission was captured stops the     *)
(* pilot; elsewhere the call is denied.                                    *)
Trying == {"capture", "seal", "told"}

Raise(c) ==
  /\ coordinator[c].at \notin {"rest", "gone", "stop", "done"}
  /\ Goes(c, IF coordinator[c].at \in Trying THEN "stop" ELSE "done")
  /\ UNCHANGED <<lockfile, stage, stopped, anchor, spawned>>

Stop(c) ==
  /\ coordinator[c].at = "stop" /\ Goes(c, "done")
  /\ stopped' \in {stopped, TRUE} /\ UNCHANGED <<lockfile, stage, anchor, spawned>>

Unlock(c) ==
  /\ coordinator[c].at = "done" /\ lockfile' = NoOwner
  /\ coordinator' = [coordinator EXCEPT ![c] = [Resting EXCEPT !.tip = coordinator[c].tip]]
  /\ UNCHANGED <<stage, stopped, anchor, spawned>>

-----------------------------------------------------------------------------
Kill(c) ==
  /\ coordinator[c].at # "gone"
  /\ coordinator' = [coordinator EXCEPT ![c] = [Resting EXCEPT !.at = "gone"]]
  /\ UNCHANGED <<lockfile, stage, stopped, anchor, spawned>>

(* The custodian: a lock is removed by hand once its owner is gone.        *)
RemoveLock ==
  /\ lockfile # NoOwner /\ coordinator[lockfile].at = "gone" /\ lockfile' = NoOwner
  /\ UNCHANGED <<stage, stopped, coordinator, anchor, spawned>>

Reopen(c) ==
  /\ coordinator[c].at = "gone" /\ lockfile # c
  /\ coordinator' = [coordinator EXCEPT ![c] = [Resting EXCEPT !.tip = anchor]]
  /\ UNCHANGED <<lockfile, stage, stopped, anchor, spawned>>

PilotNext ==
  \/ \E c \in Coordinators :
       \/ \E op \in {"prepare", "attach", "accept"} : Call(c, op)
       \/ MakeStage(c) \/ Dispatch(c) \/ Spawn(c) \/ Attach(c)
       \/ Capture(c) \/ AcceptText(c) \/ Seal(c) \/ Tell(c)
       \/ Raise(c) \/ Stop(c) \/ Unlock(c) \/ Kill(c) \/ Reopen(c)
  \/ \E i \in StageId, text \in Submission : Submit(i, text)
  \/ RemoveLock

PilotSpec == PilotInit /\ [][PilotNext]_deskvars

-----------------------------------------------------------------------------
(* Whichever calls fail, are killed or overlap, no stage is handed out for *)
(* spawning twice, and none before every earlier one has its receipt       *)
(* ("pending/ambiguous dispatch cannot be replayed").                      *)
SpawnedOnce ==
  \A i \in StageId : /\ spawned[i] <= 1
                     /\ spawned[i] > 0 => \A j \in 1 .. (i - 1) : Receipted(j)

(* A receipt vouches for one submission: what was retained, what was       *)
(* checked and what later stages were given is that very text, however     *)
(* often its agent rewrote the file meanwhile.                             *)
ReceiptsAgree ==
  \A i \in StageId : Receipted(i) =>
    /\ stage[i].receipt \in Good
    /\ stage[i].raw = stage[i].receipt /\ stage[i].accepted = stage[i].receipt
    /\ \A j \in StageId : stage[j].packet[i] \in {Nothing, stage[i].receipt}
=============================================================================
