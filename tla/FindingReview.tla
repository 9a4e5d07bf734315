----------------------------- MODULE FindingReview ----------------------------
(***************************************************************************)
(* Reviews of one finding of a research task, for several purposes, and    *)
(* its promotion to a research object.  Reviews of all purposes are one    *)
(* column, written whole; the task's revision is compared and set by every *)
(* review, promotion and continuation, but by no worker, whose reports may *)
(* still arrive when the task has ended.                                   *)
(*                                                                         *)
(* A hash is what it was computed from.                                    *)
(***************************************************************************)
EXTENDS Naturals, Sequences, FiniteSets

CONSTANTS
  Reviewers,   \* concurrent requests
  Purposes,
  MaxReport,   \* bound: versions of the child's report
  MaxTurns     \* bound: how often the revision is set

ASSUME FindingAssumptions == MaxReport \in Nat /\ MaxTurns \in Nat

VARIABLES
  task,       \* the row: state, content, revision and reviews
  report,     \* the child's report
  reviewer,   \* request -> what it loaded and is about to write
  promoted,   \* the research objects made of the finding
  verdict     \* history: purpose -> the last review a request committed

fvars == <<task, report, reviewer, promoted, verdict>>

Hash == [content : 0 .. MaxTurns, report : 0 .. MaxReport]
NoReview == [hash |-> [content |-> 0, report |-> 0], decision |-> "none", promotion |-> FALSE]
ReviewRow == [hash : Hash, decision : {"none", "approved", "rejected"}, promotion : BOOLEAN]
TaskRow == [ended : BOOLEAN, content : 0 .. MaxTurns, revision : 0 .. MaxTurns,
            reviews : [Purposes -> ReviewRow]]
FirstRow == [ended |-> FALSE, content |-> 0, revision |-> 0,
             reviews |-> [p \in Purposes |-> NoReview]]
Away == [doing |-> "nothing", row |-> FirstRow, purpose |-> "none", write |-> NoReview,
         saw |-> 0]

TypeOKFinding ==
  /\ task \in TaskRow /\ report \in 0 .. MaxReport
  /\ reviewer \in [Reviewers -> [doing : {"nothing", "reading", "review", "promote"}, row : TaskRow,
                                 purpose : Purposes \cup {"none"}, write : ReviewRow,
                                 saw : 0 .. MaxReport]]
  /\ promoted \in Seq([purpose : Purposes, report : 0 .. MaxReport])
  /\ verdict \in [Purposes -> ReviewRow]

FindingInit ==
  /\ task = FirstRow /\ report = 0
  /\ reviewer = [r \in Reviewers |-> Away]
  /\ promoted = <<>> /\ verdict = [p \in Purposes |-> NoReview]

-----------------------------------------------------------------------------
(* The worker: a report arrives, at any time; the task ends.               *)
ReportArrives ==
  /\ report < MaxReport /\ report' = report + 1
  /\ UNCHANGED <<task, reviewer, promoted, verdict>>

TaskEnds ==
  /\ ~task.ended /\ task' = [task EXCEPT !.ended = TRUE]
  /\ UNCHANGED <<report, reviewer, promoted, verdict>>

(* A continuation runs the task again; what it makes is other content.     *)
TaskContinues ==
  /\ task.ended /\ task.revision < MaxTurns
  /\ task' = [task EXCEPT !.ended = FALSE, !.content = @ + 1, !.revision = @ + 1]
  /\ UNCHANGED <<report, reviewer, promoted, verdict>>

LoadTask(r) ==
  /\ reviewer[r] = Away
  /\ reviewer' = [reviewer EXCEPT ![r] = [Away EXCEPT !.doing = "reading", !.row = task]]
  /\ UNCHANGED <<task, report, promoted, verdict>>

(* review_hash: of the row as it was loaded and the report as it is now,   *)
(* which is what the reviewer must have seen.                              *)
HashOf(r) == [content |-> reviewer[r].row.content, report |-> report]

Decides(r, does, p, review) ==
  /\ reviewer[r].doing = "reading" /\ reviewer[r].row.ended
  /\ reviewer' = [reviewer EXCEPT ![r].doing = does, ![r].purpose = p,
                                   ![r].write = review, ![r].saw = report]
  /\ UNCHANGED <<task, report, promoted, verdict>>

ReviewFinding(r, p, decision) ==
  /\ ~reviewer[r].row.reviews[p].promotion
  /\ Decides(r, "review", p, [hash |-> HashOf(r), decision |-> decision, promotion |-> FALSE])

Approved_AnyHash(r, p) == reviewer[r].row.reviews[p].decision = "approved"

Approved(r, p) == /\ reviewer[r].row.reviews[p].decision = "approved"
                  /\ reviewer[r].row.reviews[p].hash = HashOf(r)

PromoteFinding(r, p) ==
  /\ Approved(r, p) /\ ~reviewer[r].row.reviews[p].promotion
  /\ Decides(r, "promote", p, [reviewer[r].row.reviews[p] EXCEPT !.promotion = TRUE])

(* lock_revision, and the columns written with it.                         *)
Unchanged_Unasked(r) == TRUE

Unchanged(r) == task.revision = reviewer[r].row.revision

(* A promotion adds the finding to the project, with the report behind it, *)
(* and its claim and section to the manuscript, all in one transaction.    *)
Promoted(now) ==
  IF now.doing = "promote"
  THEN Append(promoted, [purpose |-> now.purpose, report |-> now.saw])
  ELSE promoted

CommitFinding(r) ==
  LET now == reviewer[r]  p == now.purpose IN
  /\ now.doing \in {"review", "promote"} /\ Unchanged(r) /\ task.revision < MaxTurns
  /\ task' = [task EXCEPT !.revision = @ + 1, !.reviews = [now.row.reviews EXCEPT ![p] = now.write]]
  /\ promoted' = Promoted(now)
  /\ verdict' = [verdict EXCEPT ![p] = now.write]
  /\ reviewer' = [reviewer EXCEPT ![r] = Away] /\ UNCHANGED report

Refuse(r) ==
  /\ reviewer[r] # Away /\ reviewer' = [reviewer EXCEPT ![r] = Away]
  /\ UNCHANGED <<task, report, promoted, verdict>>

FindingNext ==
  \/ \E r \in Reviewers :
       \/ LoadTask(r) \/ CommitFinding(r) \/ Refuse(r)
       \/ \E p \in Purposes :
            \/ PromoteFinding(r, p)
            \/ \E decision \in {"approved", "rejected"} : ReviewFinding(r, p, decision)
  \/ ReportArrives \/ TaskEnds \/ TaskContinues

FindingSpec == FindingInit /\ [][FindingNext]_fvars

-----------------------------------------------------------------------------
(* No committed review is lost to another one for another purpose that was *)
(* decided on an older row, though all are written as one column           *)
(* ("prevents duplicate promotions and lost concurrent reviews").          *)
ReviewsKept == task.reviews = verdict

(* A finding is promoted at most once for a purpose, with the very report  *)
(* a person approved for it, and that review stands from then on ("already *)
(* promoted; existing review and provenance are immutable").               *)
PromotedAsApproved ==
  /\ \A i, j \in DOMAIN promoted : promoted[i].purpose = promoted[j].purpose => i = j
  /\ \A i \in DOMAIN promoted :
       LET review == task.reviews[promoted[i].purpose] IN
       /\ review.promotion /\ review.decision = "approved"
       /\ review.hash.report = promoted[i].report
=============================================================================
