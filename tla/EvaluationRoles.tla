---------------------------- MODULE EvaluationRoles ----------------------------
(***************************************************************************)
(* What the six roles of an evaluation arm are given and what may come     *)
(* back: an author writes a paper, two reviewers report on it, each        *)
(* followed by a revision, and a final role judges the result.  Arm B1     *)
(* also asks for records: the issues of a review, an answer to each of     *)
(* them by the next author, and a verdict on each by the final role.  The  *)
(* coordinators (EvaluationPair, DesktopPilot) run one stage after the     *)
(* other; a return that does not fit its contract ends the arm.            *)
(*                                                                         *)
(* A paper stands for its text and its hash.                               *)
(***************************************************************************)
EXTENDS Naturals, Sequences, FiniteSetsExt

CONSTANTS
  Papers, Marked,    \* what authors write; those with unfinished references
  MaxIssues,         \* bound on the issues of a review
  MaxCorrections     \* bound on the corrections a role makes

ASSUME RoleAssumptions == Marked \subseteq Papers /\ MaxIssues \in Nat /\ MaxCorrections \in Nat

VARIABLES
  mechanism,  \* the arm
  prior,      \* the accepted results of its stages
  abandoned   \* a return was denied

rolevars == <<mechanism, prior, abandoned>>

Final == 6
Author(s) == s \in {1, 3, 5}   \* initial, revision1, revision2
Reviewing(s) == s \in {2, 4}
Original == "original"         \* the manuscript that came with the inputs
Issues == {2, 4} \X (1 .. MaxIssues)
Verdict == [issue : Issues, settled : BOOLEAN]

(* A correction: whether the packet of an earlier stage held the report of *)
(* another one.                                                            *)
Correction == [of : 1 .. 5, report : 1 .. 5, available : BOOLEAN]

RoleResult ==
  [paper : Papers \cup {Original}, before : Papers \cup {Original}, issues : SUBSET Issues,
   rows : SUBSET Verdict, vague : BOOLEAN, corrected : SUBSET (1 .. 5), eligible : BOOLEAN]

TypeOKRoles ==
  mechanism \in {"B0", "B1"} /\ prior \in Seq(RoleResult) /\ Len(prior) <= Final /\ abandoned \in BOOLEAN

RolesInit == mechanism \in {"B0", "B1"} /\ prior = <<>> /\ abandoned = FALSE

-----------------------------------------------------------------------------
(* role_packet.  A reviewer is given no other reviewer's report; revisions *)
(* and the final role get the manifests of the earlier packets too.        *)
Reports(s) == IF Reviewing(s) THEN {j \in 1 .. (s - 1) : Author(j)} ELSE 1 .. (s - 1)
Manifests(s) == IF s \in {3, 5, Final} THEN 1 .. (s - 1) ELSE {}

(* What a role must answer to: the review before it, or every issue.       *)
Raised(stages) == UNION {prior[j].issues : j \in stages}

Due_LastOnly(s) == IF s = 1 THEN {} ELSE Raised({s - 1})

Due(s) == IF s = 1 THEN {} ELSE IF s = Final THEN Raised(1 .. (s - 1)) ELSE Raised({s - 1})

(* The paper a stage works on.                                             *)
Before(s) ==
  LET authors == {j \in 1 .. (s - 1) : Author(j)} IN
  IF authors = {} THEN Original
  ELSE prior[CHOOSE j \in authors : \A k \in authors : k <= j].paper

-----------------------------------------------------------------------------
(* What an agent may return, good or bad: rows that answer issues, and     *)
(* corrections of what authors said.  A reviewer's own doubtful wording is *)
(* left out: only its own stage would show it.                             *)
Answers == SUBSET Verdict
Handled == {rows \in Answers : \A row \in rows : row.settled}

Corrections ==
  {{}} \cup {{listed[i] : i \in 1 .. MaxCorrections} :
             listed \in [1 .. MaxCorrections -> [of : {1, 3, 5}, report : {1, 2}, available : BOOLEAN]]}

Structured == mechanism = "B1"

RoleTexts(s) ==
  CASE Author(s) ->
         [paper : Papers, cites : {Original}, issues : {{}},
          rows : IF Structured THEN Handled ELSE {{}}, vague : BOOLEAN, corrections : Corrections]
    [] Reviewing(s) ->
         [paper : {Original}, cites : {Original, Before(s)} \cup Papers,
          issues : IF Structured THEN SUBSET Issues ELSE {{}}, rows : {{}}, vague : {FALSE},
          corrections : Corrections]
    [] OTHER ->
         [paper : {Original}, cites : {Original}, issues : {{}},
          rows : IF Structured THEN Answers ELSE {{}}, vague : BOOLEAN, corrections : Corrections]

(* role_result.  Issues are numbered in order and cite what the packet     *)
(* holds; records answer what is due, each once; what a role says of a packet *)
(* must be so.                                                             *)
IssuesFit(s, text) ==
  \E n \in 0 .. MaxIssues : /\ text.issues = {<<s, i>> : i \in 1 .. n}
                            /\ n > 0 => text.cites \in {Original, Before(s)}

RowsFit(s, text) ==
  LET answered == {row.issue : row \in text.rows} IN
  answered = Due(s) /\ Cardinality(text.rows) = Cardinality(answered)

CorrectionsFit(s, text) ==
  \A row \in text.corrections :
    row.of \in Manifests(s) /\ (row.available <=> row.report \in Reports(row.of))

Fitting(s, text) ==
  /\ Structured => IF Reviewing(s) THEN IssuesFit(s, text) ELSE RowsFit(s, text)
  /\ CorrectionsFit(s, text)

(* Wording that may call evidence missing stands as a flag, unless the     *)
(* role corrects it: its own by a cue beside it, an author's by any        *)
(* correction of that author's packet.                                     *)
Flags(s, text, cue) ==
  LET corrected == {row.of : row \in text.corrections} IN
  \/ text.vague /\ ~(cue /\ text.corrections # {})
  \/ s = Final /\ \E j \in 1 .. (s - 1) : Author(j) /\ prior[j].vague /\ j \notin corrected

Paper(s, text) == IF Author(s) THEN text.paper ELSE Before(s)

Eligible(s, text, cue) ==
  /\ Paper(s, text) \notin (IF Reviewing(s) THEN {} ELSE Marked)
  /\ ~Flags(s, text, cue)
  /\ s = Final => \A row \in text.rows : row.settled

(* The packets corrected; what an author corrects only clears its own.     *)
Corrected(s, text) == IF s = Final THEN {row.of : row \in text.corrections} ELSE {}

Accept(text, cue) ==
  LET s == Len(prior) + 1 IN
  /\ ~abandoned /\ Fitting(s, text)
  /\ prior' = Append(prior,
       [paper |-> Paper(s, text), before |-> Before(s), issues |-> text.issues, rows |-> text.rows,
        vague |-> text.vague, corrected |-> Corrected(s, text),
        eligible |-> Eligible(s, text, cue)])
  /\ UNCHANGED <<mechanism, abandoned>>

(* A denied return ends the arm.                                           *)
Deny ==
  /\ ~abandoned /\ \E text \in RoleTexts(Len(prior) + 1) : ~Fitting(Len(prior) + 1, text)
  /\ abandoned' = TRUE
  /\ UNCHANGED <<mechanism, prior>>

RolesNext ==
  /\ Len(prior) < Final
  /\ \/ \E text \in RoleTexts(Len(prior) + 1) :
          \E cue \in IF text.vague THEN BOOLEAN ELSE {FALSE} : Accept(text, cue)
     \/ Deny

RolesSpec == RolesInit /\ [][RolesNext]_rolevars

-----------------------------------------------------------------------------
(* An arm whose final result is eligible for release left nothing open:    *)
(* every issue a reviewer raised was answered by the very next revision,   *)
(* for the paper the reviewer saw, and settled by the final role; the      *)
(* paper it ends with has no unfinished references; and every author's     *)
(* doubtful word about the evidence is corrected.                          *)
FollowedUp ==
  Len(prior) = Final /\ prior[Final].eligible =>
    /\ prior[5].paper \notin Marked
    /\ \A s \in {2, 4} : \A issue \in prior[s].issues :
         /\ \E row \in prior[s + 1].rows : row.issue = issue
         /\ prior[s + 1].before = prior[s].paper
         /\ [issue |-> issue, settled |-> TRUE] \in prior[Final].rows
    /\ \A s \in {1, 3, 5} : prior[s].vague => s \in prior[Final].corrected
=============================================================================
