-------------------------- MODULE SpecialistCampaign --------------------------
(***************************************************************************)
(* The production of one manuscript: an author drafts, one reviewer per    *)
(* role reports on each draft, objections become comments, the author      *)
(* revises and answers them, and the same roles judge the answers.  The    *)
(* runner may stop or crash anywhere; an operator continues from what was  *)
(* committed, admits a text prepared elsewhere, and people edit the        *)
(* manuscript meanwhile.  Budgets and deadlines are one way to stop.       *)
(*                                                                         *)
(* A candidate hash is the version of the manuscript and its evidence: a   *)
(* hash of content, so that undoing an edit brings an earlier one back.    *)
(* What an author drafts is taken to be new text.                          *)
(***************************************************************************)
EXTENDS Naturals, Sequences, FiniteSets

CONSTANTS
  RoleCount,  \* specialist roles; four in the code
  Slots,      \* workers at once; three in the code
  MaxCycles,  \* bound on max_revision_cycles; two in the code
  MaxDrafts, MaxRuns, MaxEdits   \* bounds

ASSUME CampaignAssumptions ==
  /\ RoleCount \in Nat \ {0} /\ Slots \in Nat \ {0}
  /\ MaxCycles \in Nat /\ MaxDrafts \in Nat /\ MaxRuns \in Nat /\ MaxEdits \in Nat

VARIABLES
  editorial,  \* whether the quality policy asks for an editorial closure
  version,    \* the manuscript's version
  versions,   \* versions given so far
  drafts,     \* the accepted candidates: version, and the author's return
  returns,    \* the author's retained returns of a revision
  reports,    \* the accepted specialist reports, in order
  retained,   \* role -> the last return of the current draft's reviewer
  comments,   \* draft -> role -> the objection it raised
  status,     \* the campaign's
  closure,    \* phase -> its one call, and what it recorded
  repaired,   \* a draft was made for the editorial preflight
  integrated, \* the parent's final summary was received
  runner,     \* the running worker thread
  worker,     \* role -> its reviewer in this run
  runs,       \* runs so far
  judged,     \* history: role -> the last accepted judgement
  raised,     \* history: draft and role of every blocking report accepted
  answers     \* history: the texts each comment was answered on since the last draft

durable == <<editorial, version, versions, drafts, returns, reports, retained, comments, status,
           closure, repaired, integrated>>
campvars == <<durable, runner, worker, runs, judged, raised, answers>>

Role == 1 .. RoleCount
Ver == 0 .. (MaxDrafts + MaxEdits)
Draft == 1 .. MaxDrafts
Report == [is : {"report"}, blocks : BOOLEAN, closes : BOOLEAN]
Return == [is : {"none", "malformed", "report"}, blocks : BOOLEAN, closes : BOOLEAN]
Bad == [is |-> "malformed", blocks |-> FALSE, closes |-> FALSE]
Nothing == [is |-> "none", blocks |-> FALSE, closes |-> FALSE]
NoComment == [open |-> FALSE, answered |-> 0, closed |-> 0]
OffWork == [at |-> "idle", tries |-> 0]
Stopped == [pc |-> "off", cycles |-> 0, left |-> 0, attempt |-> 0, revising |-> FALSE,
            good |-> FALSE, again |-> FALSE, skips |-> FALSE]

TypeOKCampaign ==
  /\ editorial \in BOOLEAN /\ version \in Ver /\ versions \in Ver
  /\ drafts \in Seq([ver : Ver, from : Nat, local : BOOLEAN])
  /\ returns \in Seq([run : Nat, seen : Nat, good : BOOLEAN])
  /\ reports \in Seq([role : Role, draft : Draft, blocks : BOOLEAN])
  /\ retained \in [Role -> Return]
  /\ comments \in [Draft -> [Role -> [open : BOOLEAN, answered : Ver, closed : Ver]]]
  /\ status \in {"pending", "draft_produced", "needs_revision", "agent_checks_complete"}
  /\ closure \in [{"preflight", "confirmation"} ->
                    [calls : {0, 1}, ver : Ver, result : {"none", "passed", "needs_revision", "invalid"}]]
  /\ repaired \in BOOLEAN /\ integrated \in BOOLEAN /\ runs \in 0 .. MaxRuns
  /\ runner \in [pc : {"off", "resume", "restore", "recover", "author", "apply", "respond", "repaired", "preflight",
                       "called", "wave", "reviews", "confirmation", "confirm", "refused",
                       "integrate"},
                 cycles : 0 .. MaxCycles, left : 0 .. MaxCycles, attempt : {0, 1},
                 revising : BOOLEAN, good : BOOLEAN, again : BOOLEAN, skips : BOOLEAN]
  /\ worker \in [Role -> [at : {"idle", "accepted", "replay", "deferred", "asked", "back", "fix",
                                "replayed", "failed"}, tries : {0, 1}]]
  /\ judged \in [Role -> [ver : Ver, blocks : BOOLEAN]]
  /\ raised \subseteq Draft \X Role /\ answers \in [Draft \X Role -> Seq(Ver)]

NoClosure == [p \in {"preflight", "confirmation"} |-> [calls |-> 0, ver |-> 0, result |-> "none"]]

CampaignInit ==
  /\ editorial \in BOOLEAN /\ version = 0 /\ versions = 0
  /\ drafts = <<>> /\ returns = <<>> /\ reports = <<>>
  /\ retained = [r \in Role |-> Nothing]
  /\ comments = [d \in Draft |-> [r \in Role |-> NoComment]]
  /\ status = "pending" /\ closure = NoClosure /\ repaired = FALSE /\ integrated = FALSE
  /\ runner = Stopped /\ worker = [r \in Role |-> OffWork] /\ runs = 0
  /\ judged = [r \in Role |-> [ver |-> 0, blocks |-> TRUE]]
  /\ raised = {} /\ answers = [c \in Draft \X Role |-> <<>>]

-----------------------------------------------------------------------------
latest == Len(drafts)
Digest == drafts[latest].ver   \* the candidate hash of the last accepted draft
Asked == {c \in Draft \X Role : comments[c[1]][c[2]].open}   \* _prior
Of(c) == comments[c[1]][c[2]]
Accepted == {reports[i].role : i \in {j \in DOMAIN reports : reports[j].draft = latest}}
Blocking == {reports[i].role : i \in {j \in DOMAIN reports :
               reports[j].draft = latest /\ reports[j].blocks}}

(* dispositions: a verification counts for the text it was made on.        *)
Resolved(c) == Of(c).closed = version /\ Of(c).closed # 0

(* assessment: the last reports are one of each role, on this very text.   *)
LastReports == {reports[i] : i \in {j \in DOMAIN reports : j > Len(reports) - RoleCount}}

Current_AnyText(report) == TRUE

Current(report) == drafts[report.draft].ver = version

SpecialistsComplete ==
  /\ status = "agent_checks_complete" /\ drafts # <<>>
  /\ Len(reports) >= RoleCount /\ {report.role : report \in LastReports} = Role
  /\ \A report \in LastReports : Current(report) /\ ~report.blocks
  /\ \A c \in Asked : Resolved(c)

ClosureReady ==
  LET confirmation == closure["confirmation"] IN
  editorial => /\ closure["preflight"].result # "none" /\ confirmation.result = "passed"
               /\ confirmation.ver = version

ChecksComplete == SpecialistsComplete /\ ClosureReady

-----------------------------------------------------------------------------
Goes(pc) == runner' = [runner EXCEPT !.pc = pc]
At(pc) == runner.pc = pc
Rests == worker' = [r \in Role |-> OffWork]
ghosts == <<judged, raised, answers>>

(* A stop, a failure or a crash: what was not committed is gone.           *)
Halts == runner' = Stopped /\ Rests

Stop == ~At("off") /\ Halts /\ UNCHANGED <<durable, runs, ghosts>>

Begin ==
  /\ At("off") /\ runs = 0 /\ MaxRuns > 0 /\ runs' = 1
  /\ \E cycles \in 0 .. MaxCycles :
       runner' = [Stopped EXCEPT !.pc = "author", !.cycles = cycles, !.left = cycles]
  /\ UNCHANGED <<durable, worker, ghosts>>

(* The author answers, and its return is kept before anyone looks at it.   *)
AuthorReturns(good) ==
  /\ At("author") /\ runner' = [runner EXCEPT !.pc = "apply", !.good = good]
  /\ returns' = IF runner.revising
                THEN Append(returns, [run |-> runs, seen |-> Cardinality(Asked), good |-> good])
                ELSE returns
  /\ UNCHANGED <<editorial, version, versions, drafts, reports, retained, comments, status, closure,
                 repaired, integrated, worker, runs, ghosts>>

NewDraft(from, local) ==   \* apply_draft
  /\ latest < MaxDrafts
  /\ versions' = versions + 1 /\ version' = versions + 1
  /\ drafts' = Append(drafts, [ver |-> versions + 1, from |-> from, local |-> local])
  /\ status' = "draft_produced" /\ retained' = [r \in Role |-> Nothing]
  /\ answers' = [c \in Draft \X Role |-> <<>>]

ApplyDraft ==
  /\ At("apply") /\ runner.good /\ NewDraft(IF runner.revising THEN Len(returns) ELSE 0, FALSE)
  /\ Goes("respond")
  /\ UNCHANGED <<editorial, returns, reports, comments, closure, repaired, integrated, worker, runs,
                 judged, raised>>

RejectDraft ==   \* one correction
  /\ At("apply") /\ ~runner.good
  /\ IF runner.attempt = 0
     THEN runner' = [runner EXCEPT !.pc = "author", !.attempt = 1] /\ UNCHANGED worker
     ELSE Halts
  /\ UNCHANGED <<durable, runs, ghosts>>

(* _restore_responses: those already recorded for this text are left.      *)
Recorded_Never(c) == FALSE

Recorded(c) == Of(c).answered = Digest

Responded ==
  LET due == {c \in Asked : c[1] < latest /\ ~Recorded(c)} IN
  /\ comments' = [d \in Draft |-> [r \in Role |->
       IF <<d, r>> \in due THEN [open |-> TRUE, answered |-> version, closed |-> 0]
       ELSE comments[d][r]]]
  /\ answers' = [c \in Draft \X Role |-> IF c \in due THEN Append(answers[c], version) ELSE answers[c]]

Unrepaired == editorial /\ closure["preflight"].result = "needs_revision" /\ ~repaired

Respond ==
  /\ At("respond") /\ Responded
  /\ runner' = [runner EXCEPT !.attempt = 0, !.revising = FALSE,
                  !.pc = IF Unrepaired THEN "repaired" ELSE "preflight"]
  /\ UNCHANGED <<editorial, version, versions, drafts, returns, reports, retained, status, closure,
                 repaired, integrated, worker, runs, judged, raised>>

NoteRepair ==
  /\ At("repaired") /\ repaired' = TRUE /\ Goes("preflight")
  /\ UNCHANGED <<editorial, version, versions, drafts, returns, reports, retained, comments, status,
                 closure, integrated, worker, runs, ghosts>>

-----------------------------------------------------------------------------
(* _closure_phase: one call per phase, ever; an invalid return stays.      *)
CallFree_Unasked(p) == TRUE

CallFree(p) == closure[p].calls = 0

CallEditor(p, pc) ==
  /\ editorial /\ At(p) /\ closure[p].result = "none"
  /\ IF CallFree(p)
     THEN closure' = [closure EXCEPT ![p].calls = @ + 1] /\ Goes(pc) /\ UNCHANGED worker
     ELSE UNCHANGED closure /\ Halts
  /\ UNCHANGED <<editorial, version, versions, drafts, returns, reports, retained, comments, status,
                 repaired, integrated, runs, ghosts>>

(* evaluate: what the return may come to.                                  *)
Evaluates(p, result) == p = "confirmation" /\ result = "passed" => SpecialistsComplete

EditorReturns(p, pc, result) ==
  /\ At(pc) /\ Evaluates(p, result)
  /\ closure' = [closure EXCEPT ![p].result = result, ![p].ver = Digest]
  /\ IF result = "invalid" THEN Halts
     ELSE /\ UNCHANGED worker
          /\ Goes(IF p = "preflight" THEN p ELSE IF result = "passed" THEN "integrate" ELSE "refused")
  /\ UNCHANGED <<editorial, version, versions, drafts, returns, reports, retained, comments, status,
                 repaired, integrated, runs, ghosts>>

(* A preflight with findings is repaired once; a continuation of refused   *)
(* work revises it before it is reviewed again.                            *)
Revises == runner' = [runner EXCEPT !.pc = "author", !.revising = TRUE]

AfterPreflight ==
  /\ At("preflight") /\ (editorial => closure["preflight"].result \in {"passed", "needs_revision"})
  /\ IF Unrepaired
     THEN \/ Halts
          \/ ~drafts[latest].local /\ runner.cycles > 0 /\ Revises /\ UNCHANGED worker
     ELSE /\ runner' = IF runner.skips
                      THEN [runner EXCEPT !.pc = "author", !.revising = TRUE, !.skips = FALSE,
                                          !.left = @ - 1, !.again = TRUE]
                      ELSE [runner EXCEPT !.pc = IF status # "agent_checks_complete" THEN "wave"
                                                 ELSE IF editorial THEN "confirmation"
                                                 ELSE "integrate"]
          /\ UNCHANGED worker
  /\ UNCHANGED <<durable, runs, ghosts>>

SavedConfirmation ==
  /\ At("confirmation") /\ closure["confirmation"].result # "none" /\ ChecksComplete
  /\ Goes("integrate") /\ UNCHANGED <<durable, worker, runs, ghosts>>

RefusedConfirmation ==
  /\ At("refused") /\ status' = "needs_revision" /\ Halts
  /\ UNCHANGED <<editorial, version, versions, drafts, returns, reports, retained, comments, closure,
                 repaired, integrated, runs, ghosts>>

-----------------------------------------------------------------------------
(* _audit_wave: accepted reports are kept, retained returns replayed, and  *)
(* the other roles asked, as many at once as there are slots.              *)
Missing == {r \in Role : r \notin Accepted /\ retained[r] = Nothing}
First(roles, n) == {r \in roles : Cardinality({q \in roles : q < r}) < n}

BeginWave ==
  /\ At("wave") /\ Goes("reviews")
  /\ worker' = [r \in Role |->
       [at |-> IF r \in Accepted THEN "accepted"
               ELSE IF r \notin Missing THEN "replay"
               ELSE IF r \in First(Missing, Slots) THEN "asked" ELSE "deferred", tries |-> 0]]
  /\ UNCHANGED <<durable, runs, ghosts>>

In(states) == {r \in Role : worker[r].at \in states}
Pending == In({"asked", "back", "replay"})
Rejected == In({"failed"}) # {}
Puts(r, at) == worker' = [worker EXCEPT ![r].at = at]

ReviewerReturns(r, report) ==
  /\ At("reviews") /\ worker[r].at = "asked"
  /\ retained' = [retained EXCEPT ![r] = report] /\ Puts(r, "back")
  /\ UNCHANGED <<editorial, version, versions, drafts, returns, reports, comments, status, closure,
                 repaired, integrated, runner, runs, ghosts>>

ReviewerFails(r) ==
  /\ At("reviews") /\ worker[r].at = "asked" /\ Puts(r, "failed")
  /\ UNCHANGED <<durable, runner, runs, ghosts>>

(* validate_report: a defect is corrected once, by a live worker.          *)
RefuseReport(r) ==
  /\ At("reviews") /\ worker[r].at \in {"back", "replay"} /\ retained[r] = Bad
  /\ Puts(r, IF worker[r].tries > 0 THEN "failed"
             ELSE IF worker[r].at = "back" THEN "fix" ELSE "replayed")
  /\ UNCHANGED <<durable, runner, runs, ghosts>>

Prior(r) == {c \in Asked : c[2] = r}

(* verify: of a comment that was answered for this text, on this text.     *)
Verifiable(r) == \A c \in Prior(r) : Of(c).answered = version /\ Digest = version

AcceptReport(r) ==
  LET report == retained[r] IN
  /\ At("reviews") /\ worker[r].at \in {"back", "replay"} /\ report \in Report
  /\ IF Verifiable(r)
     THEN /\ reports' = Append(reports, [role |-> r, draft |-> latest, blocks |-> report.blocks])
          /\ comments' = [d \in Draft |-> [q \in Role |->
               IF <<d, q>> \in Prior(r)
               THEN [comments[d][q] EXCEPT !.closed = IF report.closes THEN version ELSE 0]
               ELSE comments[d][q]]]
          /\ judged' = [judged EXCEPT ![r] = [ver |-> Digest, blocks |-> report.blocks]]
          /\ raised' = IF report.blocks THEN raised \cup {<<latest, r>>} ELSE raised
          /\ Puts(r, "accepted") /\ UNCHANGED runner
     ELSE Halts /\ UNCHANGED <<reports, comments, judged, raised>>
  /\ UNCHANGED <<editorial, version, versions, drafts, returns, retained, status, closure, repaired,
                 integrated, runs, answers>>

SendCorrections ==
  /\ At("reviews") /\ ~Rejected /\ Pending = {} /\ In({"fix", "replayed"}) # {}
  /\ worker' = [r \in Role |-> IF worker[r].at \in {"fix", "replayed"}
                               THEN [at |-> "asked", tries |-> 1] ELSE worker[r]]
  /\ UNCHANGED <<durable, runner, runs, ghosts>>

SlotFree == /\ In({"fix", "replayed"}) = {} /\ Cardinality(Pending) < Slots
            /\ \A r \in Pending : worker[r].tries = 0

DispatchDeferred ==
  /\ At("reviews") /\ ~Rejected /\ SlotFree /\ In({"deferred"}) # {}
  /\ \E r \in First(In({"deferred"}), 1) : Puts(r, "asked")
  /\ UNCHANGED <<durable, runner, runs, ghosts>>

EndWave ==
  LET done == Blocking = {} /\ \A c \in Asked : Resolved(c) IN
  /\ At("reviews") /\ In({"accepted"}) = Role
  /\ comments' = [comments EXCEPT ![latest] = [r \in Role |->
       IF r \in Blocking THEN [open |-> TRUE, answered |-> 0, closed |-> 0] ELSE @[r]]]
  /\ status' = IF done THEN "agent_checks_complete" ELSE "needs_revision"
  /\ IF done
     THEN Goes(IF editorial THEN "confirmation" ELSE "integrate") /\ UNCHANGED worker
     ELSE \/ (runner.left = 0 \/ runner.again) /\ Halts
          \/ /\ runner.left > 0
             /\ runner' = [runner EXCEPT !.pc = "author", !.revising = TRUE, !.left = @ - 1,
                                         !.again = TRUE]
             /\ Rests
  /\ UNCHANGED <<editorial, version, versions, drafts, returns, reports, retained, closure, repaired,
                 integrated, runs, ghosts>>

IntegrateReviews ==   \* without enough tokens the run ends before
  /\ At("integrate") /\ integrated' = TRUE /\ Halts
  /\ UNCHANGED <<editorial, version, versions, drafts, returns, reports, retained, comments, status,
                 closure, repaired, runs, ghosts>>

-----------------------------------------------------------------------------
(* recoverable_return: of the latest run that has one, the first retained  *)
(* revision that is not the last draft.                                    *)
Others == {i \in DOMAIN returns : i # drafts[latest].from}
Recoverable ==
  {i \in Others : \A j \in Others : \/ returns[j].run < returns[i].run
                                    \/ returns[j].run = returns[i].run /\ i <= j}

(* checkpoint.                                                             *)
Checkpoint ==
  /\ drafts # <<>> /\ version = Digest
  /\ Cardinality(Accepted) =
       Cardinality({i \in DOMAIN reports : reports[i].draft = latest})
  /\ status = "agent_checks_complete" => SpecialistsComplete /\ ~integrated

Continue(cycles) ==
  /\ At("off") /\ Checkpoint /\ runs < MaxRuns /\ runs' = runs + 1
  /\ drafts[latest].local => cycles = 0
  /\ status = "needs_revision" => cycles > 0
  /\ runner' = [Stopped EXCEPT !.pc = "resume", !.cycles = cycles, !.left = cycles]
  /\ integrated' = FALSE
  /\ UNCHANGED <<editorial, version, versions, drafts, returns, reports, retained, comments, status,
                 closure, repaired, worker, ghosts>>

(* execute, of a continuation: the work saved is looked at again, and      *)
(* after a commit the answers of the last draft are completed, on the text *)
(* there is by then.                                                       *)
Resume ==
  /\ At("resume")
  /\ IF Checkpoint THEN Goes("restore") /\ UNCHANGED worker ELSE Halts
  /\ UNCHANGED <<durable, runs, ghosts>>

Corrects == status = "needs_revision" /\ Recoverable # {}   \* the stage "correct"

RestoreResponses ==
  /\ At("restore") /\ Responded
  /\ runner' = IF Corrects THEN [runner EXCEPT !.pc = "recover"]
               ELSE [runner EXCEPT !.pc = "preflight", !.skips = (status = "needs_revision")]
  /\ UNCHANGED <<editorial, version, versions, drafts, returns, reports, retained, status, closure,
                 repaired, integrated, worker, runs, judged, raised>>

(* A retained return is applied, or corrected by the author; no cycle is   *)
(* left after it.                                                          *)
Recover ==
  /\ At("recover")
  /\ \E i \in Recoverable :
       IF returns[i].good /\ returns[i].seen = Cardinality(Asked)
       THEN /\ NewDraft(i, FALSE) /\ runner' = [runner EXCEPT !.pc = "respond", !.left = 0]
       ELSE /\ runner' = [runner EXCEPT !.pc = "author", !.revising = TRUE, !.attempt = 1, !.left = 0]
            /\ UNCHANGED <<version, versions, drafts, status, retained, answers>>
  /\ UNCHANGED <<editorial, returns, reports, comments, closure, repaired, integrated, worker, runs,
                 judged, raised>>

(* admit: a text prepared elsewhere, with its answers, in one transaction. *)
AdmitLocal ==
  /\ At("off") /\ Checkpoint /\ latest < MaxDrafts
  /\ versions' = versions + 1 /\ version' = versions + 1
  /\ drafts' = Append(drafts, [ver |-> versions + 1, from |-> 0, local |-> TRUE])
  /\ status' = "draft_produced" /\ retained' = [r \in Role |-> Nothing]
  /\ comments' = [d \in Draft |-> [r \in Role |->
       IF comments[d][r].open THEN [open |-> TRUE, answered |-> versions + 1, closed |-> 0]
       ELSE comments[d][r]]]
  /\ answers' = [c \in Draft \X Role |-> IF c \in Asked THEN <<versions + 1>> ELSE <<>>]
  /\ closure' = NoClosure /\ repaired' = FALSE /\ integrated' = FALSE
  /\ UNCHANGED <<editorial, returns, reports, runner, worker, runs, judged, raised>>

(* People edit the manuscript, or its evidence changes, to something new;  *)
(* or they go back from there to any text since the first draft.  MaxEdits *)
(* counts both, as going back needs an edit to go back from.               *)
EditOutside ==
  /\ drafts # <<>>
  /\ \/ /\ versions < MaxDrafts + MaxEdits - (MaxDrafts - latest)
        /\ versions' = versions + 1 /\ version' = versions + 1
     \/ /\ version = versions /\ version \notin {drafts[d].ver : d \in DOMAIN drafts}
        /\ version' \in 1 .. versions - 1 /\ UNCHANGED versions
  /\ UNCHANGED <<editorial, drafts, returns, reports, retained, comments, status, closure, repaired,
                 integrated, runner, worker, runs, ghosts>>

CampaignNext ==
  \/ Begin \/ Stop \/ ApplyDraft \/ RejectDraft \/ Respond \/ NoteRepair
  \/ AfterPreflight \/ SavedConfirmation \/ RefusedConfirmation
  \/ BeginWave \/ SendCorrections \/ DispatchDeferred \/ EndWave
  \/ IntegrateReviews \/ Resume \/ RestoreResponses \/ Recover \/ AdmitLocal \/ EditOutside
  \/ \E good \in BOOLEAN : AuthorReturns(good)
  \/ CallEditor("preflight", "called") \/ CallEditor("confirmation", "confirm")
  \/ \E result \in {"passed", "needs_revision", "invalid"} :
       \/ EditorReturns("preflight", "called", result)
       \/ EditorReturns("confirmation", "confirm", result)
  \/ \E r \in Role :
       \/ ReviewerFails(r) \/ RefuseReport(r) \/ AcceptReport(r)
       \/ \E report \in Report \cup {Bad} : ReviewerReturns(r, report)
  \/ \E cycles \in 0 .. MaxCycles : Continue(cycles)

CampaignSpec == CampaignInit /\ [][CampaignNext]_campvars

-----------------------------------------------------------------------------
(* Agent checks count as complete only if every role's last accepted       *)
(* report is on the very text the manuscript has now and raises nothing,   *)
(* and every objection any accepted report ever raised was answered and    *)
(* closed on that text, whatever was edited, revised, replayed or lost     *)
(* ("missing coverage, stale evidence, unresolved serious objections       *)
(* prevent review clearance").  Reports of a review that a local text cut  *)
(* short open no comments: all roles judge the new text afresh.            *)
CutShort(c) == c \notin Asked /\ drafts[c[1] + 1].local

ChecksSound ==
  ChecksComplete =>
    /\ \A r \in Role : judged[r] = [ver |-> version, blocks |-> FALSE]
    /\ \A c \in raised :
         CutShort(c) \/ (c \in Asked /\ Of(c).answered = version /\ Of(c).closed = version)

(* Once an objection is answered on the text of a draft it is not answered *)
(* again for that draft, and nobody judges answers before every objection  *)
(* has one, though a crash may fall between a draft and its answers and    *)
(* the text may be edited, and the edit undone, meanwhile.  An answer      *)
(* recorded on an edited text is repeated on the draft's when it is back.  *)
AnsweredOnce ==
  /\ \A c \in Draft \X Role : \A i \in DOMAIN answers[c] :
       answers[c][i] = Digest => i = Len(answers[c])
  /\ At("reviews") => \A c \in Asked : answers[c] # <<>>
=============================================================================
