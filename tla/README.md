# Paper Workbench: a verification project

Paper Workbench is a FastAPI application with which a researcher writes a
manuscript, delegates bounded research tasks to model workers, reviews what
comes back and promotes it into the paper. This directory holds TLA+ modules of
its protocols, TLC configurations that check them on small instances, and
proofs that TLAPS checks for every instance. Paths below are relative to
`src/src/workbench/`; `runner.py` stands for `services/research_runner.py`.

    cd tla
    tlc -workers 2 -config Lifecycle.cfg MCResearchTask
    tlc -workers 2 -config ReviewGates.cfg MCReviewGates
    tlapm ResearchTaskProofs.tla

1 Inventory, 2 Plan, 3 Models and code, 4 Runs, 5 Proofs, 6 What the code does
besides, 7 Not modelled.

## 1. Inventory

| Component | Source | Modelled in |
|---|---|---|
| Delegated research task lifecycle | `services/research_runner.py`, `research_tasks.py`, `research_api.py` | `ResearchTask`, `DurableTask` |
| Token and attempt ledger | `services/research_runner.py`, `research_recovery.py`, `completed_usage_reconciliation.py`, `providers/research_budget.py` | `BudgetLedger` |
| Continuation and recovery | `services/manuscript_continuation.py`, `research_recovery.py`, `completed_usage_reconciliation.py` | partly, in `ResearchTask`, `BudgetLedger`, `SpecialistCampaign` |
| Delegation plan and integration | `services/research_runner.py`, `research_contract.py` | `Delegation` |
| Finding review and promotion | `services/research_tasks.py`, `research_api.py` | `FindingReview` |
| Manuscript specialist campaign | `services/manuscript_quality_runner.py`, `manuscript_*.py`, `revision_review.py` | partly, `SpecialistCampaign`, `CampaignCapacity` |
| Dialogue and section revision | `services/dialogue.py`, `manuscript_chat.py` | partly, `DialogueActions`, `ApprovedAction` |
| Compute runs | `services/compute.py` | `ComputeRuns` |
| Submissions and usage ceiling | `services/submissions.py`, `usage.py` | partly, `Submissions` |
| Proposals, packages and authorship | `services/proposals.py`, `publication_packages.py`, `authorship.py` | partly, `Proposals`, `ProposalExports`, `PublicationPackages`, `Authorship` |
| Worker processes and transport | `providers/research_codex_worker.py`, `research_executor.py`, `codex_*.py` | partly, `CodexWorker` |
| Accounts and access | `auth.py`, `services/security.py` | partly, `Accounts`, `Access` |
| Project transfer and storage | `services/transfer.py`, `storage.py` | partly, `ProjectTransfer` |
| Sources and citation graph | `services/citation_graph.py`, `source_dedup.py`, `literature.py`, `research.py` | partly, `SourceGraph` |
| Evaluation pair and roles | `services/evaluation_*.py`, `providers/evaluation_*.py` | partly, `EvaluationPair`, `EvaluationRoles` |
| Desktop pilot | `services/evaluation_desktop_workflow.py` | partly, `DesktopPilot` |
| Export, figures, retrieval and text checks | `services/export_service.py`, `figures.py`, ... | not modelled |
| HTTP application and web client | `main.py`, `web/static/app.js` | not modelled |

### Delegated research task lifecycle

*State.* One database row per task (`models.ResearchTask`): `state`, `revision`,
`cancel_requested`, `started_at` and a JSON `ledger` that is always written
whole. In each process, `_jobs`: task id -> (cancel event, thread). In each
worker thread, a `Runner` with a SQLAlchemy session (`expire_on_commit=False`),
so a copy of the row that ages until it is refreshed.

*Operations.* `start`/`continue` (compare-and-swap on state and revision, commit,
insert into `_jobs`, start the thread), `cancel` (flag in the row, then the
thread's event), `shutdown`, `recover_expired` (on every read of the task: the
owner process is gone, or the thread never got going, or the deadline and its
grace are over), `authorize_task`, `reconcile`, and the worker's own claim,
check, spawn, allocate, send, event, drain, integrate, finish.

*Interactions.* Handlers and worker meet in the row, in `_jobs` and in the
cancel event; nothing locks the row across a read and a write. start, continue,
the claim, allocations and authorizations compare-and-swap the revision; cancel,
recover, reconcile, spawn, the saves of the worker and finish write blindly.

*Hard.* Two starts of one row; a continuation while the previous
thread still drains; the window between the commit of a start and `_jobs`; a
cancellation between a check and the send it guards; a process that dies at any
point; a recovery that decided long before it writes; a thread that dies without
finishing.

*Correct when* one thread at a time executes a task and it is the one a
cancellation would find; no thread works for a run the row no longer names; every
dispatched operation is in the durable ledger before it is sent and never leaves
it; a recorded outcome is only replaced by a new run; every run ends.

### Token and attempt ledger; continuation and recovery

*State.* `allocations` (reserve, usage, overrun, receipts, operation key, dispatch
state) in the row, of this run and, under `previous_runs`, of the earlier ones;
the runner's live copy. *Operations.* `admit_operation`, `allocate`, `send`
(intent, sent, not dispatched), `event` (usage, receipt, final, returned, not
attempted), `drain_saved_outputs`, `charge`, `accounting`; `checkpoint` (is there
saved work), `prepare` (a fresh ledger that retains history), `authorize_task`,
`reconcile`. *Hard.* Receipts late, missing or repeated; a crash between intent
and answer; a final receipt that releases part of a reserve; an operation whose
outcome is unknown. *Correct when* the committed capacity never exceeds the
limit when new work is allocated, unknown usage counts in full, no charge of an
earlier run is lost, and an uncertain operation is repeated only with a grant.

### Delegation plan and integration

*State.* The agent tree (parent, children), reports, worker queues, the handoff
flag. *Operations.* plan, spawn, poll, integrate, drain, synthesis, finish.
*Hard.* Children finish in any order, fail, or run out; a limit during
research leads to a partial integration. *Correct when* every assignment of the
plan is cited or listed as unfinished, and only a run that carried out and
integrated all of them ends as completed.

### Finding review and promotion; authorship; submissions; packages

*State.* Rows of a task (reviews bound to a hash, promoted research objects), of
contributors' roles and orders of authors, of a submission (status, history), of
packages and bundles. *Operations.* `review_finding`, `promote`, `lock_revision`;
propose, confirm, approve an order; `transition`, `add_revision`; create, edit,
prepare, approve, export a package. *Hard.* All of them load, decide and commit
what they decided, and others commit in between. *Correct when* nothing is shown,
promoted or handed out but what was decided on, and no decision is lost.

### Dialogue, section revision and compute runs

*State.* `proposed_actions` with plan hashes, sections with `updated_at`; compute
runs and their directories. *Operations.* propose, approve, reject, revise,
undo; plan, approve, execute, review, promote. *Hard.* Two approvals, an approval
against a rejection, a crash between the effect and its record, a slow approval
over an execution; two databases with different isolation. *Correct when* an
action takes effect only while it is open, once, on what the reviewer saw.

### Proposals

*State.* Passages of a changing source, one section with revisions and citations,
generations under idempotency keys, saved versions, their exports. *Operations.*
index, correct, delete; fit matrix, outline, draft; edit, undo, review; save;
export. *Hard.* Only unique keys stand between two requests. *Correct when* the
revision records tell the whole story, an approved text is a reviewed one, and a
version rests on one extraction of the source.

### Manuscript specialist campaign

*State.* Drafts, reviewer returns and reports, comments, answers, closure calls,
the runner's program counter, the token reserves. *Operations.* the author's
draft and revision, reviewer waves, corrections, integration, editorial
diagnosis and confirmation, continuation, recovery, local admission, edits by
people. *Hard.* A stop anywhere; replay of retained returns; promises out of one
remainder to callers that overrun. *Correct when* agent checks count as complete
only on the text the manuscript has, every objection is answered once and closed,
and a call that was promised tokens finds them.

### Workers, evaluation pair and roles, desktop pilot

*State.* A worker's threads, token counters and remembered texts; two arms with
ledgers, grants and child runs; a directory per stage with receipts and a lock
file. *Hard.* Usage is counted per thread and charged per operation; answers are
lost, late or dearer than reserved; the pilot is killed between any two files.
*Correct when* what was burned is reported, what may be billed is reserved, a
cancelled pair is silent, no stage is spawned twice, a receipt vouches for one
text, and an eligible paper left no issue open.

### Accounts and access, sources, transfer

*State.* Accounts, identities, roles, sessions, revocations, API keys; sources
and citation edges; tables, files, the scratch zip and bundles. *Hard.* Racing
first logins, a logout against requests past the check, a key used while it is
revoked; a merge that meets discovery; an export that reads tables one after
another and shares its scratch file; an import that stops half way. *Correct
when* a person has one account, who was shut out stays out, edges name sources
that count, traversals stay bounded and a restored project is whole.

## 2. Plan

| Order | Modules | Say | State |
|---|---|---|---|
| 1 | `ResearchTask`, `DurableTask`, `ResearchTaskProofs` | lifecycle of a task; what it promises; safety for every instance | done |
| 2 | `BudgetLedger`, `BudgetLedgerProofs` | the numbers `ResearchTask` abstracts from | done |
| 3 | `Delegation`, `WorkflowProofs` | parent, children, handoff, drain | done |
| 4 | `FindingReview`, `DecisionProofs` | reviews bound to a hash, idempotent promotion | done |
| 5 | `ApprovedAction`, `DialogueActions`, `DialogueProofs` | what a review gate promises, and the dialogue that keeps it | done |
| 6 | `ComputeRuns`, `Submissions`, `Authorship`, `PublicationPackages`, `ProposalExports`, `DecisionProofs` | the other gates between a person's decision and an effect | done |
| 7 | `Proposals`, `SpecialistCampaign`, `CampaignCapacity`, `WorkflowProofs` | workflows that produce text, what they may spend | done |
| 8 | `CodexWorker`, `EvaluationPair`, `EvaluationRoles`, `DesktopPilot`, `EvaluationProofs`, `CustodyProofs`, `WorkflowProofs` | the worker process, the paid and the manual evaluation | done |
| 9 | `Accounts`, `Access`, `ProjectTransfer`, `SourceGraph`, `CustodyProofs`, `DecisionProofs` | who may, what is cited, what is carried over | done |
| 10 | `SumTheorems` and the proofs of every module above | each safety property of the passing runs for every instance | done but for what section 5 leaves to TLC |
| 11 | overlapping merges and discoveries in `SourceGraph`; the effects of other dialogue actions; the project import that renames ids | | open |

Modules meet through the row of a task: `BudgetLedger` refines `ResearchTask`'s
sets of charged operations into amounts, `Delegation` its count of dispatches into
a plan, `FindingReview` looks at the same row from the reviewer's side.
`SpecialistCampaign` leaves budgets to `CampaignCapacity` (there a way to stop,
here numbers); `DesktopPilot` (`Fits`) and `EvaluationPair` (`AcceptStage`) leave to
`EvaluationRoles` which returns fit their contract. These are cut along what one
module needs of another; composing them step by step would multiply independent
interleavings and add no interaction the code has beyond the row and the files
that appear in both.

## 3. Models and code

Conventions. A *request* loads rows, decides, and writes what it decided when it
commits; whatever lies between is another action, so requests overlap at every
point at which the code does not lock. Only what the database or a file enforces
stands in a commit's guard: a compare-and-set, a unique key, a row lock, a
directory that must not exist. A request may be rolled back or die at any step.
A hash is the thing it was computed from. *History* variables (named so where they are
declared) are read by properties and by no guard. A definition `A_Variant` above
`A` is a wrong `A` that no action uses; putting it in the place of `A` breaks the
property named in `PROJECT.json`, which shows that the property can fail.

### ResearchTask

A *request slot* `q` serves one HTTP request at a time. A request whose
operation is in `Slow` takes one step per transaction and keeps the row it read
(`req[q].snap`) between them; one that is not in `Slow` reads and commits in one
step. So `Slow` says which windows an instance leaves open: start (`Load`,
`AdmitContinue`, `StartCommit`, `Register` or `RegisterFails`), cancel
(`CancelCommit`, `CancelEvent`), recover (`RecoverDecide`, `RecoverCommit`),
reconcile, authorize, `"register"` (more than five seconds pass between the
commit of a start and `_jobs`, the grace of `recover_expired`) and `"dispatch"`
(more than ten seconds pass between a check and its send). The compare-and-swap
of a start is `Current`; blind writes have no such conjunct. The history variable
`stale` tells when one of them has done harm: a cancel, recover or reconcile has changed
state or ledger of a task whose state or ledger was no longer what the handler had read
(`Overwrites`), or a recovery has closed a task whose thread was still on its way to
`_jobs` (`NewThread`). Nothing reads it but the properties, which say what holds until then.

A *thread* is named after the run whose start created it. Its program counter
walks `run_task`: `Claim`, `FirstCheck`, then rounds of `Check`, `Allocate`,
`Send` and `Poll`, and `Drain`, `Close`, `Finish`, `Exit`. `runner[t].view` is
the row as its session last saw it: the worker's writes take from it what the
code takes from `self.task`, `Fresh` is `session.refresh`. The ledger has the
parts the lifecycle reads: run, owner, this run's operations (`alloc`) and those
of the previous runs (`hist`).

A *process* is `down`, `up` or `gone`; `Crash` takes its threads, requests and
`_jobs` with it. A restart is another member of `Servers`, and `Overlap` says
whether it may start before the previous one is gone. `clock[r]` is the age of a
run in the steps the code tells apart.

`DurableTask` knows a phase, the current run, the operations charged and those
dispatched, and has four actions: a run is opened, an operation is charged to it,
a charged operation is dispatched, the task is closed. The refinement maps `state` to
the phase, `alloc` and `hist` to charges and `sent` to dispatches.

### BudgetLedger

One operation is one member of `Op`, in the order of allocation, over all runs of a
task. `row` is the durable ledger, `live` the runner's list. The code changes the
dictionaries of that list in place, so assigning it to the JSON column again may write
nothing; `Save` therefore stands for the commits that do write (amounts have
changed, and `actual_tokens` with them), while `Intend` and `Settle` have one
disjunct in which the trace record that carries the new state is committed and one
in which it is not. The worker is a small machine of its own (`idle`, `queued`,
`refused`, `turn`, `complete`, `silent`), `spent` is what its turn has really
burned. An event is lost by not being read: `Finish` and `Crash` end the listening.
`live[o].run` is the run an allocation belongs to, so `previous_runs` are the
allocations with another run than `row.run`. The states intent, sent and started,
which `admit_operation` treats alike, are one (`open`), and an estimated usage is
no usage, as in `charge`.

### Delegation

One run: the parent returns a plan (`PlanArrives`), its assignments are spawned in
order (`SpawnChild`), children send checkpoints, reports or failures into the queue of
their `process`, which the runner reads in any order (`Poll...`). `Breaks` is any
exception, `Limit` a deadline or a budget that runs out, after which saved work is
handed to the parent for one last call (`handoff`). `Drain` goes once through the
queues of calls that never returned. `Finish` writes the parent's synthesis or a
fallback that lists reports and unfinished assignments.

### FindingReview

`task` is the row with content, revision and the reviews, one column. `LoadTask` is
the read of a request; `ReviewFinding` and `PromoteFinding` decide,
`CommitFinding` is the compare-and-set of `lock_revision` with everything written
after it. A worker sets no revision, so `ReportArrives` may come between; a
continuation (`TaskContinues`) changes the content.

### ApprovedAction and DialogueActions

`ApprovedAction` is the abstract gate: an action is offered, declined, taken or replaced
by a revision. `DialogueActions` implements it: `Ask`/`Answer` propose, `Approve`
loads the action, then on SQLite `ClaimSqlite` is claim, check and effect in the one
write transaction that the SAVEPOINT makes of them and `Finish` the second commit
that records EXECUTED; on PostgreSQL `ClaimPostgres`, `Reload` and `Apply` are
statements of one transaction, each of which sees what others committed. `Reject`,
`Revise`, `Undo` load and write likewise. `Gate` maps the status and the effects to
the gate's phases: PROPOSED with an effect is already `taken`, so a crash between the
two commits on SQLite is no second chance.

### ComputeRuns, Submissions, Authorship, PublicationPackages

`ComputeRuns`: a plan hash is the version of the world it was made from;
`Execute` compares the binding with the plan; afterwards `MakeDirectory` fails where the
directory exists, `Stage`, `StageInput` and `Start` copy the script and the inputs and take
the interpreter as they are at that later time, unhashed (`copies`; `since` has the versions
there were since the comparison); `Start` and `FinishRun` keep the row locked, reviews and
approvals write blindly. `Submissions`: a transition loads the row and writes the status with the
history it read plus one entry. `Authorship`: an order keeps the assignments it was hashed from;
`Presented` is what `export_credit` computes at each reading. `PublicationPackages`:
`Freeze` snapshots manuscript, authors and wording, `Export`, `Assemble` and `Build`
read them again, and `SameEvidence` is the last comparison before a bundle is stored.

### Proposals and ProposalExports

One proposal with one section. Requests (`writer`) load the section (`Row`; its
citations are read apart) and commit; `RecordFree` is the unique key of section and
revision, `KeyFree` that of idempotency keys, `RowLocked` the flush of `save_all`.
`WriteText` does not write a state that was already `proposed` when it was
loaded, as SQLAlchemy does not. `ProposalExports` renders, flushes and commits the files of one
version against the unique key of version and format.

### SpecialistCampaign and CampaignCapacity

`runner.pc` walks `manuscript_quality_runner`: author, answers, editorial
preflight, a wave of reviewers in `Slots` workers, corrections, integration, the
next revision, confirmation. Reports that were returned but not yet accepted are
`retained` and replayed by the next run, as are the author's `returns`. Objections
are `comments`, one for each draft and role. `Stop` is every budget, deadline,
exception or crash; `Continue` is the operator's way back, after which `Resume` looks at the
saved work again, `RestoreResponses` completes the answers of the last draft after a commit,
on whatever the text is by then, and `Recover` applies a retained return.
`AdmitLocal` is the admission of a text prepared elsewhere, `EditOutside` a person's
edit or its undoing: a candidate hash is of content, so an earlier text has its earlier hash. `CampaignCapacity` takes the same runner as arithmetic: every call reserves a
grant, deferred reviewers keep theirs, estimates learn from final usage (`seen`).

### CodexWorker

`codex` is what `CodexResearchWorker` remembers: thread, counters, texts given to a
correction. The provider's notifications lie in `stream`, may
be late and may announce more than the allowance. `Prepare` decides on a fresh
thread or the old one, `Counter` where counting starts, `ReturnResult` what the
worker reports; `Fail` ends the process, `RejectLocally` only the operation.

### EvaluationPair, EvaluationRoles, DesktopPilot

`EvaluationPair`: `GrantStage` reserves the stage in the arm's ledger, the child's `purse`
reserves every priced operation (count, create, poll, cancel) before `HandOver`, the check
for a cancellation, and `Transmit`, by the writer thread and the worker process, with nothing
between the two that `cancel()` would wait for; `Acknowledge` and `Settle` are the provider's certain answers, `Break` everything
else, after which the reservation stays. `FlagPair` and `FlagChild` are the two lines of
`cancel()` from another thread. `EvaluationRoles` is one arm as the results of its six
roles: who had to answer what, and which return fits. `DesktopPilot` has one action
per file: the lock, a stage's directory, dispatch, attachment, capture, receipt;
`Raise` and `Kill` fall between any two, `RemoveLock` is the custodian's, `Submit`
rewrites a submission at any time.

### Accounts and Access

`Accounts`: registration, password login, first login by an issuer (found, linked
by address, or created), logout, each a read and later a transaction that fails
on a taken unique value. `Access`: the boundary checks (`BoundarySession`,
`BoundaryKey`, which also notes the use of a key in a transaction of its own) and the
handler that decides again and commits. One set of `Ops` gives each operation the
roles and scopes it needs.

### SourceGraph and ProjectTransfer

`SourceGraph`: registration, import, discovery of edges, resolution, review,
merges; `CitationGraph` is the bounded traversal, checked against `Near`, a
definition by distance. `ProjectTransfer`: the tables are read one after another, the
zip is one file per project (`OpenZip` truncates it for everyone), an import puts
its files first and flushes and commits its rows afterwards. A put looks whether the file is there
(`LookForFile`) and renames later (`PutFile`), with no lock between: two imports may both find it
absent, and `replaced` records a file written over another's bytes. A link to a work is a foreign key, which
a flush refuses to leave dangling, or an id in JSON or a plain column (`models.py:191`, `345`,
`366`), which nothing checks; `torn` records that works were added while the tables were read.

### Compositions

`MCReviewGates` and `MCWorkflows` put many modules into one run each. The variable
`part` (`workflow`) says which of them moves, and a behaviour takes steps of that one
only. The parts read no state of each other, so every state of the product is
a tuple of states reached this way, and an invariant of one part holds in the
product if it holds here. The interactions that exist are inside the parts.

## 4. Runs

| Run | Instance | Distinct states | Shows |
|---|---|---|---|
| `Lifecycle` | 2 requests, 2 runs, slow recover, reconcile and register | 2 293 000 | `NoZombie`, `OutcomeStands` |
| `StartRaces` | 2 requests, slow start, continue and dispatch | 282 000 | `SingleExecutor` |
| `StaleWriters` | 2 requests, one run, slow cancel, recover, register, dispatch | 632 000 | `OneLateDispatch` |
| `Restart` | 2 processes one after the other, fair | 158 000 | `EveryRunEnds`, `KeepsPromise` |
| `Budget` | 3 operations, 2 keys, 2 runs | 1 020 000 | `WithinLimit`, `BurnedWithinAuthority`, `NothingFree`, `NoBlindRepeat`, `RetriesBounded` |
| `ReviewGates` | 13 parts, 2 or 3 requests each | 1 486 000 | 16 invariants and the refinement `Gated` (below) |
| `Workflows` | 6 workflows, 2 requests or workers each | 4 238 000 | 11 invariants and `Silenced` (below) |
| `StaleCancel` | 2 requests, slow cancel | stops at the violation | `EveryDispatchCharged` fails |
| `LateDispatch` | 1 request | stops at the violation | `NoLateDispatch` fails |
| `ContinueStopped` | 1 request, fair | stops at the violation | `TerminalTasksCannotResume` fails |
| `LostRevision` | 2 requests on PostgreSQL | stops at the violation | `EditsAsReviewed` fails |
| `UnreviewedText` | 2 writers | stops at the violation | `ApprovedAsReviewed` fails |

`ReviewGates`, besides one `TypeOK` for all parts:

| Property | Module | Says |
|---|---|---|
| `Gated` | `DialogueActions` | it implements `ApprovedAction`: an action takes effect while open, once, never after it was declined or replaced |
| `SqliteEditsAsReviewed` | | on SQLite every edit replaces the very version its reviewer saw |
| `UndoRestores` | | an undo gives back what the edit replaced and loses no edit in between |
| `ComputeAsApproved` | `ComputeRuns` | one subprocess per run, bound to the approved plan, and with other files only if they changed after the comparison; results cite its verified manifest |
| `HistoryExplainsStatus` | `Submissions` | the history leads by allowed transitions to the status |
| `PresentedAuthorsConfirmed` | `Authorship` | whoever is presented as an author has confirmed and disputes nothing |
| `HandedOut` | `PublicationPackages`, `ProposalExports` | `BundlesAsApproved` and `ExportsAgree`: bundles rest on frozen and approved snapshots, exports on the recorded bytes, with a warning when the source moved |
| `ReviewsKept`, `PromotedAsApproved` | `FindingReview` | no review is lost; a finding is promoted once per purpose with the approved report |
| `OneAccountEach` | `Accounts` | a person has one account, an address one account, and nobody is locked out of one |
| `ShutOut` | `Accounts`, `Access` | `LogoutHolds` and `KeysHold`: a confirmed logout or revocation is final, and nobody holds a key or a project beyond their role |
| `SpawnedOnce`, `ReceiptsAgree` | `DesktopPilot` | no stage is spawned twice or early; a receipt vouches for one text |
| `FollowedUp` | `EvaluationRoles` | an eligible paper left no issue unanswered or unsettled |
| `GraphSound` | `SourceGraph` | `EndpointsLive` and `GraphBounded`: edges name sources that count; the traversal is complete or says it is not |
| `RestoredWhole` | `ProjectTransfer` | a restored project is all of what one export saw, restored once; only an unkeyed id after a torn read may dangle, and only a bare file on which two bundles differ be another's |

`Workflows`, besides one `TypeOK`:

| Property | Module | Says |
|---|---|---|
| `RevisionsChain` | `Proposals` | each revision record begins with the text the one before left |
| `VersionsOfOneSource` | | a saved version rests on one extraction of the source |
| `ChecksSound`, `AnsweredOnce` | `SpecialistCampaign` | checks count only on the text there is, with every objection answered and closed; an objection answered on a draft's text is not answered again |
| `PromisesFunded` | `CampaignCapacity` | a call that was promised tokens finds them, less only the overruns |
| `AccountsForAll` | `Delegation` | a synthesis accounts for the whole plan; completed means all of it |
| `BillCovered`, `StagesFunded`, `Silenced` | `EvaluationPair` | what may be billed is held, the ceiling and the later stages' baselines stand, and after a cancellation or an unknown outcome nothing passes its check: at most one request, which had passed before, is still sent |
| `UsageReported`, `CorrectedOnce` | `CodexWorker` | operations of a thread report what it burned; one correction per text |

*Bounds.* In `ResearchTask` two runs are enough for every relation between a run and
its predecessor: an old thread against a new run, history that a continuation carries
over; a third repeats the same relations. Two requests are the least that race, and a
third only adds another blind writer of a kind already there. Two operations of a
worker give an operation that was answered and one that was not, and are what a run
needs to complete (`StaleWriters`); one is enough for its ledger to be worth losing.
`MaxRevision` bounds the number of authorizations, which only raise the revision. In `Budget`, three
operations and two runs let one key be tried, left open by a crash and tried again,
and leave an operation of another run whose allowance still counts; allowances of 2
under a limit of 3, a spend of up to 3 per turn and a ceiling of 5 put every boundary
(the allowance, the overrun bound, the limit, the ceiling) inside the instance.

In `ReviewGates` two overlapping requests meet in every pair of operations, and
where a third party takes part (an approval, an execution and another approval of
one compute run) there are three callers. Two actions let one edit overtake another,
and a third version comes from outside. Two contributors with three reviews let an
order of both be approved while one of them disputes. Two packages are one that is
approved and one that supersedes it; `MaxChanges` of 2 lets the manuscript and the
authorship change apart. Three turns of a finding's task are a review, a promotion
and one that overtakes. The pilot has a stage for each kind of predecessor (an arm's
first, the other arm's, a grading). Three sources with two DOIs have a pair that merges and a
pair that conflicts; node limits of 2 and 3 are below and at the number of sources.
Six history entries reach the second review of a revised submission.

In `Workflows` two roles and one slot make a reviewer wait for another, as four roles
and three slots do; three drafts are the initial one, a revision and one more; two
runs are an interrupted one and its continuation. The capacities scale the code's
thresholds down such that the reserves, the floors and the limit can each be what
decides. The ceiling 28 is the least whose quarter does not divide evenly among the
verification stages, one arm is enough because arms run one after the other with ledgers of
their own. Three turns of a worker are a text, its correction and one more
operation on the same thread.

*Deadlock* is not checked: once the bounds are used up, or the task, the arm or the
project is done, nothing is left to do.

*Fairness* (`FairSpec` of `ResearchTask`). A started thread keeps running (`Worker`), time
passes (`Tick`), a process that went down is started again (`Boot`), a request
that has committed is served to its end (`Register`, `CancelEvent`): weak
fairness, which the operating system and the supervisor give. `RecoverCommit` has
strong fairness: the task page polls the task's detail route, which
calls `recover_expired`, so a recovery is tried again and again as long as
somebody looks. Without a reader an abandoned task stays active forever, which
is what the code does. No fairness is assumed for clients' other requests
or for answers of model workers. The other modules state safety only: what they
model goes on when a person or a client asks for it, which no scheduler guarantees.

### What the violated runs show

`StaleCancel`: `cancel()` reads a draft, a start commits, the worker dispatches
an operation, and the cancellation then writes the draft's ledger over the
running one. The operation is in no account, although the documentation says that
missing telemetry is never zero usage. `KeepsPromise` and the theorem `DispatchesCharged`
say that nothing is lost before such a write; `StaleWriters` shows what holds after it.

`LateDispatch`: `send()` checks once, then commits an allocation and a trace
record before it hands the message over; a cancellation in between does not
stop that operation. The documentation promises that none starts.
`OneLateDispatch` bounds the gap to one.

`ContinueStopped`: the documentation says that terminal tasks cannot resume,
another document describes their continuation, and the code continues them.

`LostRevision`: `apply_revision()` compares the reviewed hashes with a first read of
the section, loads it a second time and makes its update conditional on that second
read. On PostgreSQL another approved edit may commit between the two reads; it is
then overwritten by a text that was reviewed against its predecessor
(`manuscript_chat.py:153-167`). On SQLite the claim has already taken the
write lock, and `SqliteEditsAsReviewed` holds.

`UnreviewedText`: an edit that loaded a section in state `proposed` assigns the same
state again, and SQLAlchemy does not write a value that has not changed. A review of
the earlier revision that overlaps then leaves `approved` beside the edited text
(`proposals.py:1217`).

Exploring other windows showed two more limits of the task's code. A recovery or a
reconciliation that took long enough writes the whole ledger, and the recovery the state
too, over a task that has ended or been continued meanwhile, without a
compare-and-swap: without their exception of `stale`, `OutcomeStands` and `KeepsPromise`
fail in an instance where these two are slow. With the exception they hold there, so
these writes are all that breaks them. With two processes on one database at once, a
stale save of the worker can bring back the ledger of an earlier run, and two
threads then take themselves for the owner. The application starts one process
(`Overlap = FALSE`), which the results assume. No document speaks of either, so neither is
a finding.

## 5. Proofs

TLAPS checks eight modules of theorems, each for every value of its constants:
any number of requests, runs, operations, people, stages, children or tokens. Each
follows one argument: an invariant that is stronger than the property, TLC-checked
before it was proved, one lemma per action (or group of actions) that preserves it, and
theorems that draw the properties from it. A property of a composition is drawn from
the theorems of its components, whose specifications the composition implies.

*SumTheorems.* What the proofs about tokens and money use of sums over finite sets. The
library defines a sum by a fold, and a fold cannot be unrolled by an induction over sets
here (its theorem takes an operator). The lemmas are proved by smallest counterexamples over
the cardinality instead: `SumRest` (an element and the others), `SumWithin`, `SumConst`, what a
changed summand does to a sum. No module declares these facts; all follow from the definitions.

*ResearchTaskProofs.* `TypesHold` needs no assumption. `SingleExecutorHolds`,
`RegisteredHolds`, `NoZombieHolds`, `InductiveHolds`, `OutcomeStandsHolds`,
`KeepsPromiseHolds` and `DispatchesCharged` assume one process at a time (`~Overlap`), and
nothing of how long any handler takes between its steps: they hold with every window of
`Slow` open, up to the first step that makes `stale` true. `PromptHolds` shows that no step
does in an instance where only start, continue and the worker's sends are overtaken
(`Prompt`); there the results hold without exception, which `SingleExecutorHolds` states.
The invariant needs
two layers. `Inductive` says how the row, `_jobs`, threads and requests are
related: a thread that executes is the one `_jobs` of its live process holds, its run
is the one the row names, its copy of
the ledger is the row's, a request
that is about to register has no rival, and a snapshot of a finished task whose revision
is still the row's is of the row's state and ledger. The safety properties are instances of
it, none of them is inductive alone: that a thread is the only executor depends on
`_jobs`, and that it is in `_jobs` depends on what continuations have seen there.
The proof takes the kinds of steps one after the other, first for the structure of the
variables and then for `Inductive`; of the handlers that write blindly it first shows what
they do to a task while they are not stale (`CancelWrites`, `RecoverWrites`,
`ReconcileWrites`). The action property and the refinement follow step
by step from the invariant, with the steps of `DurableTask` as cases.
`OneLateDispatchHolds` covers more than those: with no continuation it holds after stale writes
too, as in `StaleWriters`, with every window slow and processes overlapping. There
`OneRun` says that a task is started once and that whoever no longer finds its run in the
ledger finds the task cancelled; `LiveOnce` does the same for continued tasks until
a handler is stale.

*BudgetLedgerProofs.* `Sound`: amounts are always saved, a
final count is what the turn burned and no turn of that operation is left, a
worker that has not begun has burned nothing, whatever was sent is recorded under
the same key in both copies, a state that no longer blocks a repetition was
earned by an answer, and what `admit_operation` has seen still holds at the
send. `SaveKeepsSound` is the one lemma behind all steps that save a changed
allocation, `EitherCopySound` behind those that reload or write the whole list. From it
follow `NothingFreeHolds`, `NoBlindRepeatHolds` and `RetriesBoundedHolds`. `Funded` and `Covered` add the
sums: what admission found free is what the operations' allowances leave of the limit, in
either copy, and a burned token is inside its operation's allowance or in its overrun.
`WithinLimitHolds` and `BurnedWithinAuthorityHolds` are sums of these over operations and runs.

*DialogueProofs.* `Sound`: an open action has had no effect; a claim not yet
committed holds its row and is the only one; a request between the two commits on SQLite
has had its one effect. Only with the claim's exclusiveness does the first part
survive `Apply`. `GatedHolds` is the refinement of `ApprovedAction`: each action is a
lemma that ends in a step of the gate or leaves phases and effects alone. `Faithful` says what a
section's text has in common with what a proposal, an undo and a request in flight remember of
it as long as its revision is theirs; `SqliteEditsHold` and `UndoHolds` follow. That versions
stay within the type invariant is not local to a step: each one stems from an action that took
effect, which happens once per action (`GatedHolds`), or from a change outside, which the bounds
limit. `Landed` and `Counted` say so by a cardinality.

*DecisionProofs.* What a person decided on and what comes of it, in six sections.
Authorship: the property speaks of what is presented at a reading, so
`OrdersSound` says what an approved order, and an approval on its way, were decided on:
the assignments they were hashed from confirm every author (`Standing`).
Findings: in `FindingSound` a request whose loaded revision is still the row's
has loaded the row's reviews (`Knows`), and what it is about to write was not promoted
when it looked (`Decided`); together they carry the compare-and-set of the revision over to the
column of reviews, which is written whole. Submissions: the history is a path, whatever
overlaps. Compute (`ComputeSound`): what a request carries fits the row however late it
commits, and it is the directory that keeps a run which was put back to approved from starting
again. Packages and exports: what was frozen under a reviewed hash, and which bytes an
export row names. Sources:
`EndpointsLiveHolds`, by what each registration, discovery and merge does to the edges,
is one half of `GraphSoundHolds`. The other is about the walk, in any finite set of edges
(`FiniteEdges`). `After` says what a level holds once some of the edges are included: which
nodes are seen and which edges open, how many, and that nothing was left out unless the walk
says so; `IncludeKeeps` carries it over one edge, and that every level has a result for every
number of edges follows from a least number without one (`LeastNumber`), no induction theorem
being at hand. The property asks about walks of one and two levels, where the code allows four
(`citation_graph.py:427`); the two are unrolled (`Walks`) and compared with `Near` (`NearIs`). The last section is about the composition of all thirteen parts, a behaviour of
which is one of each part (`PartsBehave`): `HandedOutHolds`, `ShutOutHolds`, and `GateTypesHold`, its
type invariant.

*CustodyProofs.* Who gets in, what is carried over, and what is conducted by hand. Accounts: the
values that unique keys protect, and what a request between its
look and its transaction still knows (`LoginSound`: a known identity is never
unlinked): `AccountsSound`. For keys and roles `AccessSound` says what a request still stands on
when it commits (`Stands`). `OneAccountEachHolds`, `LogoutHoldsAlways` and `KeysHoldAlways` follow.
Transfer (`TransferSound`): a bundle that verifies has the files it lists, and dangles nowhere unless
it was torn (`AsRead`); what an import has put is on its shelf, or a rename has replaced it (`Shelved`).
What is on the shelf came from some bundle (`ShelfSound`), so a rename can replace only what two bundles have
differently, which a checksum excludes; an import that is about to rename saw no file of other
origin there (`JobSound`). `RestoredWholeHolds` follows.
The pilot (`PilotSound`): a call that is under way holds the lock, so there is one; it is about the
stage after its tip, and its tip is the last receipt; packets exist of receipted
stages only. `SpawnedOnceHolds` and `ReceiptsAgreeHolds` follow. `RolesSound` is about the
papers and issues of one arm: a revision begins with the paper its reviewer saw and has
answered every issue of that review (`Continued`). `FollowedUpHolds` follows.

*EvaluationProofs.* The evaluation
pair (`PairSound`): to the unit, what is owed is what was charged and what is in flight (`Bill`), a
call holds its grant (`CallShape`), and what is left pays every baseline to come (`Solvent`);
`BillCoveredHolds`, `StagesFundedHolds` and the action property `SilencedHolds` follow, the last
because a request handed over before `cancel()` returned is the only one there is, and is
counted once (`Handed`).

*WorkflowProofs.* One section for each workflow.
Delegation (`PlanSound`): plans are `1 .. n`, children `1 .. k`; a report is of a
completed child, nothing is reported once the parent was
asked, and a run which is still to end as completed has carried out everything.
Proposals (`ProposalsSound`): what a request loaded (`Remembers`) is the section's while the
section is at the revision it loaded, the record of the section's revision is not undone (`Told`),
and every passage a version cites is of the extraction its evidence was read at (`OfOneSource`).
The worker (`WorkerSound`): what its operations reported and the usage of the present one cover what it
was shown (`Metered`), notifications not read yet are above that and grow (`Announced`), and only the
text returned last may be corrected (`Owned`).
The campaign's tokens (`CapacitySound`): no token is granted twice
(`Conserved`), what is held is there (`Holding`), corrections in flight count as charged
(`Mending`), and each promise names at most what is left (`Promise`); `PromisesFundedHolds` follows.
The campaign (`CampaignSound`): versions are given in order and what carries one has one that was
given (`Numbered`); where the runner stands agrees with the status and with what the draft went
through, so that an author is never at work on a draft whose review was begun and not ended
(`Stands`); an objection is a comment, or of the review in progress, or of one that a text prepared
elsewhere cut short (`Opened`); a role's last report is what it judged (`Judged`); what is recorded
for a comment is its last answer, and an answer recorded for the draft's text was given for this
draft, as its last (`Answering`). `ChecksSoundHolds` needs `Opened` and `Judged`: the last reports are the roles' own and
whatever was raised is among the comments that were closed. `AnsweredOnceHolds` needs `Answering`,
which in turn holds across `RestoreResponses`, `Recover` and `Respond` only because a draft has a
version that nothing was recorded for (`Numbered`).
`WorkflowTypesHold` is the type invariant of the composition of all six; a plan's needs
`PlanSound` beside it: who has reported, which a parent is then asked about, is one of the plan.

*Only model-checked.* `EveryRunEnds` (liveness under fairness is out of the
prover's reach), and what slow instances with continuations leave of `OneLateDispatch`.

## 6. What the code does besides

Behaviour met while modelling that no run is about. The models have it, unless it is
said to be left out.

*Task.* A process id that another program reuses only delays a recovery to the
deadline. `drain_saved_outputs` reads the parent's queued synthesis through its finished
plan call and drops it; an exception in the handoff other than `StopResearch`,
`ValueError` and `TypeError` skips `finish()`.

*Dialogue.* A stale or mismatching approval writes INVALIDATED blindly, also over
EXECUTED. On SQLite a crash between the RELEASE and the second commit leaves
APPROVED beside an effect. On PostgreSQL the evidence may change between its check and the
commit. The author's own edits and `apply_draft` overwrite blindly.

*Compute.* The script, the inputs and a local interpreter are not hashed again when they are
copied or started (`compute.py:630`, `635`), so a change after the comparison (`619`) runs, and is
verified and promoted under a manifest that names the versions approved. A slow approval sets
a run that has succeeded back to approved; two reviews, and two promotions, may both be
written; a crash leaves a run whose directory exists and which never runs again.

*Submissions, authorship, packages.* An overtaken transition is lost with its history entry.
Two concurrent approvals can leave two approved orders, or two approved packages. A
package that an overtaken request prepares again mixes two snapshots.

*Usage ceiling.* `usage.py` records in the caller's transaction: usage is lost with
a rollback, and concurrent calls overshoot the ceiling by what they burn. There is
no promise to check, so it is not a module.

*Proposals.* A second outline always fails on the unique position, an edit that keeps
its citations and an index after a deleted chunk fail on unique keys that count deleted
rows. A running generation is never visible, so its cancellation finds none.
An undo restores no citations. A format named twice in one request violates the unique key.

*Evaluation.* A request that passed its check is sent after `cancel()` has returned, and billed.

*Campaign.* An answer recorded while the text was edited is recorded a second time for the
draft's own text once the edit is undone and the campaign continued, without being asked for
again (`_restore_responses`). `recoverable_return` (`manuscript_continuation.py:47-89`) passes over only the
return equal to the last draft, so an older, superseded one can come back, while
`docs/PRODUCTION-WORKFLOW.md:176-181` goes on from the current candidate. Replayed malformed reports
start correction workers beyond the slots (`manuscript_quality_runner.py:778-789`,
against the comment at 728). A local admission during an interrupted wave drops that
wave's objections (`CutShort`). A crash during an editorial call makes completion
impossible except by a local admission. Overruns eat the reserves: `PromisesFunded` holds up
to their sum. A deferred reviewer also waits for corrections, so the time forecast,
which is not modelled, can be too short. One correction of an author's packet
resolves all flags of that author.

*Worker.* A limit does not advance the thread's counter, so the next operation
over-reports; a correction that is rejected locally is used up.

*Evaluation and pilot.* An uncertain stage holds its full reservation, and an existing
directory is never resumed. A write that fails before the capture leaves the pilot
stuck; a crash between a receipt and its return leaves the custodian's anchor
behind. The journal of `evaluation_desktop.py`, which only tests use, is left uncertain by an
`fsync` that fails after its receipt.

*Accounts and access.* A first login may overwrite a role granted between its check and its
write on PostgreSQL; two first registrations can both succeed
(`auth.py:228`). `add_member` can demote a role that was just granted, the last
owner can be demoted, and a request past the boundary still runs after its key was
revoked.

*Sources.* `import_work` matches merged sources too and points edges at them (`stray`);
`resolve_edges_for_source` may make an edge from a work to itself, which `resolve_edge`
refuses, and whose rediscovery after deletion fails; screening and excerpts accept merged
sources.

*Transfer.* An export reads tables one after another and is no snapshot, so its import may
fail on a foreign key, while `transfer.py:4` calls it a faithful one; concurrent
exports of a project share a scratch file; missing files with a bare path are skipped
without a word; a put whose answer was lost leaves its file. Two imports that both find a bare path absent
write over each other, and the project restored first then has the other's bytes, though
`put_bytes` promises to refuse (`storage.py:123`); ids in JSON and plain columns that a torn
read left without their rows are restored as they are.

## 7. Not modelled

In `ResearchTask`: contents of plans, reports and sources; which agent does
what; the monotonic clock against wall time. In `BudgetLedger`: the time ceiling,
operation scopes and phases, the worker's protocol errors except as a stop of the
run, the provenance `reconcile()` examines except for the facts that make it
sound; the evidence checks of `checkpoint()` are one guard.

In the partly modelled components: the readiness and acquisition of sources,
`verify_controller_completion` and the forecast of time (campaign); the
`draft_revision` counter, which is bumped blindly, the conversation and the effects
of actions other than a section edit (dialogue); the fit matrix's questions and the
prompts (proposals); start-up, login, sandbox checks and the byte stream of the
pipe (worker); signatures, passwords, key discovery and rate limits (accounts);
imports that rename ids and presigned downloads (transfer); the scoring of
duplicates, searches and overlapping merges (sources); synthetic mode, the frozen-text
adapter and grading (evaluation).

Export, figures, retrieval and text checks are transformations of one snapshot with no
protocol of several steps of their own. The HTTP application and the web client route and
present; the routes that change modelled state are part of the modules of their services.

`PROJECT.json` lists each hazard with its line and the properties that cover it.
