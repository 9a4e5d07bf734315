--------------------------- MODULE CampaignCapacity ---------------------------
(***************************************************************************)
(* The token capacity of one run of a specialist campaign.  Every call to  *)
(* a model reserves its grant until its final usage is known; what a call  *)
(* may get is what is left after the calls already promised: the handoff,  *)
(* the editor's confirmation, the reviewers that wait for a slot and the   *)
(* pool for repairs of their reports.  Estimates learn from final usage.   *)
(*                                                                         *)
(* Tokens are counted in large units; the order of the reviews and what    *)
(* they say is SpecialistCampaign's subject.                               *)
(***************************************************************************)
EXTENDS Integers, FiniteSets, FiniteSetsExt

CONSTANTS
  TokenLimit,        \* the contract's token_limit
  Starts,       \* what is left of it when a run begins
  Reviewers,    \* number of specialist roles; four in the code
  Concurrent,   \* reviewers at once; three in the code
  Handoff, ClosureCall,          \* the reserves; 10000 and 45000 in the code
  Least, Headroom, RepairFloor, AuthorFloor, Fair, SummaryMin, \* thresholds of the code
  Inputs,       \* sizes of a prompt
  MaxOverrun,   \* bound on what the calls burn beyond their grants
  MaxWaves      \* bound on the waves of a run

ASSUME CapacityAssumptions ==
  /\ Reviewers \in Nat \ {0} /\ Concurrent \in Nat \ {0}
  /\ {TokenLimit, Handoff, ClosureCall, Least, Headroom, RepairFloor, AuthorFloor, Fair, SummaryMin,
      MaxOverrun, MaxWaves} \subseteq Nat
  /\ Inputs \subseteq Nat /\ Starts \subseteq 0 .. TokenLimit /\ Least > 0

Reviewer == 1 .. Reviewers
Callers == Reviewer \cup {0}   \* 0: the author, the editor or the parent
Fixes == Reviewers + 1         \* kinds of calls of their own: corrections,
Revision == Reviewers + 2      \* and the author's revisions

VARIABLES
  left,      \* remaining_tokens
  editor,    \* the quality policy asks for the editor
  confirmed, \* the editor's confirmation was asked for
  step,      \* where the runner is
  input,     \* the size of the present prompts
  grant,     \* caller -> the reservation of its call in flight; 0 if none
  deferred,  \* role -> the grant it waits with; 0 if it does not wait
  reported,  \* roles whose report of this draft is accepted
  fixes,     \* roles whose report has to be corrected
  fixed,     \* roles that were asked for their correction
  repair,    \* the wave's repair_reserve
  mended,  \* charged for corrections so far in this wave
  held,      \* protected_after_author
  offered,     \* the author's first allowance of this operation
  attempt,   \* the author's attempt; 2 when it is over
  waves,     \* waves of this run
  revising,  \* whether that operation is a revision
  again,     \* the present draft is a revision
  seen,      \* caller or kind of call -> the largest final usage of it
  sent,      \* history: a call was sent
  overran    \* history: tokens burned beyond the grants

capvars == <<left, editor, confirmed, step, input, grant, deferred, reported, fixes, fixed, repair,
             mended, held, offered, attempt, revising, again, waves, seen, sent, overran>>

Tokens == 0 .. TokenLimit

TypeOKCapacity ==
  /\ left \in Tokens /\ editor \in BOOLEAN /\ confirmed \in BOOLEAN
  /\ step \in {"off", "author", "preflight", "wave", "reviews", "revise", "confirm", "integrate"}
  /\ input \in Inputs /\ grant \in [Callers -> Tokens] /\ deferred \in [Reviewer -> Tokens]
  /\ reported \subseteq Reviewer /\ fixes \subseteq Reviewer /\ fixed \subseteq Reviewer
  /\ repair \in Tokens /\ mended \in Nat /\ held \in Nat /\ offered \in Tokens
  /\ attempt \in 0 .. 2 /\ waves \in 0 .. MaxWaves
  /\ seen \in [0 .. Revision -> Nat] /\ overran \in Nat
  /\ {revising, again, sent} \subseteq BOOLEAN

-----------------------------------------------------------------------------
Lesser(m, n) == IF m <= n THEN m ELSE n
Larger(m, n) == IF m >= n THEN m ELSE n
Margin(n) == (n * 5 + 3) \div 4
Total(f, S) == SumFunctionOnSet(f, S)

ProtectedReserve == Handoff + (IF editor THEN ClosureCall ELSE 0)

(* _revision_budget: what a review, a repair and an author are expected to *)
(* take, by the size of the prompts and what such calls took before.       *)
ReviewUsage(r) == Larger(input + Headroom, Margin(seen[r]))
UsageOf(roles) == Total([r \in roles |-> ReviewUsage(r)], roles)
ReviewReserve == UsageOf(Reviewer)
RepairReserve == Larger(Larger(RepairFloor, input + 1), Margin(seen[Fixes]))
AnswersUsage == IF waves > 0 /\ seen[Revision] = 0 THEN 2 * Margin(seen[0]) ELSE 0
MinimumAuthor ==
  Larger(Larger(AuthorFloor, input + 1), Larger(Margin(seen[0]), AnswersUsage))
FollowThrough == ReviewReserve + ProtectedReserve + RepairReserve
AuthorGrant == Lesser(MinimumAuthor, Larger(0, left - FollowThrough))

-----------------------------------------------------------------------------
Quiet == \A c \in Callers : grant[c] = 0
NoGrants == [c \in Callers |-> 0]
Unseen == [k \in 0 .. Revision |-> 0]
Past == {[k \in 0 .. Revision |-> n] : n \in Inputs}   \* what earlier runs show

CapacityInit ==
  /\ left \in Starts /\ editor \in BOOLEAN /\ confirmed = FALSE /\ input \in Inputs
  /\ step \in {"author", "preflight", "wave", "revise", "confirm", "integrate"}
  /\ grant = NoGrants /\ deferred = [r \in Reviewer |-> 0]
  /\ reported \in {{}, Reviewer, {1}} /\ fixes = {} /\ fixed = {}
  /\ repair = 0 /\ mended = 0 /\ held = 0 /\ offered = 0 /\ attempt = 0 /\ waves = 0
  /\ seen \in {Unseen} \cup Past /\ revising = FALSE /\ again \in BOOLEAN
  /\ sent = FALSE /\ overran = 0
  /\ step # "wave" => reported = {}
  /\ step = "author" => seen = Unseen /\ ~again

(* A run that starts afresh with all its tokens; the others continue one.  *)
CapacityFresh ==
  step = "author" /\ left = TokenLimit /\ ~editor /\ input = CHOOSE n \in Inputs : TRUE

estimate == <<input, seen, again>>
wave == <<deferred, reported, fixes, fixed, repair, mended, waves>>
author == <<held, offered, attempt, revising>>

EndsRun == step' = "off"

StopCapacity ==   \* what a run keeps in memory goes with it
  /\ step # "off" /\ EndsRun
  /\ grant' = NoGrants /\ deferred' = [r \in Reviewer |-> 0] /\ seen' = Unseen
  /\ fixes' = {} /\ fixed' = {} /\ repair' = 0 /\ mended' = 0
  /\ held' = 0 /\ offered' = 0 /\ attempt' = 0 /\ revising' = FALSE
  /\ UNCHANGED <<left, editor, confirmed, input, again, reported, waves, sent, overran>>

(* allocate: nothing is sent that is not left.                             *)
Sends(grants) ==
  /\ Total(grants, DOMAIN grants) <= left /\ \A c \in DOMAIN grants : grants[c] > 0
  /\ left' = left - Total(grants, DOMAIN grants)
  /\ grant' = [c \in Callers |-> IF c \in DOMAIN grants THEN grants[c] ELSE grant[c]]
  /\ sent' = TRUE
SendsAlone(n) == Sends([c \in {0} |-> n])

(* _author: what is left above what is held for afterwards, at most the    *)
(* first allowance.                                                        *)
AuthorAllowance(allowance, kept) == Lesser(allowance, left - kept)

Authors(allowance, kept, next, revise) ==
  /\ AuthorAllowance(allowance, kept) >= Least
  /\ SendsAlone(AuthorAllowance(allowance, kept))
  /\ held' = kept /\ offered' = allowance /\ attempt' = next /\ revising' = revise
  /\ step' = "author"
  /\ UNCHANGED <<editor, confirmed, estimate, wave, overran>>

(* execute: the first draft leaves a first wave, its repairs and the       *)
(* editor funded.                                                          *)
InitialReserve ==
  Reviewers * (input + Headroom) + RepairReserve + ProtectedReserve
  + (IF editor THEN ClosureCall + AuthorFloor ELSE 0)

DraftFirst == step = "author" /\ attempt = 0 /\ Quiet
         /\ Authors(Lesser(TokenLimit \div 3, left - InitialReserve), InitialReserve, 1, FALSE)

Revise ==
  /\ step = "revise" /\ Quiet /\ AuthorGrant >= MinimumAuthor
  /\ Authors(AuthorGrant, FollowThrough, 1, TRUE)

CorrectDraft ==
  /\ step = "author" /\ attempt = 1 /\ Quiet /\ Authors(offered, held, 2, revising)

(* The draft is accepted: prompts and estimates are those of a new text.   *)
AcceptDraft ==
  /\ step = "author" /\ attempt > 0 /\ Quiet /\ input' \in Inputs
  /\ step' \in IF editor THEN {"preflight", "wave"} ELSE {"wave"}
  /\ held' = 0 /\ offered' = 0 /\ attempt' = 0 /\ revising' = FALSE /\ reported' = {}
  /\ again' = revising
  /\ UNCHANGED <<left, editor, confirmed, grant, deferred, fixes, fixed, repair, mended, waves,
                 seen, sent, overran>>

-----------------------------------------------------------------------------
(* _closure_phase.                                                         *)
Preflight ==
  /\ step = "preflight" /\ editor /\ Quiet
  /\ left >= FollowThrough + MinimumAuthor + ClosureCall
  /\ left >= ClosureCall + Handoff + ClosureCall
  /\ SendsAlone(ClosureCall) /\ step' \in {"revise", "wave"}
  /\ UNCHANGED <<editor, confirmed, estimate, wave, author, overran>>

Confirm ==
  /\ step = "confirm" /\ Quiet /\ editor /\ ~confirmed /\ left >= ClosureCall + Handoff
  /\ SendsAlone(ClosureCall) /\ confirmed' = TRUE /\ step' = "integrate"
  /\ UNCHANGED <<editor, estimate, wave, author, overran>>

FinalAllowance == Lesser(Handoff, left - Least)

IntegrateHandoff ==
  /\ step = "integrate" /\ Quiet /\ EndsRun
  /\ FinalAllowance >= SummaryMin /\ SendsAlone(FinalAllowance)
  /\ UNCHANGED <<editor, confirmed, estimate, wave, author, overran>>

-----------------------------------------------------------------------------
(* _audit_wave: the grants of the roles that have no report yet.           *)
Due == Reviewer \ reported
Free == left - ProtectedReserve
DueUsage == UsageOf(Due)

FirstRepair ==
  LET spare == Lesser(RepairReserve, Larger(0, Free - DueUsage)) IN
  IF Due # {} /\ Free >= Fair * Cardinality(Due) + Least THEN Larger(Least, spare) ELSE spare

Share(n) == Lesser(TokenLimit \div 4, n \div Larger(1, Cardinality(Due)))

FirstGrants == [r \in Due |-> Lesser(Share(Free - FirstRepair), ReviewUsage(r))]

LowestRoles(roles, n) == {r \in roles : Cardinality({q \in roles : q < r}) < n}

(* The first roles get a slot, the others wait with their grants.          *)
Opens(grants, pool) ==
  LET first == LowestRoles(Due, Concurrent) IN
  /\ Due = {} => UNCHANGED <<left, grant, sent>>
  /\ Due # {} => Sends([r \in first |-> grants[r]])
  /\ deferred' = [r \in Reviewer |-> IF r \in Due \ first THEN grants[r] ELSE 0]
  /\ \E replayed \in SUBSET reported :   \* returns of an earlier run, found defective
       fixes' = replayed /\ reported' = reported \ replayed
  /\ repair' = pool /\ mended' = 0 /\ fixed' = {}
  /\ waves' = waves + 1 /\ step' = "reviews"
  /\ UNCHANGED <<editor, confirmed, estimate, author, overran>>

FirstWave ==
  /\ step = "wave" /\ Quiet /\ waves < MaxWaves /\ (again => Due = {})
  /\ Due # {} => Share(Free) >= Least
  /\ Opens(FirstGrants, FirstRepair)

(* After a revision every role keeps the grant it is expected to need.     *)
NextWave ==
  /\ step = "wave" /\ Quiet /\ waves < MaxWaves /\ again /\ Due # {}
  /\ Share(Free) >= Least /\ Free >= DueUsage + RepairReserve
  /\ Opens([r \in Due |-> ReviewUsage(r)], RepairReserve)

Waiting == {r \in Reviewer : deferred[r] > 0}
Promised == Total(deferred, Reviewer)
RepairLeft == Larger(0, repair - mended)
Reviewing == {r \in Reviewer : grant[r] > 0}

ReadsReserve(r) == Free - RepairLeft - (Promised - deferred[r]) >= deferred[r]

DispatchWaiting ==
  /\ step = "reviews" /\ fixes = {} /\ Waiting # {} /\ Reviewing \cap fixed = {}
  /\ Cardinality(Reviewing) < Concurrent
  /\ \E r \in LowestRoles(Waiting, 1) :
       /\ ReadsReserve(r) /\ Sends([q \in {r} |-> deferred[r]])
       /\ deferred' = [deferred EXCEPT ![r] = 0]
  /\ UNCHANGED <<editor, confirmed, step, estimate, reported, fixes, fixed, repair, mended, waves,
                 author, overran>>

(* _correction_grants: what each needs at least, and its part of the pool; *)
(* of a local revision the pool is all there is.                           *)
Available_All == Larger(0, Free)

Available == Larger(0, Free - Promised)

Corrections(needs, target) ==
  LET required == Total(needs, fixes)
      pool     == Larger(required, Lesser(target, Available))
      each     == (pool - required) \div Cardinality(fixes)
      odd      == (pool - required) % Cardinality(fixes)
  IN [r \in fixes |-> needs[r] + each + (IF r \in LowestRoles(fixes, odd) THEN 1 ELSE 0)]

RequestCorrections ==
  /\ step = "reviews" /\ Reviewing = {} /\ fixes # {}
  /\ repair' = Lesser(RepairReserve, Available)
  /\ \E needs \in [fixes -> Inputs], local \in BOOLEAN :
       LET target == IF local THEN Available ELSE Larger(0, repair' - mended)
           grants == Corrections(needs, target) IN
       /\ Total(needs, fixes) <= Available
       /\ local => Cardinality(fixes) + Cardinality(fixed) <= 1
       /\ Sends(grants) /\ mended' = mended + Total(grants, fixes)
  /\ fixed' = fixed \cup fixes /\ fixes' = {}
  /\ UNCHANGED <<editor, confirmed, step, estimate, deferred, reported, waves, author, overran>>

-----------------------------------------------------------------------------
(* usage: only a final count releases what was not used, and a count over  *)
(* the grant is charged in full; over the limit it stops the run.          *)
CallCharge(c, used, final) == IF final THEN used ELSE Larger(grant[c], used)

Kinds(c) ==
  IF c \in fixed \/ (step = "author" /\ attempt = 2) THEN {Fixes}
  ELSE IF c # 0 THEN {c}
  ELSE IF step # "author" THEN {}
  ELSE IF revising THEN {0, Revision} ELSE {0}

Observe(c, used, final) ==
  seen' = [k \in 0 .. Revision |->
             IF final /\ k \in Kinds(c) THEN Larger(seen[k], used) ELSE seen[k]]

Used(c, used, final) ==
  /\ grant[c] > 0 /\ grant' = [grant EXCEPT ![c] = 0]
  /\ left' = Larger(0, left + grant[c] - CallCharge(c, used, final))
  /\ overran' = overran + Larger(0, used - grant[c])
  /\ mended' = IF c \in fixed THEN mended - grant[c] + CallCharge(c, used, final) ELSE mended
  /\ Observe(c, used, final)

CallReturns(used, final) ==
  /\ step # "off" /\ Used(0, used, final)
  /\ IF left + grant[0] < CallCharge(0, used, final) THEN EndsRun ELSE UNCHANGED step
  /\ UNCHANGED <<editor, confirmed, input, again, deferred, reported, fixes, fixed, repair, waves,
                 author, sent>>

(* A report is accepted, or to be corrected once.                          *)
ReportReturns(r, used, final) ==
  /\ step = "reviews" /\ Used(r, used, final)
  /\ IF left + grant[r] < CallCharge(r, used, final) THEN EndsRun /\ UNCHANGED <<reported, fixes>>
     ELSE \/ reported' = reported \cup {r} /\ UNCHANGED <<fixes, step>>
          \/ r \notin fixed /\ fixes' = fixes \cup {r} /\ UNCHANGED <<reported, step>>
  /\ UNCHANGED <<editor, confirmed, input, again, deferred, fixed, repair, waves, author, sent>>

WaveDone ==
  /\ step = "reviews" /\ reported = Reviewer
  /\ step' \in {"revise"} \cup (IF editor THEN {"confirm"} ELSE {"integrate"})
  /\ fixed' = {} /\ repair' = 0 /\ mended' = 0
  /\ UNCHANGED <<left, editor, confirmed, grant, estimate, deferred, reported, fixes, waves, author,
                 sent, overran>>

(* What a call burns: little, all of its grant, or more than that.         *)
Uses(c) == {1, grant[c]} \cup (IF overran < MaxOverrun THEN {grant[c] + 1} ELSE {})

CapacityNext ==
  \/ StopCapacity \/ DraftFirst \/ Revise \/ CorrectDraft \/ AcceptDraft \/ Preflight \/ Confirm
  \/ IntegrateHandoff \/ FirstWave \/ NextWave \/ DispatchWaiting \/ RequestCorrections \/ WaveDone
  \/ \E final \in BOOLEAN :
       \/ \E used \in Uses(0) : CallReturns(used, final)
       \/ \E r \in Reviewer : \E used \in Uses(r) : ReportReturns(r, used, final)

CapacitySpec == CapacityInit /\ [][CapacityNext]_capvars

-----------------------------------------------------------------------------
(* What the run still promises: the handoff until it is sent, the editor   *)
(* until it was asked to confirm, the reviewers that wait and the pool for *)
(* repairs, or what was held for after the author.                         *)
Owed ==
  Larger(held, Handoff + (IF editor /\ ~confirmed THEN ClosureCall ELSE 0)
               + (IF step = "reviews" THEN Promised + RepairLeft ELSE 0))

(* Whatever the calls use, correct or lose, each later call finds what was *)
(* promised to it, less only what calls burned beyond their grants ("the   *)
(* final specialist review reservation preserved", "deferred roles keep    *)
(* their token grants", "future review cannot be borrowed by the author"); *)
(* and a run that spent anything can still pay its final summary.          *)
PromisesFunded ==
  /\ sent /\ step # "off" => left + overran >= Owed
  /\ sent /\ step = "integrate" /\ Quiet /\ overran <= Handoff - Least - SummaryMin
       => FinalAllowance >= SummaryMin
=============================================================================
