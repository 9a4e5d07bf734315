---------------------------- MODULE MCReviewGates ----------------------------
(***************************************************************************)
(* The parts in which requests of people overlap: six where a person       *)
(* decides on what a machine or another person proposed, the accounts      *)
(* those requests come from and what they may do, the pilot a custodian    *)
(* conducts and the roles of an evaluation arm, the sources of a project,  *)
(* and its transfer.  None reads the state of another, so a behaviour      *)
(* takes steps of one part only, whichever it is: a product of them would  *)
(* reach the same states of each.                                          *)
(***************************************************************************)
EXTENDS DialogueActions, ComputeRuns, Submissions, Authorship, PublicationPackages,
        FindingReview, Accounts, DesktopPilot, SourceGraph, ProjectTransfer,
        EvaluationRoles, Access, ProposalExports, TLC

CONSTANTS r1, r2, t, u

VARIABLE part

Parts == {"dialogue", "compute", "submission", "authorship", "packages", "exports", "finding",
          "accounts", "access", "desktop", "roles", "sources", "transfer"}

Init ==
  /\ part \in Parts
  /\ DialogueInit /\ ComputeInit /\ SubmissionInit /\ AuthorshipInit /\ PackagesInit
  /\ FindingInit /\ AccountsInit /\ PilotInit /\ ExportsInit /\ AccessInit /\ RolesInit /\ SourcesInit
  /\ TransferInit
  /\ section.text = CHOOSE text \in Texts : TRUE   \* the names of texts do not matter
  /\ part # "dialogue" => engine = "sqlite"
  /\ part # "compute" => world = "w0"
  /\ part # "roles" => mechanism = "B0"
  /\ part # "transfer" => Untouched
  /\ part # "accounts" => policy = [open |-> FALSE, linking |-> FALSE]

Next ==
  /\ \/ part = "dialogue" /\ DialogueNext
        /\ UNCHANGED <<cvars, svars, avars, pvars, exportvars, fvars, acctvars, accessvars,
                       deskvars, rolevars, srcvars, transfervars>>
     \/ part = "compute" /\ ComputeNext
        /\ UNCHANGED <<dvars, svars, avars, pvars, exportvars, fvars, acctvars, accessvars,
                       deskvars, rolevars, srcvars, transfervars>>
     \/ part = "submission" /\ SubmissionNext
        /\ UNCHANGED <<dvars, cvars, avars, pvars, exportvars, fvars, acctvars, accessvars,
                       deskvars, rolevars, srcvars, transfervars>>
     \/ part = "authorship" /\ AuthorshipNext
        /\ UNCHANGED <<dvars, cvars, svars, pvars, exportvars, fvars, acctvars, accessvars,
                       deskvars, rolevars, srcvars, transfervars>>
     \/ part = "packages" /\ PackagesNext
        /\ UNCHANGED <<dvars, cvars, svars, avars, exportvars, fvars, acctvars, accessvars,
                       deskvars, rolevars, srcvars, transfervars>>
     \/ part = "exports" /\ ExportsNext
        /\ UNCHANGED <<dvars, cvars, svars, avars, pvars, fvars, acctvars, accessvars,
                       deskvars, rolevars, srcvars, transfervars>>
     \/ part = "finding" /\ FindingNext
        /\ UNCHANGED <<dvars, cvars, svars, avars, pvars, exportvars, acctvars, accessvars,
                       deskvars, rolevars, srcvars, transfervars>>
     \/ part = "accounts" /\ AccountsNext
        /\ UNCHANGED <<dvars, cvars, svars, avars, pvars, exportvars, fvars, accessvars,
                       deskvars, rolevars, srcvars, transfervars>>
     \/ part = "access" /\ AccessNext
        /\ UNCHANGED <<dvars, cvars, svars, avars, pvars, exportvars, fvars, acctvars,
                       deskvars, rolevars, srcvars, transfervars>>
     \/ part = "desktop" /\ PilotNext
        /\ UNCHANGED <<dvars, cvars, svars, avars, pvars, exportvars, fvars, acctvars,
                       accessvars, rolevars, srcvars, transfervars>>
     \/ part = "roles" /\ RolesNext
        /\ UNCHANGED <<dvars, cvars, svars, avars, pvars, exportvars, fvars, acctvars,
                       accessvars, deskvars, srcvars, transfervars>>
     \/ part = "sources" /\ SourcesNext
        /\ UNCHANGED <<dvars, cvars, svars, avars, pvars, exportvars, fvars, acctvars,
                       accessvars, deskvars, rolevars, transfervars>>
     \/ part = "transfer" /\ TransferNext
        /\ UNCHANGED <<dvars, cvars, svars, avars, pvars, exportvars, fvars, acctvars,
                       accessvars, deskvars, rolevars, srcvars>>
  /\ UNCHANGED part

Spec ==
  Init /\ [][Next]_<<part, dvars, cvars, svars, avars, pvars, exportvars, fvars,
                     acctvars, accessvars, deskvars, rolevars, srcvars, transfervars>>

Sym == Permutations({r1, r2}) \cup Permutations({t, u})

(* Every part keeps to its types; the state of the others is as it began.  *)
TypeOK ==
  /\ part = "dialogue" => TypeOKDialogue
  /\ part = "compute" => TypeOKCompute
  /\ part = "submission" => TypeOKSubmission
  /\ part = "authorship" => TypeOKAuthorship
  /\ part = "packages" => TypeOKPackages
  /\ part = "exports" => TypeOKExports
  /\ part = "finding" => TypeOKFinding
  /\ part = "accounts" => TypeOKAccounts
  /\ part = "access" => TypeOKAccess
  /\ part = "desktop" => TypeOKPilot
  /\ part = "roles" => TypeOKRoles
  /\ part = "sources" => TypeOKSources
  /\ part = "transfer" => TypeOKTransfer

(* What is handed out is what was decided on: the bundle of a package as   *)
(* approved, the export of a version as recorded.                          *)
HandedOut == BundlesAsApproved /\ ExportsAgree

(* Whoever was shut out stays out: a session after its logout, a key after *)
(* its revocation; and nobody holds a key or a project beyond their role.  *)
ShutOut == LogoutHolds /\ KeysHold
=============================================================================
