----------------------------- MODULE MCWorkflows -----------------------------
(***************************************************************************)
(* The three long-running workflows that produce text, what one of them    *)
(* may spend, the paid evaluation of such work and the worker process that *)
(* serves them.  None reads the state of another here, so a behaviour      *)
(* takes steps of one of them only, whichever it is.                       *)
(***************************************************************************)
EXTENDS Proposals, SpecialistCampaign, CampaignCapacity, Delegation, EvaluationPair, CodexWorker,
        TLC

CONSTANTS w1, w2, k1, k2

VARIABLE workflow

Workflows == {"proposal", "campaign", "capacity", "delegation", "evaluation", "worker"}

Init ==
  /\ workflow \in Workflows
  /\ ProposalsInit /\ CampaignInit /\ CapacityInit /\ DelegationInit /\ EvaluationInit /\ WorkerInit
  /\ workflow # "campaign" => ~editorial
  /\ workflow # "capacity" => CapacityFresh

Next ==
  /\ \/ workflow = "proposal" /\ ProposalsNext /\ UNCHANGED <<campvars, capvars, delegvars, evars, wvars>>
     \/ workflow = "campaign" /\ CampaignNext /\ UNCHANGED <<propvars, capvars, delegvars, evars, wvars>>
     \/ workflow = "capacity" /\ CapacityNext
        /\ UNCHANGED <<propvars, campvars, delegvars, evars, wvars>>
     \/ workflow = "delegation" /\ DelegationNext /\ UNCHANGED <<propvars, campvars, capvars, evars, wvars>>
     \/ workflow = "evaluation" /\ EvaluationNext
        /\ UNCHANGED <<propvars, campvars, capvars, delegvars, wvars>>
     \/ workflow = "worker" /\ WorkerNext
        /\ UNCHANGED <<propvars, campvars, capvars, delegvars, evars>>
  /\ UNCHANGED workflow

Spec == Init /\ [][Next]_<<workflow, propvars, campvars, capvars, delegvars, evars, wvars>>

Sym == Permutations({w1, w2}) \cup Permutations({k1, k2})

(* Every workflow keeps to its types; the others' state is as it began.    *)
TypeOK ==
  /\ workflow = "proposal" => TypeOKProposals
  /\ workflow = "campaign" => TypeOKCampaign
  /\ workflow = "capacity" => TypeOKCapacity
  /\ workflow = "delegation" => TypeOKDelegation
  /\ workflow = "evaluation" => TypeOKEvaluation
  /\ workflow = "worker" => TypeOKWorker
=============================================================================
