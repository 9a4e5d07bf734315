------------------------ MODULE PublicationPackages ------------------------
(***************************************************************************)
(* Publication packages of one submission: edited as drafts, frozen for    *)
(* review together with all they rest on, approved or rejected by a        *)
(* person, and built into bundles.  Requests overlap: each loads rows,     *)
(* takes snapshots of what is stored at that time, and writes what it      *)
(* decided when it commits.                                                *)
(*                                                                         *)
(* A basis hash is the snapshot it was computed from.  Authorship and the  *)
(* submission's own state machine have modules of their own; here they     *)
(* change freely; which order of authors is approved is written in the     *)
(* manuscript, whether it is presented depends on the contributors too.    *)
(***************************************************************************)
EXTENDS Naturals

CONSTANTS
  Packages,
  Wordings,    \* confirmed texts of the cover letter and the declarations
  Staff,       \* concurrent requests
  MaxChanges   \* bound: changes of the manuscript, its evidence, the submission or the authors

ASSUME PackageAssumptions == MaxChanges \in Nat

VARIABLES
  package,   \* the publication_packages table
  papers,    \* the manuscript with its evidence and submission: a version
  authors,   \* changes of what is presented as authorship; none is presented at first
  job,       \* request -> where it is and what it carries
  bundle,    \* the last bundle put into the artifact store
  frozen,    \* history: package -> the snapshots frozen for its review
  approvals  \* history: packages a person approved

pvars == <<package, papers, authors, job, bundle, frozen, approvals>>

Blank == "none"
Wording == {"unconfirmed"} \cup Wordings   \* not written, or a draft
Snapshot == [papers : 0 .. MaxChanges, authors : BOOLEAN,
             forms : Wording]
NoSnapshot == [papers |-> 0, authors |-> FALSE, forms |-> "unconfirmed"]
PackageRow == [state : {Blank, "draft", "review_ready", "approved", "rejected", "superseded"},
               forms : Wording, basis : Snapshot]
NoPackage == [state |-> Blank, forms |-> "unconfirmed", basis |-> NoSnapshot]
NoBundle == [package |-> Blank, printed |-> NoSnapshot, form |-> NoSnapshot]
NoJob == [at |-> "rest", package |-> Blank, snapshot |-> NoSnapshot, form |-> NoSnapshot, old |-> {}]

TypeOKPackages ==
  /\ package \in [Packages -> PackageRow]
  /\ papers \in 0 .. MaxChanges /\ authors \in 0 .. MaxChanges
  /\ job \in [Staff -> [at : {"rest", "edit", "prepare", "freeze", "prepared", "review", "approve",
                              "reject", "export", "assemble"},
                        package : Packages \cup {Blank}, snapshot : Snapshot, form : Snapshot,
                        old : SUBSET Packages]]
  /\ bundle \in [package : Packages \cup {Blank}, printed : Snapshot, form : Snapshot]
  /\ frozen \in [Packages -> SUBSET Snapshot]
  /\ approvals \subseteq Packages

PackagesInit ==
  /\ package = [p \in Packages |-> NoPackage]
  /\ papers = 0 /\ authors = 0
  /\ job = [s \in Staff |-> NoJob]
  /\ bundle = NoBundle /\ frozen = [p \in Packages |-> {}] /\ approvals = {}

-----------------------------------------------------------------------------
Snap(p) == [papers |-> papers, authors |-> (authors % 2 = 1), forms |-> package[p].forms]

(* readiness: everything confirmed and an approved order presented.        *)
Unblocked(s) == s.forms \in Wordings /\ s.authors

AsFrozen(p) == Snap(p) = package[p].basis   \* basis_hash

Open(s, p, state, at) ==
  /\ job[s] = NoJob /\ package[p].state = state
  /\ job' = [job EXCEPT ![s].at = at, ![s].package = p]
  /\ UNCHANGED <<package, papers, authors, bundle, frozen, approvals>>
Close(s) == job' = [job EXCEPT ![s] = NoJob]
outer == <<papers, authors>>

CreatePackage(p) ==
  /\ package[p].state = Blank
  /\ package' = [package EXCEPT ![p].state = "draft"]
  /\ UNCHANGED <<outer, job, bundle, frozen, approvals>>

(* set_cover_letter, draft_cover_letter, set_declaration: a draft only, as *)
(* it was loaded.                                                          *)
Edit(s) ==
  /\ job[s].at = "edit"
  /\ LET p == job[s].package IN
     \E w \in Wording :
       package' = [package EXCEPT ![p].forms = w]
  /\ Close(s) /\ UNCHANGED <<outer, bundle, frozen, approvals>>

(* prepare_for_review: what is frozen is a second snapshot.                *)
Check(s) ==
  /\ job[s].at = "prepare" /\ Unblocked(Snap(job[s].package))
  /\ job' = [job EXCEPT ![s].at = "freeze"]
  /\ UNCHANGED <<package, outer, bundle, frozen, approvals>>

Freeze(s) ==
  /\ job[s].at = "freeze"
  /\ job' = [job EXCEPT ![s].at = "prepared", ![s].snapshot = Snap(job[s].package)]
  /\ UNCHANGED <<package, outer, bundle, frozen, approvals>>

Prepare(s) ==
  LET p == job[s].package IN
  /\ job[s].at = "prepared"
  /\ package' = [package EXCEPT ![p].state = "review_ready", ![p].basis = job[s].snapshot]
  /\ frozen' = [frozen EXCEPT ![p] = @ \cup {job[s].snapshot}]
  /\ Close(s) /\ UNCHANGED <<outer, bundle, approvals>>

(* review_package: an approval supersedes what is approved at that time.   *)
Decide(s) ==
  LET p == job[s].package IN
  /\ job[s].at = "review"
  /\ \/ /\ AsFrozen(p) /\ Unblocked(Snap(p))
        /\ job' = [job EXCEPT ![s].at = "approve",
                              ![s].old = {q \in Packages \ {p} : package[q].state = "approved"}]
     \/ job' = [job EXCEPT ![s].at = "reject"]
  /\ UNCHANGED <<package, outer, bundle, frozen, approvals>>

CommitDecision(s) ==
  LET p == job[s].package IN
  /\ \/ /\ job[s].at = "approve" /\ approvals' = approvals \cup {p}
        /\ package' = [q \in Packages |->
             CASE q = p -> [package[q] EXCEPT !.state = "approved"]
               [] q \in job[s].old -> [package[q] EXCEPT !.state = "superseded"]
               [] OTHER -> package[q]]
     \/ /\ job[s].at = "reject" /\ UNCHANGED approvals
        /\ package' = [package EXCEPT ![p].state = "rejected"]
  /\ Close(s) /\ UNCHANGED <<outer, bundle, frozen>>

(* build_bundle: the export prints what the first snapshot loaded into the *)
(* session, and its manifest must show the evidence of the second snapshot,*)
(* whose letter and declarations are used; a third one follows when all    *)
(* files are there.                                                        *)
Export(s, p) ==
  /\ job[s] = NoJob /\ package[p].state = "approved"
  /\ AsFrozen(p) /\ Unblocked(Snap(p))
  /\ job' = [job EXCEPT ![s].at = "export", ![s].package = p, ![s].snapshot = Snap(p)]
  /\ UNCHANGED <<package, outer, bundle, frozen, approvals>>

SameEvidence(s) == job[s].snapshot.papers = papers

Assemble(s) ==
  LET p == job[s].package IN
  /\ job[s].at = "export" /\ AsFrozen(p) /\ SameEvidence(s)
  /\ job' = [job EXCEPT ![s].at = "assemble", ![s].form = Snap(p)]
  /\ UNCHANGED <<package, outer, bundle, frozen, approvals>>

Build(s) ==
  LET p == job[s].package IN
  /\ job[s].at = "assemble" /\ AsFrozen(p) /\ package[p].state = "approved"
  /\ bundle' = [package |-> p, printed |-> job[s].snapshot, form |-> job[s].form]
  /\ Close(s) /\ UNCHANGED <<package, outer, frozen, approvals>>

(* A check failed, or the request died: nothing is written.                *)
GiveUp(s) == job[s] # NoJob /\ Close(s) /\ UNCHANGED <<package, outer, bundle, frozen, approvals>>

OuterChanges ==
  /\ papers + authors < MaxChanges
  /\ \/ papers' = papers + 1 /\ UNCHANGED authors
     \/ authors' = authors + 1 /\ UNCHANGED papers
  /\ UNCHANGED <<package, job, bundle, frozen, approvals>>

PackagesNext ==
  \/ \E s \in Staff :
       \/ Edit(s) \/ Check(s) \/ Freeze(s) \/ Prepare(s) \/ Decide(s) \/ CommitDecision(s)
       \/ Assemble(s) \/ Build(s) \/ GiveUp(s)
       \/ \E p \in Packages : \/ Open(s, p, "draft", "edit") \/ Open(s, p, "draft", "prepare")
                              \/ Open(s, p, "review_ready", "review") \/ Export(s, p)
  \/ \E p \in Packages : CreatePackage(p)
  \/ OuterChanges

PackagesSpec == PackagesInit /\ [][PackagesNext]_pvars

-----------------------------------------------------------------------------
(* Both what a bundle prints and its letter and declarations are those of  *)
(* snapshots that were frozen for the review of a package a person         *)
(* approved, over the same manuscript and evidence; nothing printed waited *)
(* for a confirmation.  So a package prepared only once has only bundles  *)
(* of what was reviewed ("package changed during export; package was not   *)
(* assembled").  One prepared again by an overtaken request can mix the    *)
(* two.                                                                    *)
BundlesAsApproved ==
  bundle # NoBundle =>
    /\ {bundle.printed, bundle.form} \subseteq frozen[bundle.package]
    /\ bundle.package \in approvals
    /\ Unblocked(bundle.printed) /\ bundle.printed.papers = bundle.form.papers
=============================================================================
