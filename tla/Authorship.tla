----------------------------- MODULE Authorship -----------------------------
(***************************************************************************)
(* Authorship of one manuscript: contribution roles that people confirm,   *)
(* dispute or decline, and orders of authors that are proposed from them,  *)
(* bound to their hash, and approved.  What is presented as authorship is  *)
(* computed anew at each reading.  A hash is the assignments it was        *)
(* computed from; in which order the authors stand makes no difference     *)
(* here.                                                                   *)
(***************************************************************************)
EXTENDS Naturals

CONSTANTS
  Contributors, Roles,
  Editors,     \* concurrent requests
  MaxOrders,   \* bound: proposed orders
  MaxReviews   \* bound: reviews of assignments

ASSUME AuthorshipAssumptions == MaxOrders \in Nat /\ MaxReviews \in Nat

VARIABLES
  credit,      \* contributor and role -> state of the assignment
  order,       \* the authorship_proposals table
  approvedId,  \* the manuscript's approved_authorship_proposal_id
  editor,      \* editor -> what it has loaded and is about to write
  reviews      \* how many reviews of assignments there were

avars == <<credit, order, approvedId, editor, reviews>>

Order == 1 .. MaxOrders
Assignments == [Contributors \X Roles -> {"none", "proposed", "confirmed", "disputed", "declined"}]
NoOrder == [status |-> "none", authors |-> {}, basis |-> [a \in {} |-> "none"]]
Proposal == [status : {"proposed", "approved", "rejected", "superseded"},
             authors : SUBSET Contributors, basis : Assignments]
NoWork == [does |-> "nothing", order |-> 0, prior |-> {}]

TypeOKAuthorship ==
  /\ credit \in Assignments
  /\ order \in [Order -> Proposal \cup {NoOrder}]
  /\ approvedId \in {0} \cup Order
  /\ editor \in [Editors -> [does : {"nothing", "approve", "reject"},
                             order : {0} \cup Order, prior : SUBSET Order]]
  /\ reviews \in 0 .. MaxReviews

AuthorshipInit ==
  /\ credit = [a \in Contributors \X Roles |-> "none"]
  /\ order = [o \in Order |-> NoOrder]
  /\ approvedId = 0
  /\ editor = [e \in Editors |-> NoWork]
  /\ reviews = 0

-----------------------------------------------------------------------------
Has(assignments, c, state) == \E role \in Roles : assignments[<<c, role>>] = state

Work(e, does, o, prior) ==
  /\ editor[e] = NoWork
  /\ editor' = [editor EXCEPT ![e] = [does |-> does, order |-> o, prior |-> prior]]
Rest(e) == editor' = [editor EXCEPT ![e] = NoWork]

ProposeAssignment(c, role) ==
  /\ credit[<<c, role>>] = "none" /\ credit' = [credit EXCEPT ![<<c, role>>] = "proposed"]
  /\ UNCHANGED <<order, approvedId, editor, reviews>>

(* review_assignment asks nothing of the state it replaces.                *)
ReviewAssignment(c, role, state) ==
  /\ credit[<<c, role>>] \notin {"none", state}
  /\ reviews < MaxReviews /\ reviews' = reviews + 1
  /\ credit' = [credit EXCEPT ![<<c, role>>] = state]
  /\ UNCHANGED <<order, approvedId, editor>>

(* create_order_proposal takes any contributors, suggest_order those with  *)
(* a confirmed role, unless something is disputed.  A proposal inserted    *)
(* later than its snapshot was taken is one that nobody looked at before.  *)
Insert(authors) ==
  /\ authors # {}
  /\ \E o \in Order :
       /\ order[o] = NoOrder /\ \A p \in Order : p < o => order[p] # NoOrder
       /\ order' = [order EXCEPT ![o] = [status |-> "proposed", authors |-> authors,
                                        basis |-> credit]]
  /\ UNCHANGED <<credit, approvedId, editor, reviews>>

CreateOrder == \E authors \in SUBSET Contributors : Insert(authors)

SuggestOrder ==
  /\ \A c \in Contributors : ~Has(credit, c, "disputed")
  /\ Insert({c \in Contributors : Has(credit, c, "confirmed")})

Approvable(o) ==
  /\ order[o].basis = credit
  /\ \A c \in order[o].authors : Has(credit, c, "confirmed") /\ ~Has(credit, c, "disputed")

ApproveOrder(e, o) ==
  /\ order[o].status = "proposed" /\ Approvable(o)
  /\ Work(e, "approve", o, {p \in Order \ {o} : order[p].status = "approved"})
  /\ UNCHANGED <<credit, order, approvedId, reviews>>

RejectOrder(e, o) ==
  /\ order[o].status = "proposed" /\ Work(e, "reject", o, {})
  /\ UNCHANGED <<credit, order, approvedId, reviews>>

(* The decision is written as it was taken, to rows as they are by now.    *)
CommitReview(e) ==
  LET o == editor[e].order IN
  /\ \/ /\ editor[e].does = "approve" /\ approvedId' = o
        /\ order' = [p \in Order |->
             CASE p = o -> [order[p] EXCEPT !.status = "approved"]
               [] p \in editor[e].prior -> [order[p] EXCEPT !.status = "superseded"]
               [] OTHER -> order[p]]
     \/ /\ editor[e].does = "reject" /\ UNCHANGED approvedId
        /\ order' = [order EXCEPT ![o].status = "rejected"]
  /\ Rest(e) /\ UNCHANGED <<credit, reviews>>

AuthorshipNext ==
  \/ \E c \in Contributors, role \in Roles :
       \/ ProposeAssignment(c, role)
       \/ \E state \in {"confirmed", "disputed", "declined"} : ReviewAssignment(c, role, state)
  \/ CreateOrder \/ SuggestOrder
  \/ \E e \in Editors : \/ CommitReview(e)
                        \/ \E o \in Order : ApproveOrder(e, o) \/ RejectOrder(e, o)

AuthorshipSpec == AuthorshipInit /\ [][AuthorshipNext]_avars

-----------------------------------------------------------------------------
Presented_Unhashed ==
  IF approvedId # 0 /\ order[approvedId].status = "approved"
  THEN order[approvedId].authors ELSE {}

(* export_credit: what a reader of an export is told.                      *)
Presented ==
  IF /\ approvedId # 0 /\ order[approvedId].status = "approved"
     /\ order[approvedId].basis = credit
  THEN order[approvedId].authors ELSE {}

(* Whoever is presented as an author has a confirmed role at that moment   *)
(* and disputes none, however late an approval was committed and whatever  *)
(* it overtook ("only a current human-approved order is presented as       *)
(* authorship").                                                           *)
PresentedAuthorsConfirmed ==
  \A c \in Presented : Has(credit, c, "confirmed") /\ ~Has(credit, c, "disputed")
=============================================================================
