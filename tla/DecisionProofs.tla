--------------------------- MODULE DecisionProofs ---------------------------
(***************************************************************************)
(* Proofs about the parts in which a person decides on what a machine or   *)
(* another person proposed: orders of authors, reviews of findings, the    *)
(* way of a submission, compute runs, publication packages, exports of a   *)
(* proposal's versions, and merges of duplicate sources.  For any number   *)
(* of requests, rows and versions, and any bounds.  Each part has its own  *)
(* inductive invariant: what every request in flight carries, related to   *)
(* the rows it will write over.  The last section puts these parts and     *)
(* those of DialogueProofs and CustodyProofs together, as MCReviewGates    *)
(* does.                                                                   *)
(***************************************************************************)
EXTENDS MCReviewGates, DialogueProofs, CustodyProofs, FiniteSetTheorems, SequenceTheorems,
        WellFoundedInduction

-----------------------------------------------------------------------------
(* Orders of authors: Authorship.                                          *)

(* Who a set of assignments lets stand as those.                         *)
Standing(those, assignments) ==
  \A c \in those : Has(assignments, c, "confirmed") /\ ~Has(assignments, c, "disputed")

(* A request writes to orders that exist; one that will approve has looked *)
(* at the very basis the order keeps; so an approved order stands by its   *)
(* basis, and Presented asks that the basis is still the assignments.      *)
OrdersSound ==
  /\ TypeOKAuthorship
  /\ \A e \in Editors : editor[e].does # "nothing" =>
       /\ editor[e].order \in Order
       /\ \A p \in editor[e].prior \cup {editor[e].order} : order[p] \in Proposal
  /\ \A e \in Editors : editor[e].does = "approve" =>
       Standing(order[editor[e].order].authors, order[editor[e].order].basis)
  /\ \A o \in Order : order[o].status = "approved" =>
       Standing(order[o].authors, order[o].basis)

-----------------------------------------------------------------------------
LEMMA OrdersInitSound == AuthorshipInit => OrdersSound
<1> SUFFICES ASSUME AuthorshipInit PROVE OrdersSound
  OBVIOUS
<1>1. credit \in Assignments
  BY DEF AuthorshipInit, Assignments
<1>2. TypeOKAuthorship
  BY <1>1, AuthorshipAssumptions DEF AuthorshipInit, TypeOKAuthorship, NoWork
<1> QED BY <1>2 DEF AuthorshipInit, OrdersSound, NoWork, NoOrder

(* An order that is there keeps its those and its basis whatever happens *)
(* to its status.                                                          *)
LEMMA InsertOrderSound ==
  ASSUME OrdersSound, NEW those \in SUBSET Contributors, Insert(those)
  PROVE  OrdersSound'
<1>1. PICK o \in Order :
        /\ order[o] = NoOrder
        /\ order' = [order EXCEPT ![o] = [status |-> "proposed", authors |-> those,
                                         basis |-> credit]]
  BY DEF Insert
<1>2. UNCHANGED <<credit, approvedId, editor, reviews>>
  BY DEF Insert
<1>3. /\ order'[o] = [status |-> "proposed", authors |-> those, basis |-> credit]
      /\ order'[o] \in Proposal
      /\ \A p \in Order \ {o} : order'[p] = order[p]
      /\ order' \in [Order -> Proposal \cup {NoOrder}]
  BY <1>1 DEF OrdersSound, TypeOKAuthorship, Proposal
<1>4. NoOrder \notin Proposal
  BY DEF NoOrder, Proposal
<1>5. \A e \in Editors : editor[e].does # "nothing" =>
        \A p \in editor[e].prior \cup {editor[e].order} : p # o
  BY <1>1, <1>4 DEF OrdersSound
<1>6. TypeOKAuthorship'
  BY <1>2, <1>3 DEF OrdersSound, TypeOKAuthorship
<1>7. \A e \in Editors : editor[e].prior \subseteq Order
  BY DEF OrdersSound, TypeOKAuthorship
<1> QED BY <1>2, <1>3, <1>5, <1>6, <1>7 DEF OrdersSound, Standing

LEMMA LooksAtOrderSound ==
  ASSUME OrdersSound, NEW e \in Editors, NEW o \in Order, ApproveOrder(e, o) \/ RejectOrder(e, o)
  PROVE  OrdersSound'
<1>1. UNCHANGED <<credit, order, approvedId, reviews>>
  BY DEF ApproveOrder, RejectOrder
<1>2. order[o] \in Proposal
  BY DEF ApproveOrder, RejectOrder, OrdersSound, TypeOKAuthorship, NoOrder
<1>3. /\ \A f \in Editors \ {e} : editor'[f] = editor[f]
      /\ editor' \in [Editors -> [does : {"nothing", "approve", "reject"},
                                  order : {0} \cup Order, prior : SUBSET Order]]
      /\ editor'[e].order = o
      /\ \A p \in editor'[e].prior : p \in Order /\ order[p].status = "approved"
      /\ editor'[e].does = "approve" => Approvable(o)
  <2>1. ASSUME ApproveOrder(e, o)
        PROVE  editor' = [editor EXCEPT ![e] =
                 [does |-> "approve", order |-> o,
                  prior |-> {p \in Order \ {o} : order[p].status = "approved"}]] /\ Approvable(o)
    BY <2>1 DEF ApproveOrder, Work
  <2>2. ASSUME RejectOrder(e, o)
        PROVE  editor' = [editor EXCEPT ![e] = [does |-> "reject", order |-> o, prior |-> {}]]
    BY <2>2 DEF RejectOrder, Work
  <2>3. CASE ApproveOrder(e, o)
    BY <2>1, <2>3 DEF OrdersSound, TypeOKAuthorship
  <2>4. CASE RejectOrder(e, o)
    BY <2>2, <2>4 DEF OrdersSound, TypeOKAuthorship
  <2> QED BY <2>3, <2>4
<1>4. \A p \in editor'[e].prior \cup {o} : order[p] \in Proposal
  BY <1>2, <1>3 DEF OrdersSound, TypeOKAuthorship, NoOrder
<1>5. editor'[e].does = "approve" => Standing(order[o].authors, order[o].basis)
  BY <1>3 DEF Approvable, Standing
<1>6. TypeOKAuthorship'
  BY <1>1, <1>3 DEF OrdersSound, TypeOKAuthorship
<1> QED BY <1>1, <1>3, <1>4, <1>5, <1>6 DEF OrdersSound, Standing

LEMMA CommitOrderSound ==
  ASSUME OrdersSound, NEW e \in Editors, CommitReview(e)
  PROVE  OrdersSound'
<1> DEFINE o == editor[e].order
<1>1. /\ UNCHANGED <<credit, reviews>> /\ editor' = [editor EXCEPT ![e] = NoWork]
      /\ editor[e].does # "nothing" /\ o \in Order /\ editor[e].prior \subseteq Order
      /\ approvedId' \in {0} \cup Order
  BY DEF CommitReview, Rest, OrdersSound, TypeOKAuthorship
<1>2. order[o] \in Proposal /\ \A p \in editor[e].prior : order[p] \in Proposal
  BY <1>1 DEF OrdersSound
<1>3. \A p \in Order :
        \/ order'[p] = order[p]
        \/ /\ order[p] \in Proposal /\ editor[e].does = "approve" /\ p = o
           /\ order'[p] = [order[p] EXCEPT !.status = "approved"]
        \/ /\ order[p] \in Proposal
           /\ order'[p] = [order[p] EXCEPT !.status = "superseded"]
        \/ /\ order[p] \in Proposal
           /\ order'[p] = [order[p] EXCEPT !.status = "rejected"]
  BY <1>1, <1>2 DEF CommitReview, OrdersSound, TypeOKAuthorship
<1>4. \A p \in Order :
        /\ order[p] \in Proposal => order'[p] \in Proposal
        /\ order'[p] \in Proposal \cup {NoOrder}
        /\ order'[p].authors = order[p].authors /\ order'[p].basis = order[p].basis
        /\ order'[p].status = "approved" =>
             Standing(order'[p].authors, order'[p].basis)
  <2> TAKE p \in Order
  <2>1. order[p] \in Proposal \cup {NoOrder}
    BY DEF OrdersSound, TypeOKAuthorship
  <2>2. order[p].status = "approved" => Standing(order[p].authors, order[p].basis)
    BY DEF OrdersSound
  <2>3. editor[e].does = "approve" => Standing(order[o].authors, order[o].basis)
    BY DEF OrdersSound
  <2>4. CASE order'[p] = order[p]
    BY <2>1, <2>2, <2>4
  <2>5. ASSUME NEW status \in {"approved", "superseded", "rejected"}, order[p] \in Proposal,
               order'[p] = [order[p] EXCEPT !.status = status]
        PROVE  /\ order'[p] \in Proposal /\ order'[p].status = status
               /\ order'[p].authors = order[p].authors /\ order'[p].basis = order[p].basis
    BY <2>5 DEF Proposal
  <2> QED BY <1>3, <2>3, <2>4, <2>5
<1>5. DOMAIN order' = Order /\ order' = [p \in Order |-> order'[p]]
  BY DEF CommitReview, OrdersSound, TypeOKAuthorship
<1>6. order' \in [Order -> Proposal \cup {NoOrder}]
  BY <1>4, <1>5
<1>7. /\ editor'[e] = NoWork
      /\ \A f \in Editors \ {e} : editor'[f] = editor[f]
      /\ \A f \in Editors : editor[f].prior \subseteq Order
  BY <1>1 DEF OrdersSound, TypeOKAuthorship
<1>8. TypeOKAuthorship'
  <2>1. editor' \in [Editors -> [does : {"nothing", "approve", "reject"},
                                 order : {0} \cup Order, prior : SUBSET Order]]
    BY <1>1 DEF OrdersSound, TypeOKAuthorship, NoWork
  <2> QED BY <1>1, <1>6, <2>1 DEF OrdersSound, TypeOKAuthorship
<1>9. \A f \in Editors : editor'[f].does # "nothing" =>
        f # e /\ editor'[f] = editor[f] /\ editor[f].order \in Order
  BY <1>7 DEF NoWork, OrdersSound
<1>10. \A f \in Editors : editor'[f].does # "nothing" =>
         /\ editor'[f].order \in Order
         /\ \A p \in editor'[f].prior \cup {editor'[f].order} : order'[p] \in Proposal
  BY <1>4, <1>7, <1>9 DEF OrdersSound
<1>11. \A f \in Editors : editor'[f].does = "approve" =>
         Standing(order'[editor'[f].order].authors, order'[editor'[f].order].basis)
  BY <1>4, <1>9 DEF OrdersSound
<1> QED BY <1>4, <1>8, <1>10, <1>11 DEF OrdersSound, Standing

LEMMA OrdersNextSound == OrdersSound /\ [AuthorshipNext]_avars => OrdersSound'
<1> SUFFICES ASSUME OrdersSound, [AuthorshipNext]_avars PROVE OrdersSound'
  OBVIOUS
<1>1. ASSUME NEW c \in Contributors, NEW duty \in Roles, ProposeAssignment(c, duty)
      PROVE  OrdersSound'
  BY <1>1 DEF ProposeAssignment, OrdersSound, TypeOKAuthorship, Assignments, Standing
<1>2. ASSUME NEW c \in Contributors, NEW duty \in Roles,
             NEW state \in {"confirmed", "disputed", "declined"},
             ReviewAssignment(c, duty, state)
      PROVE  OrdersSound'
  <2>1. credit' \in Assignments /\ reviews' \in 0 .. MaxReviews
    BY <1>2, AuthorshipAssumptions DEF ReviewAssignment, OrdersSound, TypeOKAuthorship, Assignments
  <2> QED BY <1>2, <2>1 DEF ReviewAssignment, OrdersSound, TypeOKAuthorship, Standing
<1>3. CASE CreateOrder
  BY <1>3, InsertOrderSound DEF CreateOrder
<1>4. CASE SuggestOrder
  <2>1. {c \in Contributors : Has(credit, c, "confirmed")} \in SUBSET Contributors
    OBVIOUS
  <2> QED BY <1>4, <2>1, InsertOrderSound DEF SuggestOrder
<1>5. CASE UNCHANGED avars
  BY <1>5 DEF avars, OrdersSound, TypeOKAuthorship, Standing
<1> QED BY <1>1, <1>2, <1>3, <1>4, <1>5, CommitOrderSound, LooksAtOrderSound DEF AuthorshipNext

-----------------------------------------------------------------------------
(* Orders and assignments stay well typed, and an approved order stands by *)
(* the assignments it was hashed from (authorship.py, review of an order). *)
THEOREM OrdersHold == AuthorshipSpec => []OrdersSound
<1> QED BY OrdersInitSound, OrdersNextSound, PTL DEF AuthorshipSpec

(* Nobody is presented as an author whose roles are not confirmed at that  *)
(* moment, however late an approval commits and whatever it overtakes.     *)
THEOREM PresentedAuthorsConfirmedHolds == AuthorshipSpec => []PresentedAuthorsConfirmed
<1>1. OrdersSound => PresentedAuthorsConfirmed
  <2> SUFFICES ASSUME OrdersSound, NEW c \in Presented
               PROVE  Has(credit, c, "confirmed") /\ ~Has(credit, c, "disputed")
    BY DEF PresentedAuthorsConfirmed
  <2>1. /\ approvedId \in Order /\ order[approvedId].status = "approved"
        /\ order[approvedId].basis = credit /\ c \in order[approvedId].authors
    BY DEF Presented, OrdersSound, TypeOKAuthorship
  <2> QED BY <2>1 DEF OrdersSound, Standing
<1> QED BY <1>1, OrdersHold, PTL

-----------------------------------------------------------------------------
(* Reviews of findings: FindingReview.                                     *)

(* Whoever loaded the row at the revision it still has knows its reviews,  *)
(* though a task may have ended and reports may have come meanwhile.       *)
Knows(r) ==
  reviewer[r].doing # "nothing" =>
    /\ reviewer[r].row.revision <= task.revision
    /\ reviewer[r].row.revision = task.revision => reviewer[r].row.reviews = task.reviews

(* What a request is about to write was not promoted when it looked, and a *)
(* promotion carries the report it was approved for.                       *)
Decided(r) ==
  LET now == reviewer[r] IN
  now.doing \in {"review", "promote"} =>
    /\ now.purpose \in Purposes /\ ~now.row.reviews[now.purpose].promotion
    /\ now.doing = "promote" =>
         /\ now.write.promotion /\ now.write.decision = "approved"
         /\ now.write.hash.report = now.saw

Seat == [doing : {"nothing", "reading", "review", "promote"}, row : TaskRow,
         purpose : Purposes \cup {"none"}, write : ReviewRow, saw : 0 .. MaxReport]

Entry == [purpose : Purposes, report : 0 .. MaxReport]

FindingSound ==
  /\ TypeOKFinding /\ task.content <= task.revision
  /\ \A r \in Reviewers : Knows(r) /\ Decided(r)
  /\ ReviewsKept
  /\ PromotedAsApproved

-----------------------------------------------------------------------------
LEMMA FindingRows ==
  /\ FirstRow \in TaskRow /\ NoReview \in ReviewRow
  /\ Away \in Seat
<1>1. NoReview \in ReviewRow
  BY FindingAssumptions DEF NoReview, ReviewRow, Hash
<1>2. FirstRow \in TaskRow
  BY <1>1, FindingAssumptions DEF FirstRow, TaskRow
<1> QED BY <1>1, <1>2, FindingAssumptions DEF Away, Seat

(* The four columns of a row, and what a changed row is.                   *)
LEMMA FindingColumns ==
  ASSUME NEW row \in TaskRow
  PROVE  /\ row.revision \in 0 .. MaxTurns /\ row.content \in 0 .. MaxTurns
         /\ row.ended \in BOOLEAN /\ row.reviews \in [Purposes -> ReviewRow]
         /\ row.revision < MaxTurns => row.revision + 1 \in 0 .. MaxTurns
         /\ \A n \in 0 .. MaxTurns, columns \in [Purposes -> ReviewRow] :
              /\ [row EXCEPT !.revision = n, !.reviews = columns] \in TaskRow
              /\ [row EXCEPT !.revision = n, !.reviews = columns].revision = n
              /\ [row EXCEPT !.revision = n, !.reviews = columns].reviews = columns
<1>1. /\ row.revision \in 0 .. MaxTurns /\ row.content \in 0 .. MaxTurns
      /\ row.ended \in BOOLEAN /\ row.reviews \in [Purposes -> ReviewRow]
  BY DEF TaskRow
<1>2. row.revision < MaxTurns => row.revision + 1 \in 0 .. MaxTurns
  BY <1>1, FindingAssumptions
<1>3. ASSUME NEW n \in 0 .. MaxTurns, NEW columns \in [Purposes -> ReviewRow]
      PROVE  /\ [row EXCEPT !.revision = n, !.reviews = columns] \in TaskRow
             /\ [row EXCEPT !.revision = n, !.reviews = columns].revision = n
             /\ [row EXCEPT !.revision = n, !.reviews = columns].reviews = columns
  <2>1. [row EXCEPT !.revision = n, !.reviews = columns] \in TaskRow
    BY DEF TaskRow
  <2>2. [row EXCEPT !.revision = n, !.reviews = columns].revision = n
    BY DEF TaskRow
  <2>3. [row EXCEPT !.revision = n, !.reviews = columns].reviews = columns
    BY DEF TaskRow
  <2> QED BY <2>1, <2>2, <2>3
<1> QED BY <1>1, <1>2, <1>3

LEMMA FindingInitSound == FindingInit => FindingSound
<1> SUFFICES ASSUME FindingInit PROVE FindingSound
  OBVIOUS
<1>1. TypeOKFinding /\ task.content <= task.revision
  BY FindingRows, FindingAssumptions DEF FindingInit, TypeOKFinding, FirstRow, Seat
<1>2. ReviewsKept /\ PromotedAsApproved
  BY DEF FindingInit, FirstRow, ReviewsKept, PromotedAsApproved
<1> QED BY <1>1, <1>2 DEF FindingInit, FindingSound, Knows, Decided, Away

(* Steps that leave the reviews and the revision of the row alone.         *)
LEMMA LooksAtFindingSound ==
  ASSUME FindingSound, NEW r \in Reviewers,
         LoadTask(r) \/ Refuse(r)
  PROVE  FindingSound'
<1>1. UNCHANGED <<task, report, promoted, verdict>>
  BY DEF LoadTask, Refuse
<1>2. PICK look \in Seat : /\ reviewer' = [reviewer EXCEPT ![r] = look]
                           /\ look.doing \in {"nothing", "reading"}
                           /\ look.doing = "reading" => look.row = task
  <2>1. CASE LoadTask(r)
    <3> DEFINE look == [Away EXCEPT !.doing = "reading", !.row = task]
    <3>1. task \in TaskRow
      BY DEF FindingSound, TypeOKFinding
    <3>2. look \in Seat /\ look.doing = "reading" /\ look.row = task
      BY <3>1, FindingRows DEF Seat
    <3>3. reviewer' = [reviewer EXCEPT ![r] = look]
      BY <2>1 DEF LoadTask
    <3> QED BY <3>2, <3>3
  <2>2. CASE Refuse(r)
    <3>1. Away.doing = "nothing"
      BY DEF Away
    <3> QED BY <2>2, <3>1, FindingRows DEF Refuse
  <2> QED BY <2>1, <2>2
<1>3. /\ \A q \in Reviewers \ {r} : reviewer'[q] = reviewer[q]
      /\ reviewer'[r] = look /\ reviewer' \in [Reviewers -> Seat]
  BY <1>2 DEF FindingSound, TypeOKFinding, Seat
<1>4. TypeOKFinding'
  BY <1>1, <1>3 DEF FindingSound, TypeOKFinding, Seat
<1>5. task.revision \in Nat
  BY DEF FindingSound, TypeOKFinding, TaskRow
<1>6. \A q \in Reviewers : Knows(q)' /\ Decided(q)'
  <2> TAKE q \in Reviewers
  <2>1. CASE q = r
    BY <1>1, <1>2, <1>3, <1>5, <2>1 DEF Knows, Decided
  <2>2. CASE q # r
    BY <1>1, <1>3, <2>2 DEF FindingSound, Knows, Decided
  <2> QED BY <2>1, <2>2
<1> QED BY <1>1, <1>4, <1>6 DEF FindingSound, ReviewsKept, PromotedAsApproved

LEMMA DecidesFindingSound ==
  ASSUME FindingSound, NEW r \in Reviewers, NEW p \in Purposes, NEW does \in {"review", "promote"},
         NEW review \in ReviewRow, Decides(r, does, p, review),
         ~reviewer[r].row.reviews[p].promotion,
         does = "promote" => /\ review.promotion /\ review.decision = "approved"
                             /\ review.hash.report = report
  PROVE  FindingSound'
<1>1. /\ UNCHANGED <<task, report, promoted, verdict>> /\ reviewer[r].doing = "reading"
      /\ reviewer' = [reviewer EXCEPT ![r].doing = does, ![r].purpose = p,
                                      ![r].write = review, ![r].saw = report]
  BY DEF Decides
<1>2. /\ \A q \in Reviewers \ {r} : reviewer'[q] = reviewer[q]
      /\ reviewer'[r] = [reviewer[r] EXCEPT !.doing = does, !.purpose = p,
                                            !.write = review, !.saw = report]
  BY <1>1 DEF FindingSound, TypeOKFinding
<1>3. /\ reviewer'[r].doing = does /\ reviewer'[r].purpose = p /\ reviewer'[r].write = review
      /\ reviewer'[r].saw = report /\ reviewer'[r].row = reviewer[r].row
  BY <1>2 DEF FindingSound, TypeOKFinding
<1>4. TypeOKFinding'
  <2>1. reviewer[r] \in Seat /\ report \in 0 .. MaxReport
    BY DEF FindingSound, TypeOKFinding, Seat
  <2>2. [reviewer[r] EXCEPT !.doing = does, !.purpose = p, !.write = review, !.saw = report] \in Seat
    BY <2>1 DEF Seat
  <2>3. reviewer' \in [Reviewers -> Seat]
    BY <1>1, <2>2 DEF FindingSound, TypeOKFinding, Seat
  <2> QED BY <1>1, <2>3 DEF FindingSound, TypeOKFinding, Seat
<1>5. \A q \in Reviewers : Knows(q)' /\ Decided(q)'
  <2> TAKE q \in Reviewers
  <2>1. CASE q = r
    <3>1. Knows(r)'
      BY <1>1, <1>3 DEF FindingSound, Knows
    <3>2. Decided(r)'
      BY <1>3 DEF Decided
    <3> QED BY <2>1, <3>1, <3>2
  <2>2. CASE q # r
    BY <1>1, <1>2, <2>2, ZenonT(60) DEF FindingSound, Knows, Decided
  <2> QED BY <2>1, <2>2
<1> QED BY <1>1, <1>4, <1>5 DEF FindingSound, ReviewsKept, PromotedAsApproved

(* The compared revision makes the loaded reviews the current ones, so one *)
(* purpose is changed and only one that was not promoted.                  *)
LEMMA CommitFindingSound ==
  ASSUME FindingSound, NEW r \in Reviewers, CommitFinding(r)
  PROVE  FindingSound'
<1> DEFINE now == reviewer[r]  p == now.purpose
<1>1. /\ now.doing \in {"review", "promote"} /\ p \in Purposes
      /\ now.row.reviews = task.reviews /\ ~task.reviews[p].promotion
      /\ task.revision < MaxTurns
  BY DEF CommitFinding, Unchanged, FindingSound, Knows, Decided
<1>2. /\ task \in TaskRow /\ task.revision \in 0 .. MaxTurns
      /\ task.reviews \in [Purposes -> ReviewRow] /\ now.write \in ReviewRow
      /\ now.saw \in 0 .. MaxReport /\ verdict = task.reviews
  BY DEF FindingSound, TypeOKFinding, TaskRow, ReviewsKept
<1>3. /\ task' = [task EXCEPT !.revision = @ + 1,
                              !.reviews = [task.reviews EXCEPT ![p] = now.write]]
      /\ verdict' = [verdict EXCEPT ![p] = now.write]
      /\ promoted' = Promoted(now)
      /\ reviewer' = [reviewer EXCEPT ![r] = Away] /\ UNCHANGED report
  BY <1>1 DEF CommitFinding
<1>4. /\ task'.revision = task.revision + 1
      /\ task'.reviews = [task.reviews EXCEPT ![p] = now.write]
      /\ task' \in TaskRow
  <2>1. [task.reviews EXCEPT ![p] = now.write] \in [Purposes -> ReviewRow]
    BY <1>2
  <2>2. task.revision + 1 \in 0 .. MaxTurns
    BY <1>1, <1>2, FindingAssumptions
  <2>3. \A n \in 0 .. MaxTurns, columns \in [Purposes -> ReviewRow] :
          /\ [task EXCEPT !.revision = n, !.reviews = columns] \in TaskRow
          /\ [task EXCEPT !.revision = n, !.reviews = columns].revision = n
          /\ [task EXCEPT !.revision = n, !.reviews = columns].reviews = columns
    BY <1>2, FindingColumns
  <2> HIDE DEF now, p
  <2> QED BY <1>3, <2>1, <2>2, <2>3
<1>5. promoted' \in Seq([purpose : Purposes, report : 0 .. MaxReport])
  <2>1. promoted \in Seq(Entry)
    BY DEF FindingSound, TypeOKFinding, Entry
  <2>2. [purpose |-> p, report |-> now.saw] \in Entry
    BY <1>1, <1>2 DEF Entry
  <2>3. promoted' \in {promoted, Append(promoted, [purpose |-> p, report |-> now.saw])}
    BY <1>3 DEF Promoted
  <2>4. Append(promoted, [purpose |-> p, report |-> now.saw]) \in Seq(Entry)
    BY <2>1, <2>2, AppendProperties
  <2> QED BY <2>1, <2>3, <2>4 DEF Entry
<1>6. TypeOKFinding'
  <2>1. reviewer' \in [Reviewers -> [doing : {"nothing", "reading", "review", "promote"}, row : TaskRow,
                                     purpose : Purposes \cup {"none"}, write : ReviewRow,
                                     saw : 0 .. MaxReport]]
    BY <1>3, FindingRows DEF FindingSound, TypeOKFinding, Seat
  <2>2. verdict' \in [Purposes -> ReviewRow]
    BY <1>2, <1>3
  <2> QED BY <1>3, <1>4, <1>5, <2>1, <2>2 DEF FindingSound, TypeOKFinding
<1>7. \A q \in Reviewers : Knows(q)' /\ Decided(q)'
  <2> TAKE q \in Reviewers
  <2>1. reviewer'[q] = Away \/ (reviewer'[q] = reviewer[q])
    BY <1>3 DEF FindingSound, TypeOKFinding
  <2>2. CASE reviewer'[q] = Away
    BY <2>2 DEF Away, Knows, Decided
  <2>3. CASE reviewer'[q] = reviewer[q]
    <3>1. reviewer[q].row.revision \in Nat
      BY DEF FindingSound, TypeOKFinding, TaskRow
    <3>2. Knows(q)'
      BY <1>2, <1>4, <2>3, <3>1 DEF FindingSound, Knows
    <3> QED BY <2>3, <3>2 DEF FindingSound, Decided
  <2> QED BY <2>1, <2>2, <2>3
<1>8. ReviewsKept'
  BY <1>2, <1>3, <1>4 DEF ReviewsKept
<1>9. \A i \in DOMAIN promoted : /\ promoted[i].purpose \in Purposes
                                 /\ promoted[i].purpose # p
  <2> TAKE i \in DOMAIN promoted
  <2>1. promoted[i].purpose \in Purposes
    <3>1. promoted \in Seq(Entry) /\ i \in 1 .. Len(promoted)
      BY DEF FindingSound, TypeOKFinding, Entry
    <3>2. promoted[i] \in Entry
      BY <3>1, ElementOfSeq
    <3> QED BY <3>2 DEF Entry
  <2>2. task.reviews[promoted[i].purpose].promotion
    BY DEF FindingSound, PromotedAsApproved
  <2> QED BY <1>1, <2>1, <2>2
<1>10. PromotedAsApproved'
  <2>1. CASE now.doing = "review"
    <3>1. promoted' = promoted
      BY <1>3, <2>1 DEF Promoted
    <3>2. \A i \in DOMAIN promoted : task'.reviews[promoted[i].purpose]
                                       = task.reviews[promoted[i].purpose]
      BY <1>2, <1>4, <1>9
    <3> QED BY <3>1, <3>2 DEF FindingSound, PromotedAsApproved
  <2>2. CASE now.doing = "promote"
    <3> DEFINE new == [purpose |-> p, report |-> now.saw]
    <3>1. promoted' = Append(promoted, new)
      BY <1>3, <2>2 DEF Promoted
    <3>2. /\ DOMAIN promoted' = 1 .. Len(promoted) + 1 /\ DOMAIN promoted = 1 .. Len(promoted)
          /\ \A i \in DOMAIN promoted : promoted'[i] = promoted[i]
          /\ promoted'[Len(promoted) + 1] = new /\ Len(promoted) \in Nat
      BY <3>1 DEF FindingSound, TypeOKFinding
    <3>3. \A i \in DOMAIN promoted : task'.reviews[promoted[i].purpose]
                                       = task.reviews[promoted[i].purpose]
      BY <1>2, <1>4, <1>9
    <3>4. /\ task'.reviews[p] = now.write /\ now.write.promotion
          /\ now.write.decision = "approved" /\ now.write.hash.report = now.saw
      BY <1>1, <1>2, <1>4, <2>2 DEF FindingSound, Decided
    <3>5. \A i, j \in DOMAIN promoted' : promoted'[i].purpose = promoted'[j].purpose => i = j
      <4> SUFFICES ASSUME NEW i \in DOMAIN promoted', NEW j \in DOMAIN promoted',
                          promoted'[i].purpose = promoted'[j].purpose
                   PROVE  i = j
        OBVIOUS
      <4>1. i \in DOMAIN promoted \/ i = Len(promoted) + 1
        BY <3>2
      <4>2. j \in DOMAIN promoted \/ j = Len(promoted) + 1
        BY <3>2
      <4> QED BY <1>9, <3>2, <4>1, <4>2 DEF FindingSound, PromotedAsApproved
    <3>6. \A i \in DOMAIN promoted' :
            LET review == task'.reviews[promoted'[i].purpose] IN
            /\ review.promotion /\ review.decision = "approved"
            /\ review.hash.report = promoted'[i].report
      <4> TAKE i \in DOMAIN promoted'
      <4>1. CASE i \in DOMAIN promoted
        BY <3>2, <3>3, <4>1 DEF FindingSound, PromotedAsApproved
      <4>2. CASE i = Len(promoted) + 1
        BY <3>2, <3>4, <4>2
      <4> QED BY <3>2, <4>1, <4>2
    <3> QED BY <3>5, <3>6 DEF PromotedAsApproved
  <2> QED BY <1>1, <2>1, <2>2
<1>11. task'.content <= task'.revision
  <2>1. task'.content = task.content /\ task.content \in 0 .. MaxTurns
    BY <1>2, <1>3 DEF TaskRow
  <2> QED BY <1>2, <1>4, <2>1 DEF FindingSound
<1> QED BY <1>6, <1>7, <1>8, <1>10, <1>11 DEF FindingSound

LEMMA FindingNextSound == FindingSound /\ [FindingNext]_fvars => FindingSound'
<1> SUFFICES ASSUME FindingSound, [FindingNext]_fvars PROVE FindingSound'
  OBVIOUS
<1>1. ASSUME NEW r \in Reviewers, NEW p \in Purposes, NEW decision \in {"approved", "rejected"},
             ReviewFinding(r, p, decision)
      PROVE  FindingSound'
  <2>1. [hash |-> HashOf(r), decision |-> decision, promotion |-> FALSE] \in ReviewRow
    BY DEF HashOf, Hash, ReviewRow, FindingSound, TypeOKFinding, TaskRow
  <2> QED BY <1>1, <2>1, DecidesFindingSound DEF ReviewFinding
<1>2. ASSUME NEW r \in Reviewers, NEW p \in Purposes, PromoteFinding(r, p)
      PROVE  FindingSound'
  <2> DEFINE review == [reviewer[r].row.reviews[p] EXCEPT !.promotion = TRUE]
  <2>1. reviewer[r].row.reviews[p] \in ReviewRow
    BY DEF FindingSound, TypeOKFinding, TaskRow
  <2>2. /\ review \in ReviewRow /\ review.promotion /\ review.decision = "approved"
        /\ review.hash.report = report
    <3>1. /\ reviewer[r].row.reviews[p].decision = "approved"
          /\ reviewer[r].row.reviews[p].hash.report = report
      BY <1>2 DEF PromoteFinding, Approved, HashOf
    <3> QED BY <2>1, <3>1 DEF ReviewRow
  <2> HIDE DEF review
  <2>3. Decides(r, "promote", p, review) /\ ~reviewer[r].row.reviews[p].promotion
    BY <1>2 DEF PromoteFinding, review
  <2> QED BY <2>2, <2>3, DecidesFindingSound
<1>3. CASE ReportArrives
  <2>1. report' \in 0 .. MaxReport
    BY <1>3, FindingAssumptions DEF ReportArrives, FindingSound, TypeOKFinding
  <2> QED BY <1>3, <2>1 DEF ReportArrives, FindingSound, TypeOKFinding, Knows, Decided,
                             ReviewsKept, PromotedAsApproved
<1>4. CASE TaskEnds
  <2>1. /\ task' \in TaskRow /\ task'.revision = task.revision /\ task'.reviews = task.reviews
        /\ task'.content = task.content
    BY <1>4 DEF TaskEnds, FindingSound, TypeOKFinding, TaskRow
  <2> QED BY <1>4, <2>1 DEF TaskEnds, FindingSound, TypeOKFinding, Knows, Decided,
                             ReviewsKept, PromotedAsApproved
<1>5. CASE TaskContinues
  <2>0. task.revision \in 0 .. MaxTurns /\ task.content \in 0 .. MaxTurns
    BY DEF FindingSound, TypeOKFinding, TaskRow
  <2>1. task'.revision = task.revision + 1 /\ task'.reviews = task.reviews
        /\ task'.content = task.content + 1
    BY <1>5 DEF TaskContinues, FindingSound, TypeOKFinding, TaskRow
  <2>2. task' \in TaskRow
    <3>1. task.content + 1 \in 0 .. MaxTurns /\ task.revision + 1 \in 0 .. MaxTurns
      BY <1>5, <2>0, FindingAssumptions DEF TaskContinues, FindingSound
    <3> QED BY <1>5, <3>1 DEF TaskContinues, FindingSound, TypeOKFinding, TaskRow
  <2>3. \A r \in Reviewers : reviewer[r].row.revision \in Nat
    BY DEF FindingSound, TypeOKFinding, TaskRow
  <2>4. \A r \in Reviewers : Knows(r)'
    BY <1>5, <2>0, <2>1, <2>3 DEF TaskContinues, FindingSound, Knows
  <2> QED BY <1>5, <2>0, <2>1, <2>2, <2>4 DEF TaskContinues, FindingSound, TypeOKFinding, Decided,
                                         ReviewsKept, PromotedAsApproved
<1>6. CASE UNCHANGED fvars
  BY <1>6 DEF fvars, FindingSound, TypeOKFinding, Knows, Decided, ReviewsKept, PromotedAsApproved
<1> QED BY <1>1, <1>2, <1>3, <1>4, <1>5, <1>6, LooksAtFindingSound, CommitFindingSound DEF FindingNext

-----------------------------------------------------------------------------
(* What requests carry between their read and their commit is sound: the   *)
(* revision that lock_revision compares stands for the reviews.            *)
THEOREM FindingHolds == FindingSpec => []FindingSound
<1> QED BY FindingInitSound, FindingNextSound, PTL DEF FindingSpec

(* No committed review is lost to an overlapping one, though all purposes  *)
(* share one column.                                                       *)
THEOREM ReviewsKeptHolds == FindingSpec => []ReviewsKept
<1>1. FindingSound => ReviewsKept
  BY DEF FindingSound
<1> QED BY <1>1, FindingHolds, PTL

(* A finding is promoted once for a purpose, with the approved report, and *)
(* the approval stands from then on.                                       *)
THEOREM PromotedAsApprovedHolds == FindingSpec => []PromotedAsApproved
<1>1. FindingSound => PromotedAsApproved
  BY DEF FindingSound
<1> QED BY <1>1, FindingHolds, PTL

-----------------------------------------------------------------------------
(* The way of a submission: Submissions.                                   *)

(* A history that leads by allowed transitions to a status.                *)
LeadsTo(history, status) ==
  /\ history \in Seq(Event) /\ Len(history) > 0 /\ Last(history).to = status
  /\ \A i \in 2 .. Len(history) : /\ history[i].from = history[i - 1].to
                                  /\ history[i].to \in Transitions[history[i].from]

(* So does the row's, and whatever a request is about to put in its place: *)
(* it writes the status and the whole history it loaded, never one of them.*)
Explained ==
  /\ TypeOKSubmission
  /\ LeadsTo(submission.history, submission.status)
  /\ \A k \in Clerks : desk[k].to \in State => LeadsTo(desk[k].history, desk[k].to)

-----------------------------------------------------------------------------
LEMMA States ==
  /\ "drafting" \in State /\ "none" \notin State /\ "revision" \notin State
  /\ \A status \in State : Transitions[status] \subseteq State
<1>1. State = {"drafting", "submitted", "under_review", "revision_requested", "resubmitted",
               "accepted", "rejected", "withdrawn"}
  BY DEF State, Transitions
<1> QED BY <1>1 DEF Transitions

(* One more allowed transition leads on.                                   *)
LEMMA LeadsOn ==
  ASSUME NEW history, NEW status \in State, LeadsTo(history, status),
         NEW to \in Transitions[status]
  PROVE  LeadsTo(Append(history, [from |-> status, to |-> to]), to)
<1> DEFINE event == [from |-> status, to |-> to]  longer == Append(history, event)
<1>1. event \in Event
  BY States DEF Event
<1>2. /\ longer \in Seq(Event) /\ Len(longer) = Len(history) + 1 /\ Len(history) \in Nat
      /\ longer[Len(history) + 1] = event
      /\ \A i \in 1 .. Len(history) : longer[i] = history[i]
  BY <1>1, AppendProperties, LenProperties DEF LeadsTo
<1>3. history[Len(history)].to = status
  BY DEF LeadsTo, Last
<1>4. \A i \in 2 .. Len(longer) : /\ longer[i].from = longer[i - 1].to
                                  /\ longer[i].to \in Transitions[longer[i].from]
  <2> SUFFICES ASSUME NEW i \in 2 .. Len(longer)
               PROVE  /\ longer[i].from = longer[i - 1].to
                      /\ longer[i].to \in Transitions[longer[i].from]
    OBVIOUS
  <2>1. CASE i <= Len(history)
    <3>1. i \in 2 .. Len(history) /\ i \in 1 .. Len(history) /\ i - 1 \in 1 .. Len(history)
      BY <1>2, <2>1
    <3>2. longer[i] = history[i] /\ longer[i - 1] = history[i - 1]
      BY <1>2, <3>1
    <3> QED BY <3>1, <3>2 DEF LeadsTo
  <2>2. CASE i = Len(history) + 1
    <3>1. i - 1 = Len(history) /\ Len(history) \in 1 .. Len(history)
      BY <1>2, <2>2 DEF LeadsTo
    <3>2. longer[i] = event /\ longer[i - 1] = history[Len(history)]
      BY <1>2, <2>2, <3>1
    <3> QED BY <1>3, <3>2
  <2> QED BY <1>2, <2>1, <2>2
<1>5. Last(longer).to = to
  BY <1>2 DEF Last
<1> HIDE DEF longer
<1>6. LeadsTo(longer, to)
  BY <1>2, <1>4, <1>5 DEF LeadsTo
<1> QED BY <1>6 DEF longer

LEMMA InitExplained == SubmissionInit => Explained
<1> SUFFICES ASSUME SubmissionInit PROVE Explained
  OBVIOUS
<1> DEFINE event == [from |-> "none", to |-> "drafting"]
<1>1. event \in Event /\ <<event>> \in Seq(Event) /\ Len(<<event>>) = 1 /\ <<event>>[1] = event
  BY States DEF Event
<1>2. submission.history = <<event>> /\ submission.status = "drafting"
      /\ submission \in [status : State, history : Seq(Event), revisions : Seq(Revision)]
  BY <1>1, States DEF SubmissionInit
<1>3. LeadsTo(submission.history, submission.status)
  BY <1>1, <1>2 DEF LeadsTo, Last
<1>4. /\ NoDesk \in [to : State \cup {"none", "revision"}, history : Seq(Event),
                     revisions : Seq(Revision)]
      /\ NoDesk.to \notin State
  BY States DEF NoDesk
<1> QED BY <1>2, <1>3, <1>4 DEF SubmissionInit, Explained, TypeOKSubmission

LEMMA NextExplained == Explained /\ [SubmissionNext]_svars => Explained'
<1> SUFFICES ASSUME Explained, [SubmissionNext]_svars PROVE Explained'
  OBVIOUS
<1> DEFINE Desk == [to : State \cup {"none", "revision"}, history : Seq(Event),
                    revisions : Seq(Revision)]
<1>1. ASSUME NEW k \in Clerks, NEW new \in Desk, desk' = [desk EXCEPT ![k] = new],
             new.to \in State => LeadsTo(new.history, new.to)
      PROVE  /\ desk' \in [Clerks -> Desk]
             /\ \A j \in Clerks : desk'[j].to \in State => LeadsTo(desk'[j].history, desk'[j].to)
  BY <1>1 DEF Explained, TypeOKSubmission
<1>2. NoDesk \in Desk /\ NoDesk.to \notin State
  BY States DEF NoDesk
<1> HIDE DEF Desk
<1>3. ASSUME NEW k \in Clerks, NEW to \in State, LoadTransition(k, to)
      PROVE  Explained'
  <2> DEFINE event == [from |-> submission.status, to |-> to]
             new == [to |-> to, revisions |-> <<>>, history |-> Append(submission.history, event)]
  <2>1. /\ UNCHANGED submission /\ desk' = [desk EXCEPT ![k] = new]
        /\ submission.status \in State /\ to \in Transitions[submission.status]
    BY <1>3 DEF LoadTransition, Explained, TypeOKSubmission
  <2>2. LeadsTo(new.history, new.to)
    BY <2>1, LeadsOn DEF Explained
  <2>3. new \in Desk
    BY <2>2 DEF LeadsTo, Desk
  <2> HIDE DEF new
  <2> QED BY <1>1, <2>1, <2>2, <2>3 DEF Explained, TypeOKSubmission, Desk
<1>4. ASSUME NEW k \in Clerks, Transition(k)
      PROVE  Explained'
  <2>1. /\ desk[k].to \in State /\ desk' = [desk EXCEPT ![k] = NoDesk]
        /\ submission' = [submission EXCEPT !.status = desk[k].to, !.history = desk[k].history]
        /\ desk[k].history \in Seq(Event) /\ LeadsTo(desk[k].history, desk[k].to)
    BY <1>4 DEF Transition, History, Explained, TypeOKSubmission
  <2>2. /\ submission' \in [status : State, history : Seq(Event), revisions : Seq(Revision)]
        /\ submission'.status = desk[k].to /\ submission'.history = desk[k].history
    BY <2>1 DEF Explained, TypeOKSubmission
  <2> QED BY <1>1, <1>2, <2>1, <2>2 DEF Explained, TypeOKSubmission, Desk
<1>5. ASSUME NEW k \in Clerks, LoadRevision(k)
      PROVE  Explained'
  <2> DEFINE revision == [round |-> Len(submission.revisions) + 1, status |-> submission.status]
             new == [to |-> "revision", history |-> <<>>,
                     revisions |-> Append(submission.revisions, revision)]
  <2>1. UNCHANGED submission /\ desk' = [desk EXCEPT ![k] = new]
    BY <1>5 DEF LoadRevision
  <2>2. submission.revisions \in Seq(Revision) /\ revision \in Revision
    BY LenProperties DEF Explained, TypeOKSubmission, Revision
  <2>3. Append(submission.revisions, revision) \in Seq(Revision)
    BY <2>2, AppendProperties
  <2>4. new \in Desk /\ new.to \notin State
    BY <2>3, States DEF Desk
  <2> HIDE DEF new
  <2> QED BY <1>1, <2>1, <2>4 DEF Explained, TypeOKSubmission, Desk
<1>6. ASSUME NEW k \in Clerks, AddRevision(k)
      PROVE  Explained'
  <2>1. /\ desk' = [desk EXCEPT ![k] = NoDesk] /\ desk[k].revisions \in Seq(Revision)
        /\ submission' = [submission EXCEPT !.revisions = desk[k].revisions]
    BY <1>6 DEF AddRevision, Explained, TypeOKSubmission
  <2>2. /\ submission' \in [status : State, history : Seq(Event), revisions : Seq(Revision)]
        /\ submission'.status = submission.status /\ submission'.history = submission.history
    BY <2>1 DEF Explained, TypeOKSubmission
  <2> QED BY <1>1, <1>2, <2>1, <2>2 DEF Explained, TypeOKSubmission, Desk
<1>7. CASE UNCHANGED svars
  BY <1>7 DEF svars, Explained, TypeOKSubmission
<1> QED BY <1>3, <1>4, <1>5, <1>6, <1>7 DEF SubmissionNext

(* The history of a submission leads, by allowed transitions only, to the  *)
(* status it has, whatever requests overtook each other (submissions.py).  *)
THEOREM HistoryHolds == SubmissionSpec => []HistoryExplainsStatus
<1>1. Explained => HistoryExplainsStatus
  BY DEF Explained, LeadsTo, HistoryExplainsStatus
<1> QED BY <1>1, InitExplained, NextExplained, PTL DEF SubmissionSpec

-----------------------------------------------------------------------------
(* Compute runs: ComputeRuns.                                              *)

RequestOfRun == [step : {"free", "approve", "stage", "ready", "running", "review", "promote"},
           run : Runs \cup {None}, ver : Plan, cited : Manifest \cup {NoManifest}]

(* In the run's directory, which only one request ever made.               *)
Inside(k) == k.step \in {"ready", "running"}

(* What a request carries fits the row however late it commits: the plan   *)
(* never changes, nor does the manifest once there is one.                 *)
FitsRow(k) ==
  LET x == k.run IN
  k.step # "free" =>
    /\ x \in Runs /\ run[x].state # None
    /\ k.step = "approve" => k.ver = run[x].plan /\ k.ver \in World
    /\ k.step \in {"stage", "ready", "running"} =>
         k.ver = run[x].plan /\ k.ver \in World /\ k.ver \in judged[x]
    /\ Inside(k) => x \in runDir /\ run[x].execution = NoManifest
    /\ k.step = "ready" => started[x] = <<>>
    /\ k.step = "running" => started[x] = <<k.ver>>
    /\ k.step = "promote" => /\ k.cited = run[x].execution /\ k.cited.outcome = "succeeded"
                             /\ "verified" \in judged[x]

(* An approval that comes late puts a run that has ended back to approved: *)
(* the directory is what keeps it from starting again.                     *)
RowSound(x) ==
  /\ \/ started[x] = <<>>
     \/ x \in runDir /\ \E v \in judged[x] : started[x] = <<v>>
  /\ run[x].state \notin {None, "planned"} => run[x].plan \in judged[x]
  /\ run[x].execution # NoManifest => started[x] = <<run[x].execution.ver>>
  /\ run[x].state \in Outcome => run[x].execution.outcome = run[x].state
  /\ run[x].review = "verified" => "verified" \in judged[x]
  /\ \A i \in DOMAIN results[x] : /\ results[x][i] = run[x].execution
                                  /\ run[x].execution.outcome = "succeeded"
                                  /\ "verified" \in judged[x]

ComputeSound ==
  /\ TypeOKCompute
  /\ \A c \in Callers : FitsRow(call[c])
  /\ \A c, d \in Callers :
       Inside(call[c]) /\ Inside(call[d]) /\ call[c].run = call[d].run => c = d
  /\ \A x \in Runs : RowSound(x)

-----------------------------------------------------------------------------
(* Steps that leave a row its plan and, where a request depends on them,   *)
(* its manifest and its subprocess, and take no said back, leave the    *)
(* request its footing.                                                    *)
LEMMA StillFitsRow ==
  ASSUME NEW k \in RequestOfRun, FitsRow(k), runDir \subseteq runDir',
         k.run \in Runs /\ run[k.run].state # None =>
           /\ run'[k.run].state # None /\ run'[k.run].plan = run[k.run].plan
           /\ judged[k.run] \subseteq judged'[k.run]
           /\ Inside(k) => started'[k.run] = started[k.run]
           /\ Inside(k) \/ k.step = "promote" => run'[k.run].execution = run[k.run].execution
  PROVE  FitsRow(k)'
BY DEF FitsRow, Inside

LEMMA StillSound ==
  ASSUME NEW x \in Runs, RowSound(x), runDir \subseteq runDir', run'[x] = run[x],
         started'[x] = started[x], results'[x] = results[x], judged[x] \subseteq judged'[x]
  PROVE  RowSound(x)'
BY DEF RowSound

(* A request looks or gives up: the rest of the state is as it was.        *)
LEMMA LookKeeps ==
  ASSUME ComputeSound, NEW c \in Callers, NEW k \in RequestOfRun,
         call' = [call EXCEPT ![c] = k], FitsRow(k), ~Inside(k),
         since' \in [Callers -> SUBSET World],
         UNCHANGED <<run, world, runDir, copies, results, started, judged>>
  PROVE  ComputeSound'
<1>1. /\ call' \in [Callers -> RequestOfRun] /\ call'[c] = k
      /\ \A d \in Callers \ {c} : call'[d] = call[d] /\ call[d] \in RequestOfRun
  BY DEF ComputeSound, TypeOKCompute, RequestOfRun
<1>2. TypeOKCompute'
  BY <1>1 DEF ComputeSound, TypeOKCompute, RequestOfRun
<1>3. FitsRow(k)'
  BY StillFitsRow
<1>4. \A d \in Callers : FitsRow(call[d])'
  <2> TAKE d \in Callers
  <2>1. CASE d = c
    BY <1>1, <1>3, <2>1 DEF FitsRow, Inside
  <2>2. CASE d # c
    BY <1>1, <2>2 DEF ComputeSound, FitsRow, Inside
  <2> QED BY <2>1, <2>2
<1>5. \A x \in Runs : RowSound(x)'
  BY StillSound DEF ComputeSound
<1>6. \A d, e \in Callers :
        Inside(call'[d]) /\ Inside(call'[e]) /\ call'[d].run = call'[e].run => d = e
  BY <1>1 DEF ComputeSound
<1> QED BY <1>2, <1>4, <1>5, <1>6 DEF ComputeSound, Inside

(* A request commits what it wrote to the columns of a row.                *)
LEMMA CommitKeeps ==
  ASSUME ComputeSound, NEW c \in Callers, NEW x \in Runs, NEW row \in RunRow,
         call' = [call EXCEPT ![c] = Free],
         run' = [run EXCEPT ![x] = row], row.state # None,
         row.plan = run[x].plan, row.execution = run[x].execution,
         NEW added \in SUBSET (World \cup {"verified", "rejected"}),
         judged' = [judged EXCEPT ![x] = @ \cup added],
         results' \in [Runs -> Seq(Manifest)],
         \A y \in Runs \ {x} : results'[y] = results[y],
         since' \in [Callers -> SUBSET World],
         UNCHANGED <<world, runDir, copies, started>>,
         RowSound(x)'
  PROVE  ComputeSound'
<1>1. /\ run' \in [Runs -> RunRow] /\ run'[x] = row
      /\ \A y \in Runs \ {x} : run'[y] = run[y]
  BY DEF ComputeSound, TypeOKCompute
<1>2. /\ judged' \in [Runs -> SUBSET (World \cup {"verified", "rejected"})]
      /\ judged'[x] = judged[x] \cup added
      /\ \A y \in Runs \ {x} : judged'[y] = judged[y]
  BY DEF ComputeSound, TypeOKCompute
<1>3. Free \in RequestOfRun /\ Free.step = "free"
  BY DEF Free, RequestOfRun, Plan
<1>4. /\ call' \in [Callers -> RequestOfRun] /\ call'[c].step = "free"
      /\ \A d \in Callers \ {c} : call'[d] = call[d] /\ call[d] \in RequestOfRun
  BY <1>3 DEF ComputeSound, TypeOKCompute, RequestOfRun
<1>5. TypeOKCompute'
  BY <1>1, <1>2, <1>4 DEF ComputeSound, TypeOKCompute, RequestOfRun
<1>6. \A d \in Callers : FitsRow(call[d])'
  <2> TAKE d \in Callers
  <2>1. CASE d = c
    BY <1>4, <2>1 DEF FitsRow
  <2>2. CASE d # c
    <3> DEFINE k == call[d]
    <3>1. k \in RequestOfRun /\ FitsRow(k) /\ call'[d] = k
      BY <1>4, <2>2 DEF ComputeSound
    <3>2. k.run \in Runs /\ run[k.run].state # None =>
           /\ run'[k.run].state # None /\ run'[k.run].plan = run[k.run].plan
           /\ run'[k.run].execution = run[k.run].execution
           /\ started'[k.run] = started[k.run] /\ judged[k.run] \subseteq judged'[k.run]
      BY <1>1, <1>2
    <3>3. \A q \in RequestOfRun : q = k => FitsRow(q)'
      <4> TAKE q \in RequestOfRun
      <4> HAVE q = k
      <4> QED BY <3>1, <3>2, StillFitsRow
    <3> QED BY <3>1, <3>3 DEF FitsRow, Inside
  <2> QED BY <2>1, <2>2
<1>7. \A y \in Runs : RowSound(y)'
  BY <1>1, <1>2, StillSound DEF ComputeSound
<1>8. \A d, e \in Callers :
        Inside(call'[d]) /\ Inside(call'[e]) /\ call'[d].run = call'[e].run => d = e
  BY <1>4 DEF ComputeSound, Inside
<1> QED BY <1>5, <1>6, <1>7, <1>8 DEF ComputeSound, Inside

LEMMA ComputeInitSound == ComputeInit => ComputeSound
<1> SUFFICES ASSUME ComputeInit PROVE ComputeSound
  OBVIOUS
<1>1. NoRun \in RunRow /\ Free \in RequestOfRun /\ Free.step = "free"
  BY DEF NoRun, RunRow, Plan, Free, RequestOfRun
<1>2. TypeOKCompute
  BY <1>1 DEF ComputeInit, TypeOKCompute, RequestOfRun
<1>3. \A x \in Runs : RowSound(x)
  <2> TAKE x \in Runs
  <2>1. /\ started[x] = <<>> /\ run[x] = NoRun /\ results[x] = <<>>
    BY DEF ComputeInit
  <2>2. NoRun.state = None /\ NoRun.review = "unreviewed" /\ NoRun.execution = NoManifest
    BY DEF NoRun
  <2>3. None \notin Outcome /\ \A i \in DOMAIN results[x] : FALSE
    BY <2>1 DEF None, Outcome
  <2> QED BY <2>1, <2>2, <2>3 DEF RowSound
<1>4. \A c \in Callers : call[c].step = "free"
  BY <1>1 DEF ComputeInit
<1> QED BY <1>2, <1>3, <1>4 DEF ComputeSound, FitsRow, Inside

LEMMA RunRecords ==
  ASSUME ComputeSound
  PROVE  /\ \A x \in Runs :
              /\ run[x] \in RunRow /\ run[x].plan \in Plan
              /\ run[x].state \in {None, "planned", "approved"} \cup Outcome
              /\ run[x].execution \in Manifest \cup {NoManifest}
              /\ judged[x] \in SUBSET (World \cup {"verified", "rejected"})
         /\ \A c \in Callers : call[c] \in RequestOfRun /\ FitsRow(call[c])
         /\ Free \in RequestOfRun /\ Free.step = "free"
         /\ None \notin World
<1>1. Free \in RequestOfRun /\ Free.step = "free"
  BY DEF Free, RequestOfRun, Plan
<1>2. ASSUME NEW x \in Runs
      PROVE  /\ run[x] \in RunRow /\ run[x].plan \in Plan
             /\ run[x].state \in {None, "planned", "approved"} \cup Outcome
             /\ run[x].execution \in Manifest \cup {NoManifest}
             /\ judged[x] \in SUBSET (World \cup {"verified", "rejected"})
  BY DEF ComputeSound, TypeOKCompute, RunRow
<1> QED BY <1>1, <1>2, ComputeAssumptions DEF ComputeSound, TypeOKCompute, RequestOfRun

(* The four requests that begin, and the one that dies.                    *)
LEMMA BeginsSound ==
  ASSUME ComputeSound, NEW c \in Callers, NEW x \in Runs,
         LoadApproval(c, x) \/ Execute(c, x) \/ Review(c, x) \/ Promote(c, x)
  PROVE  ComputeSound'
<1>1. /\ run[x] \in RunRow /\ run[x].plan \in Plan /\ RowSound(x)
      /\ run[x].execution \in Manifest \cup {NoManifest} /\ world \in World
      /\ since \in [Callers -> SUBSET World]
  BY RunRecords DEF ComputeSound, TypeOKCompute
<1>2. ASSUME LoadApproval(c, x) PROVE ComputeSound'
  <2> DEFINE k == [step |-> "approve", run |-> x, ver |-> run[x].plan,
                   cited |-> run[x].execution]
  <2>1. call' = [call EXCEPT ![c] = k] /\ UNCHANGED <<run, world, runDir, copies, results, started, since, judged>>
    BY <1>2 DEF LoadApproval, Begin
  <2>2. run[x].state # None /\ run[x].plan = world
    BY <1>2, <1>1 DEF LoadApproval, Stale, None
  <2>3. k \in RequestOfRun
    BY <1>1 DEF RequestOfRun
  <2>4. FitsRow(k) /\ ~Inside(k)
    BY <1>1, <2>2 DEF FitsRow, Inside
  <2> HIDE DEF k
  <2> QED BY <1>1, <2>1, <2>3, <2>4, LookKeeps
<1>3. ASSUME Execute(c, x) PROVE ComputeSound'
  <2> DEFINE k == [step |-> "stage", run |-> x, ver |-> world, cited |-> run[x].execution]
  <2>1. /\ call' = [call EXCEPT ![c] = k] /\ since' = [since EXCEPT ![c] = {world}]
        /\ UNCHANGED <<run, world, runDir, copies, results, started, judged>>
    BY <1>3 DEF Execute, Begin
  <2>2. run[x].state = "approved" /\ run[x].plan = world
    BY <1>3 DEF Execute, Stale
  <2>3. k \in RequestOfRun
    BY <1>1 DEF RequestOfRun, Plan
  <2>4. FitsRow(k) /\ ~Inside(k)
    BY <1>1, <2>2 DEF FitsRow, Inside, RowSound, None
  <2>5. since' \in [Callers -> SUBSET World]
    BY <1>1, <2>1
  <2> HIDE DEF k
  <2> QED BY <2>1, <2>3, <2>4, <2>5, LookKeeps
<1>4. ASSUME Review(c, x) PROVE ComputeSound'
  <2> DEFINE k == [step |-> "review", run |-> x, ver |-> None, cited |-> run[x].execution]
  <2>1. call' = [call EXCEPT ![c] = k] /\ UNCHANGED <<run, world, runDir, copies, results, started, since, judged>>
    BY <1>4 DEF Review, Begin
  <2>2. run[x].state = "succeeded"
    BY <1>4 DEF Review
  <2>3. k \in RequestOfRun
    BY <1>1 DEF RequestOfRun, Plan
  <2>4. FitsRow(k) /\ ~Inside(k)
    BY <1>1, <2>2 DEF FitsRow, Inside, None
  <2> HIDE DEF k
  <2> QED BY <1>1, <2>1, <2>3, <2>4, LookKeeps
<1>5. ASSUME Promote(c, x) PROVE ComputeSound'
  <2> DEFINE k == [step |-> "promote", run |-> x, ver |-> None, cited |-> run[x].execution]
  <2>1. call' = [call EXCEPT ![c] = k] /\ UNCHANGED <<run, world, runDir, copies, results, started, since, judged>>
    BY <1>5 DEF Promote, Begin
  <2>2. run[x].state = "succeeded" /\ run[x].review = "verified"
    BY <1>5 DEF Promote, Promotable
  <2>3. k \in RequestOfRun
    BY <1>1 DEF RequestOfRun, Plan
  <2>4. FitsRow(k) /\ ~Inside(k)
    BY <1>1, <2>2 DEF FitsRow, Inside, RowSound, Outcome, None
  <2> HIDE DEF k
  <2> QED BY <1>1, <2>1, <2>3, <2>4, LookKeeps
<1> QED BY <1>2, <1>3, <1>4, <1>5

LEMMA DieSound ==
  ASSUME ComputeSound, NEW c \in Callers, Die(c)
  PROVE  ComputeSound'
<1>1. since' \in [Callers -> SUBSET World]
  BY DEF Die, End, ComputeSound, TypeOKCompute
<1> QED BY <1>1, RunRecords, LookKeeps DEF Die, End, FitsRow, Inside

(* The three decisions: the row keeps what the approval was given for.     *)
LEMMA DecisionsSound ==
  ASSUME ComputeSound, NEW c \in Callers, ApproveRun(c) \/ ReviewRun(c) \/ PromoteResult(c)
  PROVE  ComputeSound'
<1>0. PICK x \in Runs : x = call[c].run
  BY RunRecords DEF ApproveRun, ReviewRun, PromoteResult, FitsRow
<1>1. /\ call[c].step \in {"approve", "review", "promote"} /\ call[c] \in RequestOfRun
      /\ x \in Runs /\ run[x].state # None /\ FitsRow(call[c]) /\ RowSound(x)
      /\ run[x] \in RunRow /\ judged[x] \in SUBSET (World \cup {"verified", "rejected"})
      /\ results \in [Runs -> Seq(Manifest)] /\ since' \in [Callers -> SUBSET World]
  BY <1>0, RunRecords DEF End, ApproveRun, ReviewRun, PromoteResult, FitsRow, ComputeSound, TypeOKCompute
<1>2. ASSUME ApproveRun(c) PROVE ComputeSound'
  <2> DEFINE row == [run[x] EXCEPT !.state = "approved"]  added == {call[c].ver}
  <2>1. /\ run' = [run EXCEPT ![x] = row] /\ call' = [call EXCEPT ![c] = Free]
        /\ judged' = [judged EXCEPT ![x] = @ \cup added]
        /\ UNCHANGED <<world, runDir, copies, results, started>>
    BY <1>0, <1>2 DEF ApproveRun, End
  <2>2. call[c].ver = run[x].plan /\ call[c].ver \in World
    BY <1>0, <1>1, <1>2 DEF FitsRow, ApproveRun
  <2>3. /\ row \in RunRow /\ row.state = "approved" /\ row.plan = run[x].plan
        /\ row.execution = run[x].execution /\ row.review = run[x].review
    BY <1>1 DEF RunRow
  <2>4. added \in SUBSET (World \cup {"verified", "rejected"}) /\ call[c].ver \in added
    BY <2>2
  <2> HIDE DEF row, added
  <2>5. run'[x] = row /\ judged'[x] = judged[x] \cup added
    BY <1>1, <2>1 DEF ComputeSound, TypeOKCompute
  <2>6. RowSound(x)'
    BY <1>1, <2>1, <2>2, <2>3, <2>4, <2>5 DEF RowSound, Outcome
  <2> QED BY <1>1, <2>1, <2>3, <2>4, <2>6, CommitKeeps DEF None
<1>3. ASSUME ReviewRun(c) PROVE ComputeSound'
  <2>1. PICK said \in {"verified", "rejected"} :
          /\ run' = [run EXCEPT ![x].review = said]
          /\ judged' = [judged EXCEPT ![x] = @ \cup {said}]
    BY <1>0, <1>3 DEF ReviewRun
  <2> DEFINE row == [run[x] EXCEPT !.review = said]  added == {said}
  <2>2. /\ run' = [run EXCEPT ![x] = row] /\ call' = [call EXCEPT ![c] = Free]
        /\ judged' = [judged EXCEPT ![x] = @ \cup added]
        /\ UNCHANGED <<world, runDir, copies, results, started>>
    BY <1>0, <1>3, <2>1 DEF ReviewRun, End
  <2>3. /\ row \in RunRow /\ row.state = run[x].state /\ row.plan = run[x].plan
        /\ row.execution = run[x].execution /\ row.review = said
    BY <1>1 DEF RunRow
  <2>4. added \in SUBSET (World \cup {"verified", "rejected"}) /\ said \in added
    OBVIOUS
  <2> HIDE DEF row, added
  <2>5. run'[x] = row /\ judged'[x] = judged[x] \cup added
    BY <1>1, <2>2 DEF ComputeSound, TypeOKCompute
  <2>6. RowSound(x)'
    BY <1>1, <2>2, <2>3, <2>4, <2>5 DEF RowSound, Outcome
  <2> QED BY <1>1, <2>2, <2>3, <2>4, <2>6, CommitKeeps
<1>4. ASSUME PromoteResult(c) PROVE ComputeSound'
  <2> DEFINE row == [run[x] EXCEPT !.promoted = TRUE]  cited == call[c].cited
  <2>1. /\ run' = [run EXCEPT ![x] = row] /\ call' = [call EXCEPT ![c] = Free]
        /\ results' = [results EXCEPT ![x] = Append(@, cited)]
        /\ UNCHANGED <<world, runDir, copies, judged, started>>
    BY <1>0, <1>4 DEF PromoteResult, End
  <2>2. cited = run[x].execution /\ cited.outcome = "succeeded" /\ "verified" \in judged[x]
    BY <1>0, <1>1, <1>4 DEF FitsRow, PromoteResult
  <2>3. /\ row \in RunRow /\ row.state = run[x].state /\ row.plan = run[x].plan
        /\ row.execution = run[x].execution /\ row.review = run[x].review
    BY <1>1 DEF RunRow
  <2>4. judged' = [judged EXCEPT ![x] = @ \cup {}]
    BY <1>1, <2>1 DEF ComputeSound, TypeOKCompute
  <2>5. cited \in Manifest
    BY <1>1, <2>2 DEF RunRow, NoManifest, None
  <2> HIDE DEF cited, row
  <2>6. results[x] \in Seq(Manifest) /\ Append(results[x], cited) \in Seq(Manifest)
    BY <1>1, <2>5, AppendProperties
  <2>7. /\ results' \in [Runs -> Seq(Manifest)] /\ results'[x] = Append(results[x], cited)
        /\ \A y \in Runs \ {x} : results'[y] = results[y]
    BY <1>1, <2>1, <2>6
  <2>8. \A i \in DOMAIN results'[x] :
          \/ i \in DOMAIN results[x] /\ results'[x][i] = results[x][i]
          \/ results'[x][i] = cited
    BY <2>6, <2>7, <2>5, AppendProperties, LenProperties
  <2>9. run'[x] = row
    BY <1>1, <2>1 DEF ComputeSound, TypeOKCompute
  <2>10. \A i \in DOMAIN results'[x] : /\ results'[x][i] = run'[x].execution
                                       /\ run'[x].execution.outcome = "succeeded"
                                       /\ "verified" \in judged'[x]
    BY <1>1, <2>1, <2>2, <2>3, <2>8, <2>9 DEF RowSound
  <2>11. RowSound(x)'
    BY <1>1, <2>1, <2>3, <2>9, <2>10 DEF RowSound, Outcome
  <2> QED BY <1>1, <2>1, <2>3, <2>4, <2>7, <2>11, CommitKeeps
<1> QED BY <1>2, <1>3, <1>4

(* A request moves on in its run's directory, alone.                       *)
LEMMA ExecutionSound ==
  ASSUME ComputeSound, NEW c \in Callers, Stage(c) \/ Start(c) \/ FinishRun(c)
  PROVE  ComputeSound'
<1>0. PICK x \in Runs : x = call[c].run
  BY RunRecords DEF Step, Stage, Start, FinishRun, FitsRow
<1>1. /\ call[c] \in RequestOfRun /\ FitsRow(call[c]) /\ RowSound(x) /\ run[x].state # None
      /\ call[c].step \in {"stage", "ready", "running"} /\ run[x].execution = NoManifest
      /\ call[c].ver = run[x].plan /\ call[c].ver \in World /\ call[c].ver \in judged[x]
      /\ \A d \in Callers \ {c} : Inside(call[d]) => call[d].run # x
      /\ \A d \in Callers : call[d] \in RequestOfRun /\ FitsRow(call[d])
      /\ started \in [Runs -> Seq(World)] /\ run[x] \in RunRow /\ \A y \in Runs : RowSound(y)
  <2>1. /\ call[c] \in RequestOfRun /\ FitsRow(call[c]) /\ RowSound(x) /\ run[x] \in RunRow
        /\ \A d \in Callers : call[d] \in RequestOfRun /\ FitsRow(call[d])
        /\ started \in [Runs -> Seq(World)] /\ \A y \in Runs : RowSound(y)
    BY RunRecords DEF ComputeSound, TypeOKCompute
  <2>2. call[c].step \in {"stage", "ready", "running"}
    BY DEF Step, Stage, Start, FinishRun
  <2>3. CASE Inside(call[c])
    BY <1>0, <2>1, <2>2, <2>3 DEF FitsRow, ComputeSound
  <2>4. CASE Stage(c)
    <3>1. x \notin runDir
      BY <1>0, <2>4 DEF Stage, MakeDirectory
    <3>2. \A d \in Callers : Inside(call[d]) => call[d].run # x
      BY <2>1, <3>1 DEF FitsRow, Inside
    <3>3. run[x].execution = NoManifest
      BY <2>1, <3>1 DEF RowSound
    <3> QED BY <1>0, <2>1, <2>2, <3>2, <3>3 DEF FitsRow
  <2> QED BY <2>3, <2>4 DEF Inside, Step, Start, FinishRun
<1>2. PICK k \in RequestOfRun :
        /\ call' = [call EXCEPT ![c] = k]
        /\ k.step \in {"ready", "running", "free"} /\ FitsRow(k)'
        /\ k.step # "free" => k.run = x
        /\ run' \in [Runs -> RunRow] /\ UNCHANGED <<world, judged, results>>
        /\ runDir \subseteq runDir' /\ runDir' \subseteq Runs
        /\ started' \in [Runs -> Seq(World)]
        /\ \A y \in Runs \ {x} : run'[y] = run[y] /\ started'[y] = started[y]
        /\ run'[x].state # None /\ run'[x].plan = run[x].plan
        /\ RowSound(x)'
  <2>1. CASE Stage(c)
    <3> DEFINE k == [call[c] EXCEPT !.step = "ready"]
    <3>1. /\ call' = [call EXCEPT ![c] = k] /\ runDir' = runDir \cup {x} /\ x \notin runDir
          /\ UNCHANGED <<run, world, results, started, judged>>
      BY <1>0, <1>1, <2>1 DEF Stage, Step, MakeDirectory, ComputeSound, TypeOKCompute
    <3>2. k \in RequestOfRun /\ k.step = "ready" /\ k.run = x /\ k.ver = call[c].ver
      BY <1>0, <1>1 DEF RequestOfRun
    <3>3. started[x] = <<>>
      BY <1>1, <3>1 DEF RowSound
    <3> HIDE DEF k
    <3>4. \A q \in RequestOfRun : q = k => FitsRow(q)'
      BY <1>1, <3>1, <3>2, <3>3 DEF FitsRow, Inside
    <3>5. RowSound(x)'
      BY <1>1, <3>1 DEF RowSound
    <3>6. PICK q \in RequestOfRun : q = k
      BY <3>2
    <3>7. run \in [Runs -> RunRow] /\ runDir \subseteq Runs
      BY DEF ComputeSound, TypeOKCompute
    <3> WITNESS q \in RequestOfRun
    <3> QED BY <1>1, <3>1, <3>2, <3>4, <3>5, <3>6, <3>7
  <2>2. CASE Start(c)
    <3> DEFINE k == [call[c] EXCEPT !.step = "running"]  v == call[c].ver
    <3>1. /\ call' = [call EXCEPT ![c] = k] /\ started' = [started EXCEPT ![x] = Append(@, v)]
          /\ UNCHANGED <<run, world, runDir, results, judged>> /\ call[c].step = "ready"
      BY <1>0, <1>1, <2>2 DEF Start, Step, ComputeSound, TypeOKCompute
    <3>2. k \in RequestOfRun /\ k.step = "running" /\ k.run = x /\ k.ver = v
      BY <1>0, <1>1 DEF RequestOfRun
    <3>3. started[x] = <<>> /\ x \in runDir
      BY <1>0, <1>1, <3>1 DEF FitsRow, Inside
    <3>4. started'[x] = <<v>> /\ <<v>> \in Seq(World)
      BY <1>1, <3>1, <3>3
    <3>5. /\ started' \in [Runs -> Seq(World)]
          /\ \A y \in Runs \ {x} : started'[y] = started[y]
      BY <1>1, <3>1, <3>3, <3>4
    <3>6. v \in judged[x] /\ v \in World /\ v = run[x].plan
      BY <1>1
    <3> HIDE DEF k, v
    <3>7. \A q \in RequestOfRun : q = k => FitsRow(q)'
      BY <1>1, <3>1, <3>2, <3>3, <3>4, <3>6 DEF FitsRow, Inside
    <3>8. RowSound(x)'
      BY <1>1, <3>1, <3>3, <3>4, <3>6 DEF RowSound
    <3>9. PICK q \in RequestOfRun : q = k
      BY <3>2
    <3>10. run \in [Runs -> RunRow] /\ runDir \subseteq Runs
      BY DEF ComputeSound, TypeOKCompute
    <3> WITNESS q \in RequestOfRun
    <3> QED BY <1>1, <3>1, <3>2, <3>5, <3>7, <3>8, <3>9, <3>10
  <2>3. CASE FinishRun(c)
    <3>1. PICK outcome \in Outcome :
            run' = [run EXCEPT ![x].state = outcome,
                               ![x].execution = [ver |-> call[c].ver, outcome |-> outcome]]
      BY <1>0, <2>3 DEF FinishRun
    <3> DEFINE manifest == [ver |-> call[c].ver, outcome |-> outcome]
               row == [run[x] EXCEPT !.state = outcome, !.execution = manifest]
    <3>2. /\ call' = [call EXCEPT ![c] = Free] /\ call[c].step = "running"
          /\ UNCHANGED <<world, runDir, results, started, judged>>
      BY <2>3 DEF FinishRun, End
    <3>3. manifest \in Manifest /\ manifest.ver = call[c].ver /\ manifest.outcome = outcome
      BY <1>1 DEF Manifest
    <3> HIDE DEF manifest
    <3>4. /\ row \in RunRow /\ row.state = outcome /\ row.execution = manifest
          /\ row.plan = run[x].plan /\ row.review = run[x].review
      BY <1>1, <3>3 DEF RunRow
    <3>5. run' = [run EXCEPT ![x] = row] /\ run \in [Runs -> RunRow] /\ runDir \subseteq Runs
      BY <3>1 DEF manifest, ComputeSound, TypeOKCompute
    <3> HIDE DEF row
    <3>6. /\ run'[x] = row /\ run' \in [Runs -> RunRow]
          /\ \A y \in Runs \ {x} : run'[y] = run[y]
      BY <3>4, <3>5
    <3>7. started[x] = <<manifest.ver>>
      BY <1>0, <1>1, <3>2, <3>3 DEF FitsRow
    <3>8. \A i \in DOMAIN results[x] : FALSE
      BY <1>1 DEF RowSound, NoManifest, None
    <3>9. RowSound(x)'
      BY <1>1, <3>2, <3>3, <3>4, <3>6, <3>7, <3>8 DEF RowSound
    <3>10. Free \in RequestOfRun /\ Free.step = "free"
      BY RunRecords
    <3>11. \A q \in RequestOfRun : q = Free => FitsRow(q)'
      BY <3>10 DEF FitsRow
    <3>12. PICK q \in RequestOfRun : q = Free
      BY <3>10
    <3>13. outcome # None
      BY DEF Outcome, None
    <3> WITNESS q \in RequestOfRun
    <3> QED BY <1>1, <3>2, <3>4, <3>5, <3>6, <3>9, <3>10, <3>11, <3>12, <3>13
  <2> QED BY <2>1, <2>2, <2>3
<1>3. /\ call' \in [Callers -> RequestOfRun] /\ call'[c] = k
      /\ \A d \in Callers \ {c} : call'[d] = call[d]
      /\ copies' \in [Runs -> SUBSET World] /\ since' \in [Callers -> SUBSET World]
  <2>1. /\ copies \in [Runs -> SUBSET World] /\ since \in [Callers -> SUBSET World]
        /\ world \in World
    BY DEF ComputeSound, TypeOKCompute
  <2>2. copies' \in [Runs -> SUBSET World] /\ since' \in [Callers -> SUBSET World]
    BY <2>1 DEF Stage, Start, FinishRun, Copies, End
  <2> QED BY <1>2, <2>2 DEF ComputeSound, TypeOKCompute, RequestOfRun
<1>4. TypeOKCompute'
  BY <1>2, <1>3 DEF ComputeSound, TypeOKCompute, RequestOfRun
<1>5. \A d \in Callers : FitsRow(call[d])'
  <2> TAKE d \in Callers
  <2>1. CASE d = c
    BY <1>2, <1>3, <2>1 DEF FitsRow, Inside
  <2>2. CASE d # c
    <3>1. PICK q \in RequestOfRun : q = call[d] /\ FitsRow(q)
      BY <1>1
    <3>2. q.run = x => ~Inside(q) /\ q.step # "promote"
      BY <1>1, <2>2, <3>1 DEF FitsRow, NoManifest, None
    <3>3. q.run \in Runs /\ run[q.run].state # None =>
           /\ run'[q.run].state # None /\ run'[q.run].plan = run[q.run].plan
           /\ judged[q.run] \subseteq judged'[q.run]
           /\ Inside(q) => started'[q.run] = started[q.run]
           /\ Inside(q) \/ q.step = "promote" => run'[q.run].execution = run[q.run].execution
      BY <1>2, <3>2
    <3>4. FitsRow(q)'
      BY <1>2, <3>1, <3>3, StillFitsRow
    <3> QED BY <1>3, <2>2, <3>1, <3>4 DEF FitsRow, Inside
  <2> QED BY <2>1, <2>2
<1>6. \A y \in Runs : RowSound(y)'
  <2> TAKE y \in Runs
  <2>1. CASE y = x
    BY <1>2, <2>1 DEF RowSound
  <2>2. CASE y # x
    BY <1>1, <1>2, <2>2, StillSound
  <2> QED BY <2>1, <2>2
<1>7. \A d, e \in Callers :
        Inside(call'[d]) /\ Inside(call'[e]) /\ call'[d].run = call'[e].run => d = e
  BY <1>1, <1>2, <1>3 DEF ComputeSound, Inside
<1> QED BY <1>4, <1>5, <1>6, <1>7 DEF ComputeSound, Inside

LEMMA ComputeNextSound == ComputeSound /\ [ComputeNext]_cvars => ComputeSound'
<1> SUFFICES ASSUME ComputeSound, [ComputeNext]_cvars PROVE ComputeSound'
  OBVIOUS
<1>1. ASSUME NEW x \in Runs, CreateRun(x) PROVE ComputeSound'
  <2> DEFINE row == [run[x] EXCEPT !.state = "planned", !.plan = world]
  <2>1. /\ run[x].state = None /\ run' = [run EXCEPT ![x] = row]
        /\ UNCHANGED <<world, runDir, call, copies, results, started, since, judged>>
    BY <1>1 DEF CreateRun
  <2>2. /\ row \in RunRow /\ row.state = "planned" /\ row.review = run[x].review
        /\ row.execution = run[x].execution
    BY RunRecords DEF ComputeSound, TypeOKCompute, RunRow, Plan
  <2> HIDE DEF row
  <2>3. /\ run' \in [Runs -> RunRow] /\ run'[x] = row /\ \A y \in Runs \ {x} : run'[y] = run[y]
    BY <2>1, <2>2 DEF ComputeSound, TypeOKCompute
  <2>4. TypeOKCompute'
    BY <2>1, <2>3 DEF ComputeSound, TypeOKCompute
  <2>5. \A c \in Callers : FitsRow(call[c])'
    <3> TAKE c \in Callers
    <3>1. PICK q \in RequestOfRun : q = call[c] /\ FitsRow(q)
      BY RunRecords
    <3>2. FitsRow(q)'
      BY <2>1, <2>3, <3>1, StillFitsRow
    <3> QED BY <2>1, <3>1, <3>2 DEF FitsRow, Inside
  <2>6. RowSound(x)'
    <3>1. RowSound(x)
      BY DEF ComputeSound
    <3> QED BY <2>1, <2>2, <2>3, <3>1 DEF RowSound, Outcome
  <2>7. \A y \in Runs \ {x} : RowSound(y)'
    BY <2>1, <2>3, StillSound DEF ComputeSound
  <2> QED BY <2>1, <2>4, <2>5, <2>6, <2>7 DEF ComputeSound, Inside
<1>2. ASSUME WorldChanges \/ UNCHANGED cvars \/ \E c \in Callers : StageInput(c)
      PROVE  ComputeSound'
  <2>1. /\ UNCHANGED <<run, runDir, call, results, started, judged>> /\ world' \in World
        /\ copies' \in [Runs -> SUBSET World] /\ since' \in [Callers -> SUBSET World]
    <3>1. /\ copies \in [Runs -> SUBSET World] /\ since \in [Callers -> SUBSET World]
          /\ world \in World
      BY DEF ComputeSound, TypeOKCompute
    <3> QED BY <1>2, <3>1 DEF WorldChanges, cvars, StageInput, Copies
  <2> QED BY <2>1 DEF ComputeSound, TypeOKCompute, FitsRow, Inside, RowSound
<1> QED BY <1>1, <1>2, BeginsSound, DieSound, DecisionsSound, ExecutionSound DEF ComputeNext

(* What a request has copied are versions there were since it compared.    *)
Staged(c) ==
  LET k == call[c] IN
  /\ k.step \in {"stage", "ready", "running"} => k.ver \in since[c]
  /\ k.step \in {"stage", "ready"} => world \in since[c]
  /\ Inside(k) => copies[k.run] # {} /\ copies[k.run] \subseteq since[c]

NothingYet == \A x \in Runs \ runDir : copies[x] = {}

CopiesSound == NothingYet /\ \A c \in Callers : Staged(c)

LEMMA NothingYetStep == ComputeSound /\ NothingYet /\ [ComputeNext]_cvars => NothingYet'
<1> SUFFICES ASSUME ComputeSound, NothingYet, [ComputeNext]_cvars, NEW x \in Runs \ runDir'
             PROVE  copies'[x] = {}
  BY DEF NothingYet
<1>1. /\ copies \in [Runs -> SUBSET World]
      /\ \A c \in Callers : call[c] \in RequestOfRun /\ FitsRow(call[c])
  BY DEF ComputeSound, TypeOKCompute, RequestOfRun
<1>2. ASSUME NEW c \in Callers, Stage(c) \/ StageInput(c) \/ Start(c)
      PROVE  call[c].run \in runDir' /\ runDir \subseteq runDir'
  BY <1>1, <1>2 DEF Stage, StageInput, Start, Step, MakeDirectory, FitsRow, Inside
<1>3. CASE copies' = copies /\ runDir' = runDir
  BY <1>3 DEF NothingYet
<1>4. ASSUME NEW c \in Callers, Stage(c) \/ StageInput(c) \/ Start(c)
      PROVE  copies'[x] = {}
  BY <1>1, <1>2, <1>4 DEF Stage, StageInput, Start, Copies, NothingYet
<1> QED BY <1>3, <1>4 DEF ComputeNext, cvars, CreateRun, LoadApproval, ApproveRun, Execute, Review,
                          ReviewRun, Promote, PromoteResult, FinishRun, Die, WorldChanges

LEMMA StagedStep ==
  ASSUME ComputeSound, ComputeSound', [ComputeNext]_cvars, NothingYet,
         NEW c \in Callers, Staged(c)
  PROVE  Staged(c)'
<1>1. /\ copies \in [Runs -> SUBSET World] /\ since \in [Callers -> SUBSET World]
      /\ call \in [Callers -> RequestOfRun]
      /\ \A d \in Callers : FitsRow(call[d])
      /\ \A d \in Callers : Inside(call[c]) /\ Inside(call[d]) /\ call[c].run = call[d].run => c = d
  BY DEF ComputeSound, TypeOKCompute, RequestOfRun
<1>2. CASE \/ UNCHANGED cvars \/ \E x \in Runs : CreateRun(x)
  BY <1>2 DEF cvars, CreateRun, Staged, Inside
<1>3. CASE WorldChanges
  BY <1>1, <1>3 DEF WorldChanges, Staged, Inside
<1>4. ASSUME NEW d \in Callers, NEW x \in Runs,
             LoadApproval(d, x) \/ Execute(d, x) \/ Review(d, x) \/ Promote(d, x)
      PROVE  Staged(c)'
  BY <1>1, <1>4 DEF LoadApproval, Execute, Review, Promote, Begin, Staged, Inside
<1>5. ASSUME NEW d \in Callers,
             ApproveRun(d) \/ ReviewRun(d) \/ PromoteResult(d) \/ FinishRun(d) \/ Die(d)
      PROVE  Staged(c)'
  BY <1>1, <1>5 DEF ApproveRun, ReviewRun, PromoteResult, FinishRun, Die, End, Free, Staged, Inside
<1>6. ASSUME NEW d \in Callers, Stage(d) \/ StageInput(d) \/ Start(d)
      PROVE  Staged(c)'
  <2>1. PICK versions \in {{}, {world}} :
          /\ copies' = [copies EXCEPT ![call[d].run] = @ \cup versions]
          /\ Stage(d) => versions = {world}
    BY <1>6 DEF Stage, StageInput, Start, Copies
  <2>2. /\ UNCHANGED <<world, since>> /\ call[d].step \in {"stage", "ready"} /\ call[d].run \in Runs
        /\ \A e \in Callers \ {d} : call'[e] = call[e]
        /\ call'[d].run = call[d].run /\ call'[d].ver = call[d].ver
        /\ call'[d].step \in {"ready", "running"}
    BY <1>1, <1>6 DEF Stage, StageInput, Start, Step, FitsRow, RequestOfRun
  <2>3. CASE c = d
    <3>1. copies'[call[c].run] = copies[call[c].run] \cup versions
      BY <1>1, <2>1, <2>2, <2>3
    <3>2. Stage(c) => copies[call[c].run] = {}
      BY <2>2, <2>3 DEF NothingYet, Stage, MakeDirectory
    <3>3. Stage(c) \/ call[c].step = "ready"
      BY <1>6, <2>3 DEF StageInput, Start, Step
    <3>4. copies'[call[c].run] # {} /\ copies'[call[c].run] \subseteq since[c]
      BY <1>1, <2>1, <2>2, <2>3, <3>1, <3>2, <3>3 DEF Staged, Inside
    <3> QED BY <2>2, <2>3, <3>4 DEF Staged, Inside
  <2>4. CASE c # d
    <3>1. Inside(call[c]) => call[c].run # call[d].run
      BY <1>1, <1>6, <2>2, <2>4 DEF Inside, Stage, StageInput, Start, Step, MakeDirectory, FitsRow
    <3> QED BY <1>1, <2>1, <2>2, <2>4, <3>1 DEF Staged, Inside
  <2> QED BY <2>3, <2>4
<1> QED BY <1>2, <1>3, <1>4, <1>5, <1>6 DEF ComputeNext

(* A run starts at most one subprocess, bound to what a person approved,   *)
(* and every promoted result cites the manifest of that execution, which   *)
(* succeeded and which a person verified; and it runs with nothing else    *)
(* unless something changed since the plan was compared (compute.py).      *)
THEOREM ComputeHolds == ComputeSpec => []ComputeAsApproved
<1>1. ComputeSound /\ CopiesSound => ComputeAsApproved
  <2>0. ASSUME ComputeSound, CopiesSound, NEW c \in Callers, call[c].step = "running",
               since[c] = {call[c].ver}
        PROVE  copies[call[c].run] = {call[c].ver}
    BY <2>0 DEF CopiesSound, Staged, Inside
  <2> SUFFICES ASSUME ComputeSound, NEW x \in Runs
               PROVE  /\ Len(started[x]) <= 1
                      /\ \A i \in DOMAIN started[x] : started[x][i] \in judged[x]
                      /\ \A i \in DOMAIN results[x] :
                           /\ results[x][i] = run[x].execution
                           /\ results[x][i].outcome = "succeeded"
                           /\ results[x][i].ver = started[x][1] /\ "verified" \in judged[x]
    BY <2>0 DEF ComputeAsApproved
  <2>1. RowSound(x)
    BY DEF ComputeSound
  <2>2. /\ Len(started[x]) <= 1
        /\ \A i \in DOMAIN started[x] : started[x][i] \in judged[x]
    <3>1. CASE started[x] = <<>>
      BY <3>1
    <3>2. CASE \E v \in judged[x] : started[x] = <<v>>
      BY <3>2
    <3> QED BY <2>1, <3>1, <3>2 DEF RowSound
  <2>3. ASSUME NEW i \in DOMAIN results[x]
        PROVE  /\ results[x][i] = run[x].execution /\ results[x][i].outcome = "succeeded"
               /\ results[x][i].ver = started[x][1] /\ "verified" \in judged[x]
    <3>1. /\ results[x][i] = run[x].execution /\ run[x].execution.outcome = "succeeded"
          /\ "verified" \in judged[x]
      BY <2>1, <2>3 DEF RowSound
    <3>2. run[x].execution # NoManifest
      BY <3>1 DEF NoManifest, None
    <3>3. started[x] = <<run[x].execution.ver>>
      BY <2>1, <3>2 DEF RowSound
    <3> QED BY <3>1, <3>3
  <2> QED BY <2>2, <2>3
<1>2. ComputeInit => CopiesSound
  BY DEF ComputeInit, CopiesSound, NothingYet, Staged, Inside, Free
<1>3. ComputeSound /\ ComputeSound' /\ CopiesSound /\ [ComputeNext]_cvars => CopiesSound'
  BY StagedStep, NothingYetStep DEF CopiesSound
<1> QED BY <1>1, <1>2, <1>3, ComputeInitSound, ComputeNextSound, PTL DEF ComputeSpec

-----------------------------------------------------------------------------
(* Publication packages: PublicationPackages.                              *)

Errand ==
  [at : {"rest", "edit", "prepare", "freeze", "prepared", "review", "approve", "reject",
         "export", "assemble"},
   package : Packages \cup {Blank}, snapshot : Snapshot, form : Snapshot, old : SUBSET Packages]

(* A package that has been prepared never becomes a draft again.           *)
Prepared(p) == package[p].state \notin {Blank, "draft"}

(* What a request carries: an export has seen an approved package, whose   *)
(* basis was then what it printed, and that stays among what was frozen.   *)
Carries(work) ==
  work.at # "rest" =>
    /\ work.package \in Packages
    /\ work.at \in {"review", "approve", "reject", "export", "assemble"} => Prepared(work.package)
    /\ work.at = "approve" => \A q \in work.old : Prepared(q)
    /\ work.at \in {"export", "assemble"} =>
         /\ work.package \in approvals /\ work.snapshot \in frozen[work.package]
         /\ Unblocked(work.snapshot)
    /\ work.at = "assemble" =>
         work.form \in frozen[work.package] /\ work.form.papers = work.snapshot.papers

PackageSound(p) ==
  /\ package[p].state = "approved" => p \in approvals
  /\ Prepared(p) => package[p].basis \in frozen[p]

PackagesSound ==
  /\ TypeOKPackages
  /\ \A s \in Staff : Carries(job[s])
  /\ \A p \in Packages : PackageSound(p)
  /\ BundlesAsApproved

-----------------------------------------------------------------------------
LEMMA Snapshots ==
  ASSUME TypeOKPackages
  PROVE  /\ NoSnapshot \in Snapshot /\ NoJob \in Errand /\ NoJob.at = "rest"
         /\ \A p \in Packages : Snap(p) \in Snapshot
         /\ \A s \in Staff : job[s] \in Errand
<1>1. NoSnapshot \in Snapshot
  BY PackageAssumptions DEF NoSnapshot, Snapshot, Wording
<1>2. NoJob \in Errand /\ NoJob.at = "rest"
  BY <1>1 DEF NoJob, Errand
<1>3. ASSUME NEW p \in Packages PROVE Snap(p) \in Snapshot
  <2>1. package[p].forms \in Wording /\ papers \in 0 .. MaxChanges
    BY DEF TypeOKPackages, PackageRow
  <2>2. (authors % 2 = 1) \in BOOLEAN
    OBVIOUS
  <2> DEFINE odd == authors % 2 = 1
  <2> HIDE DEF odd
  <2>3. [papers |-> papers, authors |-> odd, forms |-> package[p].forms] \in Snapshot
    BY <2>1, <2>2 DEF Snapshot, odd
  <2> QED BY <2>3 DEF Snap, odd
<1> QED BY <1>1, <1>2, <1>3 DEF TypeOKPackages, Errand

LEMMA PackagesInitSound == PackagesInit => PackagesSound
<1> SUFFICES ASSUME PackagesInit PROVE PackagesSound
  OBVIOUS
<1>1. NoSnapshot \in Snapshot
  BY PackageAssumptions DEF NoSnapshot, Snapshot, Wording
<1>2. NoJob \in Errand /\ NoJob.at = "rest"
  BY <1>1 DEF NoJob, Errand
<1>3. NoPackage \in PackageRow /\ NoPackage.state = Blank
  BY <1>1 DEF NoPackage, PackageRow, Wording
<1>4. NoBundle \in [package : Packages \cup {Blank}, printed : Snapshot, form : Snapshot]
  BY <1>1 DEF NoBundle
<1>5. TypeOKPackages
  BY <1>2, <1>3, <1>4, PackageAssumptions DEF PackagesInit, TypeOKPackages, Errand
<1> QED BY <1>2, <1>3, <1>5 DEF PackagesInit, PackagesSound, Carries, PackageSound, Prepared,
                               BundlesAsApproved, Blank

(* A request moves on, and writes nothing.                                 *)
LEMMA ErrandKeeps ==
  ASSUME PackagesSound, NEW s \in Staff, NEW work \in Errand, job' = [job EXCEPT ![s] = work],
         Carries(work), UNCHANGED <<package, papers, authors, bundle, frozen, approvals>>
  PROVE  PackagesSound'
<1>1. /\ job' \in [Staff -> Errand] /\ job'[s] = work
      /\ \A r \in Staff \ {s} : job'[r] = job[r]
  BY DEF PackagesSound, TypeOKPackages, Errand
<1>2. TypeOKPackages'
  BY <1>1 DEF PackagesSound, TypeOKPackages, Errand
<1>3. \A r \in Staff : Carries(job[r])'
  BY <1>1 DEF PackagesSound, Carries, Prepared, Unblocked
<1> QED BY <1>2, <1>3 DEF PackagesSound, PackageSound, Prepared, BundlesAsApproved, Unblocked

(* A request commits: what was prepared stays prepared, what was frozen    *)
(* and approved is not forgotten.                                          *)
LEMMA WriteKeeps ==
  ASSUME PackagesSound, NEW s \in Staff, job' = [job EXCEPT ![s] = NoJob],
         package' \in [Packages -> PackageRow],
         frozen' \in [Packages -> SUBSET Snapshot], approvals' \subseteq Packages,
         \A p \in Packages : /\ Prepared(p) => Prepared(p)'
                             /\ frozen[p] \subseteq frozen'[p]
                             /\ PackageSound(p)',
         approvals \subseteq approvals', UNCHANGED <<papers, authors, bundle>>
  PROVE  PackagesSound'
<1>1. /\ job' \in [Staff -> Errand] /\ job'[s] = NoJob /\ NoJob.at = "rest"
      /\ \A r \in Staff \ {s} : job'[r] = job[r] /\ job[r] \in Errand
  BY Snapshots DEF PackagesSound, TypeOKPackages, Errand
<1>2. TypeOKPackages'
  BY <1>1 DEF PackagesSound, TypeOKPackages, Errand
<1>3. \A r \in Staff : Carries(job[r])'
  <2> TAKE r \in Staff
  <2>1. CASE r = s
    BY <1>1, <2>1 DEF Carries
  <2>2. CASE r # s
    <3>1. Carries(job[r]) /\ job'[r] = job[r] /\ job[r].old \subseteq Packages
      BY <1>1, <2>2 DEF PackagesSound, Errand
    <3> QED BY <3>1 DEF Carries, Prepared, Unblocked
  <2> QED BY <2>1, <2>2
<1>4. BundlesAsApproved'
  <2>1. bundle # NoBundle => bundle.package \in Packages
    BY DEF PackagesSound, TypeOKPackages, BundlesAsApproved
  <2> QED BY <2>1 DEF PackagesSound, BundlesAsApproved, Unblocked
<1> QED BY <1>2, <1>3, <1>4 DEF PackagesSound

LEMMA PackageFacts ==
  ASSUME PackagesSound
  PROVE  /\ TypeOKPackages /\ BundlesAsApproved
         /\ package \in [Packages -> PackageRow]
         /\ frozen \in [Packages -> SUBSET Snapshot] /\ approvals \subseteq Packages
         /\ \A p \in Packages : PackageSound(p) /\ package[p] \in PackageRow
         /\ \A s \in Staff : job[s] \in Errand /\ Carries(job[s])
BY Snapshots DEF PackagesSound, TypeOKPackages

(* The steps of a request before its commit.                               *)
LEMMA MovesSound ==
  ASSUME PackagesSound, NEW s \in Staff,
         \/ \E p \in Packages : \/ Open(s, p, "draft", "edit") \/ Open(s, p, "draft", "prepare")
                                \/ Open(s, p, "review_ready", "review") \/ Export(s, p)
         \/ Check(s) \/ Freeze(s) \/ Decide(s) \/ Assemble(s) \/ GiveUp(s)
  PROVE  PackagesSound'
<1> SUFFICES ASSUME UNCHANGED <<package, papers, authors, bundle, frozen, approvals>>
             PROVE  \E work \in Errand : job' = [job EXCEPT ![s] = work] /\ Carries(work)
  <2>1. UNCHANGED <<package, papers, authors, bundle, frozen, approvals>>
    BY DEF Open, Export, Check, Freeze, Decide, Assemble, GiveUp, outer
  <2> QED BY <2>1, ErrandKeeps
<1>1. ASSUME NEW p \in Packages, NEW state \in {"draft", "review_ready"},
             NEW at \in {"edit", "prepare", "review"}, Open(s, p, state, at),
             at = "review" => state = "review_ready"
      PROVE  \E work \in Errand : job' = [job EXCEPT ![s] = work] /\ Carries(work)
  <2> DEFINE work == [job[s] EXCEPT !.at = at, !.package = p]
  <2>1. job' = [job EXCEPT ![s] = work] /\ package[p].state = state
    BY <1>1 DEF Open
  <2>2. work \in Errand /\ work.at = at /\ work.package = p
    BY PackageFacts DEF Errand
  <2> HIDE DEF work
  <2>3. Carries(work)
    BY <1>1, <2>1, <2>2 DEF Carries, Prepared, Blank
  <2> QED BY <2>1, <2>2, <2>3
<1>2. ASSUME NEW p \in Packages, Export(s, p)
      PROVE  \E work \in Errand : job' = [job EXCEPT ![s] = work] /\ Carries(work)
  <2> DEFINE work == [job[s] EXCEPT !.at = "export", !.package = p, !.snapshot = Snap(p)]
  <2>1. /\ job' = [job EXCEPT ![s] = work] /\ package[p].state = "approved"
        /\ Snap(p) = package[p].basis /\ Unblocked(Snap(p)) /\ Snap(p) \in Snapshot
    BY <1>2, Snapshots, PackageFacts DEF Export, AsFrozen
  <2>2. work \in Errand /\ work.at = "export" /\ work.package = p /\ work.snapshot = Snap(p)
    BY <2>1, PackageFacts DEF Errand
  <2>3. PackageSound(p)
    BY PackageFacts
  <2> HIDE DEF work
  <2>4. Carries(work)
    BY <2>1, <2>2, <2>3 DEF Carries, PackageSound, Prepared, Blank
  <2> QED BY <2>1, <2>2, <2>4
<1>3. ASSUME Check(s)
      PROVE  \E work \in Errand : job' = [job EXCEPT ![s] = work] /\ Carries(work)
  <2> DEFINE work == [job[s] EXCEPT !.at = "freeze"]
  <2>1. job' = [job EXCEPT ![s] = work] /\ job[s].at = "prepare"
    BY <1>3 DEF Check
  <2>2. work \in Errand /\ work.at = "freeze" /\ work.package = job[s].package
    BY PackageFacts DEF Errand
  <2>3. Carries(job[s])
    BY PackageFacts
  <2> HIDE DEF work
  <2>4. Carries(work)
    BY <2>1, <2>2, <2>3 DEF Carries
  <2> QED BY <2>1, <2>2, <2>4
<1>4. ASSUME Freeze(s)
      PROVE  \E work \in Errand : job' = [job EXCEPT ![s] = work] /\ Carries(work)
  <2> DEFINE work == [job[s] EXCEPT !.at = "prepared", !.snapshot = Snap(job[s].package)]
  <2>1. job' = [job EXCEPT ![s] = work] /\ job[s].at = "freeze"
    BY <1>4 DEF Freeze
  <2>2. Carries(job[s]) /\ job[s].package \in Packages
    BY <2>1, PackageFacts DEF Carries
  <2>3. work \in Errand /\ work.at = "prepared" /\ work.package = job[s].package
    BY <2>2, Snapshots, PackageFacts DEF Errand
  <2> HIDE DEF work
  <2>4. Carries(work)
    BY <2>2, <2>3 DEF Carries
  <2> QED BY <2>1, <2>3, <2>4
<1>5. ASSUME Decide(s)
      PROVE  \E work \in Errand : job' = [job EXCEPT ![s] = work] /\ Carries(work)
  <2> DEFINE p == job[s].package
             old == {q \in Packages \ {p} : package[q].state = "approved"}
             yes == [job[s] EXCEPT !.at = "approve", !.old = old]
             no == [job[s] EXCEPT !.at = "reject"]
  <2>1. /\ job' = [job EXCEPT ![s] = yes] \/ job' = [job EXCEPT ![s] = no]
        /\ job[s].at = "review" /\ Carries(job[s])
    BY <1>5, PackageFacts DEF Decide
  <2>2. yes \in Errand /\ yes.at = "approve" /\ yes.package = p /\ yes.old = old
    BY PackageFacts DEF Errand
  <2>3. no \in Errand /\ no.at = "reject" /\ no.package = p
    BY PackageFacts DEF Errand
  <2>4. \A q \in old : Prepared(q)
    BY DEF Prepared, Blank
  <2> HIDE DEF yes, no, old
  <2>5. Carries(yes) /\ Carries(no)
    BY <2>1, <2>2, <2>3, <2>4 DEF Carries
  <2> QED BY <2>1, <2>2, <2>3, <2>5
<1>6. ASSUME Assemble(s)
      PROVE  \E work \in Errand : job' = [job EXCEPT ![s] = work] /\ Carries(work)
  <2> DEFINE p == job[s].package  work == [job[s] EXCEPT !.at = "assemble", !.form = Snap(p)]
  <2>1. /\ job' = [job EXCEPT ![s] = work] /\ job[s].at = "export" /\ Carries(job[s])
        /\ Snap(p) = package[p].basis /\ Snap(p).papers = papers
        /\ job[s].snapshot.papers = papers
    BY <1>6, PackageFacts DEF Assemble, AsFrozen, SameEvidence, Snap
  <2>2. p \in Packages /\ Prepared(p)
    BY <2>1 DEF Carries
  <2>3. PackageSound(p) /\ Snap(p) \in Snapshot
    BY <2>2, PackageFacts, Snapshots
  <2>4. /\ work \in Errand /\ work.at = "assemble" /\ work.package = p
        /\ work.snapshot = job[s].snapshot /\ work.form = Snap(p)
    BY <2>3, PackageFacts DEF Errand
  <2> HIDE DEF work
  <2>5. Carries(work)
    BY <2>1, <2>2, <2>3, <2>4 DEF Carries, PackageSound
  <2> QED BY <2>1, <2>4, <2>5
<1>7. ASSUME GiveUp(s)
      PROVE  \E work \in Errand : job' = [job EXCEPT ![s] = work] /\ Carries(work)
  <2>1. job' = [job EXCEPT ![s] = NoJob]
    BY <1>7 DEF GiveUp, Close
  <2>2. NoJob \in Errand /\ NoJob.at = "rest"
    BY Snapshots, PackageFacts
  <2>3. Carries(NoJob)
    BY <2>2 DEF Carries
  <2> QED BY <2>1, <2>2, <2>3
<1> QED BY <1>1, <1>2, <1>3, <1>4, <1>5, <1>6, <1>7

(* The commits: of an edit, of what was frozen, of a decision.             *)
LEMMA WritesPackageSound ==
  ASSUME PackagesSound, NEW s \in Staff, Edit(s) \/ Prepare(s) \/ CommitDecision(s)
  PROVE  PackagesSound'
<1>1. /\ job[s] \in Errand /\ Carries(job[s])
      /\ package \in [Packages -> PackageRow] /\ frozen \in [Packages -> SUBSET Snapshot]
      /\ approvals \subseteq Packages
      /\ \A q \in Packages : package[q] \in PackageRow /\ PackageSound(q)
  BY PackageFacts
<1>2. PICK p \in Packages : p = job[s].package
  BY <1>1 DEF Carries, Edit, Prepare, CommitDecision
<1>3. ASSUME Edit(s) PROVE PackagesSound'
  <2>1. PICK w \in Wording : package' = [package EXCEPT ![p].forms = w]
    BY <1>2, <1>3 DEF Edit
  <2>2. job' = [job EXCEPT ![s] = NoJob] /\ UNCHANGED <<papers, authors, bundle, frozen, approvals>>
    BY <1>3 DEF Edit, Close, outer
  <2> DEFINE row == [package[p] EXCEPT !.forms = w]
  <2>3. row \in PackageRow /\ row.state = package[p].state /\ row.basis = package[p].basis
    BY <1>1 DEF PackageRow
  <2>4. package' = [package EXCEPT ![p] = row]
    BY <2>1
  <2> HIDE DEF row
  <2>5. /\ package' \in [Packages -> PackageRow] /\ package'[p] = row
        /\ \A q \in Packages \ {p} : package'[q] = package[q]
    BY <1>1, <2>3, <2>4
  <2>6. \A q \in Packages : /\ Prepared(q) => Prepared(q)'
                            /\ frozen[q] \subseteq frozen'[q]
                            /\ PackageSound(q)'
    BY <1>1, <2>2, <2>3, <2>5 DEF Prepared, PackageSound
  <2> QED BY <1>1, <2>2, <2>5, <2>6, WriteKeeps
<1>4. ASSUME Prepare(s) PROVE PackagesSound'
  <2> DEFINE snapshot == job[s].snapshot
             row == [package[p] EXCEPT !.state = "review_ready", !.basis = snapshot]
  <2>1. /\ package' = [package EXCEPT ![p] = row] /\ job' = [job EXCEPT ![s] = NoJob]
        /\ frozen' = [frozen EXCEPT ![p] = @ \cup {snapshot}]
        /\ UNCHANGED <<papers, authors, bundle, approvals>>
    BY <1>2, <1>4 DEF Prepare, Close, outer
  <2>2. snapshot \in Snapshot
    BY <1>1 DEF Errand
  <2>3. row \in PackageRow /\ row.state = "review_ready" /\ row.basis = snapshot
    BY <1>1, <2>2 DEF PackageRow
  <2> HIDE DEF row, snapshot
  <2>4. /\ package' \in [Packages -> PackageRow] /\ package'[p] = row
        /\ \A q \in Packages \ {p} : package'[q] = package[q]
        /\ frozen' \in [Packages -> SUBSET Snapshot] /\ frozen'[p] = frozen[p] \cup {snapshot}
        /\ \A q \in Packages \ {p} : frozen'[q] = frozen[q]
    BY <1>1, <2>1, <2>2, <2>3
  <2>5. \A q \in Packages : /\ Prepared(q) => Prepared(q)'
                            /\ frozen[q] \subseteq frozen'[q]
                            /\ PackageSound(q)'
    BY <1>1, <2>1, <2>3, <2>4 DEF Prepared, PackageSound, Blank
  <2> QED BY <1>1, <2>1, <2>4, <2>5, WriteKeeps
<1>5. ASSUME CommitDecision(s) PROVE PackagesSound'
  <2>1. /\ job' = [job EXCEPT ![s] = NoJob] /\ UNCHANGED <<papers, authors, bundle, frozen>>
        /\ job[s].at \in {"approve", "reject"} /\ Prepared(p)
    BY <1>1, <1>2, <1>5 DEF CommitDecision, Close, outer, Carries
  <2>2. /\ approvals \subseteq approvals' /\ approvals' \subseteq Packages
        /\ \A q \in Packages :
             \/ package'[q] = package[q]
             \/ q = p /\ p \in approvals' /\ package'[q] = [package[q] EXCEPT !.state = "approved"]
             \/ Prepared(q) /\ package'[q] = [package[q] EXCEPT !.state = "superseded"]
             \/ q = p /\ package'[q] = [package[q] EXCEPT !.state = "rejected"]
    <3>1. CASE job[s].at = "approve"
      <4>1. /\ approvals' = approvals \cup {p}
            /\ package' = [q \in Packages |->
                 CASE q = p -> [package[q] EXCEPT !.state = "approved"]
                   [] q \in job[s].old -> [package[q] EXCEPT !.state = "superseded"]
                   [] OTHER -> package[q]]
        BY <1>2, <1>5, <3>1 DEF CommitDecision
      <4>2. \A q \in job[s].old : Prepared(q)
        BY <1>1, <3>1 DEF Carries
      <4> QED BY <1>1, <4>1, <4>2
    <3>2. CASE job[s].at = "reject"
      BY <1>1, <1>2, <1>5, <3>2 DEF CommitDecision
    <3> QED BY <2>1, <3>1, <3>2
  <2>3. \A q \in Packages : \A state \in {"approved", "superseded", "rejected"} :
          LET row == [package[q] EXCEPT !.state = state] IN
          row \in PackageRow /\ row.state = state /\ row.basis = package[q].basis
    BY <1>1 DEF PackageRow
  <2>4. \A q \in Packages : package'[q] \in PackageRow
    BY <1>1, <2>2, <2>3, ZenonT(60)
  <2>5. package' \in [Packages -> PackageRow]
    <3>1. package' = [q \in Packages |-> package'[q]]
      BY <1>1, <1>5 DEF CommitDecision
    <3> QED BY <2>4, <3>1
  <2>6. \A q \in Packages : /\ Prepared(q) => Prepared(q)'
                            /\ frozen[q] \subseteq frozen'[q]
                            /\ PackageSound(q)'
    <3> TAKE q \in Packages
    <3>1. PackageSound(q) /\ frozen' = frozen
      BY <1>1, <2>1
    <3>2. CASE package'[q] = package[q]
      BY <2>2, <3>1, <3>2 DEF Prepared, PackageSound
    <3>3. ASSUME NEW state \in {"approved", "superseded", "rejected"}, Prepared(q),
                 package'[q] = [package[q] EXCEPT !.state = state],
                 state = "approved" => q \in approvals'
          PROVE  Prepared(q)' /\ PackageSound(q)'
      <4>1. package'[q].state = state /\ package'[q].basis = package[q].basis
        BY <2>3, <3>3
      <4> QED BY <3>1, <3>3, <4>1 DEF Prepared, PackageSound, Blank
    <3> QED BY <2>1, <2>2, <3>1, <3>2, <3>3
  <2> QED BY <1>1, <2>1, <2>2, <2>5, <2>6, WriteKeeps
<1> QED BY <1>3, <1>4, <1>5

(* What is built is what the request carries.                              *)
LEMMA BuildSound ==
  ASSUME PackagesSound, NEW s \in Staff, Build(s)
  PROVE  PackagesSound'
<1> DEFINE work == job[s]
<1>1. /\ work \in Errand /\ Carries(work) /\ work.at = "assemble"
      /\ bundle' = [package |-> work.package, printed |-> work.snapshot, form |-> work.form]
      /\ job' = [job EXCEPT ![s] = NoJob]
      /\ UNCHANGED <<package, papers, authors, frozen, approvals>>
  BY PackageFacts DEF Build, Close, outer
<1> HIDE DEF work
<1>2. /\ bundle'.package = work.package /\ bundle'.printed = work.snapshot
      /\ bundle'.form = work.form
      /\ bundle' \in [package : Packages \cup {Blank}, printed : Snapshot, form : Snapshot]
  BY <1>1 DEF Errand
<1>3. BundlesAsApproved'
  BY <1>1, <1>2 DEF Carries, BundlesAsApproved, Unblocked
<1>4. NoJob \in Errand /\ NoJob.at = "rest"
  BY Snapshots, PackageFacts
<1>5. /\ job' \in [Staff -> Errand]
      /\ \A r \in Staff : job'[r] = NoJob \/ (job'[r] = job[r] /\ Carries(job[r]))
  BY <1>1, <1>4 DEF PackagesSound, TypeOKPackages, Errand
<1>6. TypeOKPackages'
  BY <1>1, <1>2, <1>5 DEF PackagesSound, TypeOKPackages, Errand
<1>7. \A r \in Staff : Carries(job[r])'
  BY <1>1, <1>4, <1>5 DEF Carries, Prepared, Unblocked
<1> QED BY <1>1, <1>3, <1>6, <1>7 DEF PackagesSound, PackageSound, Prepared

LEMMA PackagesNextSound == PackagesSound /\ [PackagesNext]_pvars => PackagesSound'
<1> SUFFICES ASSUME PackagesSound, [PackagesNext]_pvars PROVE PackagesSound'
  OBVIOUS
<1>1. ASSUME NEW p \in Packages, CreatePackage(p) PROVE PackagesSound'
  <2> DEFINE row == [package[p] EXCEPT !.state = "draft"]
  <2>1. /\ package' = [package EXCEPT ![p] = row] /\ package[p].state = Blank
        /\ UNCHANGED <<papers, authors, job, bundle, frozen, approvals>>
    BY <1>1 DEF CreatePackage, outer
  <2>2. row \in PackageRow /\ row.state = "draft"
    BY PackageFacts DEF PackageRow
  <2> HIDE DEF row
  <2>3. /\ package' \in [Packages -> PackageRow] /\ package'[p] = row
        /\ \A q \in Packages \ {p} : package'[q] = package[q]
    BY <2>1, <2>2, PackageFacts
  <2>4. TypeOKPackages' /\ \A q \in Packages : (Prepared(q) => Prepared(q)') /\ PackageSound(q)'
    BY <2>1, <2>2, <2>3, PackageFacts DEF TypeOKPackages, Prepared, PackageSound, Blank
  <2>5. \A s \in Staff : Carries(job[s])'
    <3> TAKE s \in Staff
    <3>1. Carries(job[s]) /\ job[s].old \subseteq Packages
      BY PackageFacts DEF Errand
    <3> QED BY <2>1, <2>4, <3>1 DEF Carries, Unblocked
  <2> QED BY <2>1, <2>4, <2>5 DEF PackagesSound, BundlesAsApproved, Unblocked
<1>2. ASSUME OuterChanges \/ UNCHANGED pvars PROVE PackagesSound'
  <2>1. /\ UNCHANGED <<package, job, bundle, frozen, approvals>>
        /\ papers' \in 0 .. MaxChanges /\ authors' \in 0 .. MaxChanges
    BY <1>2, PackageAssumptions, PackageFacts DEF OuterChanges, pvars, TypeOKPackages
  <2> QED BY <2>1 DEF PackagesSound, TypeOKPackages, Carries, Prepared, PackageSound,
                      BundlesAsApproved, Unblocked
<1> QED BY <1>1, <1>2, MovesSound, WritesPackageSound, BuildSound DEF PackagesNext

(* Whatever a bundle prints, and its letter and declarations, was frozen   *)
(* for the review of a package a person approved, over one manuscript and  *)
(* its evidence (publication.py: "package changed during export; package   *)
(* was not assembled").                                                    *)
THEOREM BundlesHold == PackagesSpec => []BundlesAsApproved
<1>1. PackagesSound => BundlesAsApproved
  BY DEF PackagesSound
<1> QED BY <1>1, PackagesInitSound, PackagesNextSound, PTL DEF PackagesSpec

-----------------------------------------------------------------------------
(* Exports of a saved version of a proposal: ProposalExports.              *)

Recorded(files) == \A f \in DOMAIN files : f \in DOMAIN exported /\ exported[f] = files[f]
Stored(files) == \A f \in DOMAIN files : <<f, files[f]>> \in kept

Rendering == [at : {"render"}, wanted : SUBSET Formats, found : Artifacts, outdated : BOOLEAN]
Flushing == [at : {"flush"}, found : Artifacts, new : Artifacts, outdated : BOOLEAN]
Committing == [at : {"commit"}, new : Artifacts, answer : Artifacts, quiet : BOOLEAN]

(* What a request found stays on record; what it rendered is kept before   *)
(* its rows are flushed; and once they are, no other request has rows of   *)
(* its keys.                                                               *)
Agreed(work) ==
  /\ work.at = "render" => Recorded(work.found) /\ (work.outdated => outdated)
  /\ work.at = "flush" =>
       Recorded(work.found) /\ Stored(work.new) /\ (work.outdated => outdated)
  /\ work.at = "commit" =>
       /\ Stored(work.new) /\ DOMAIN work.new \cap DOMAIN exported = {} /\ ~work.quiet
       /\ \A f \in DOMAIN work.answer :
            \/ f \in DOMAIN exported /\ exported[f] = work.answer[f]
            \/ f \in DOMAIN work.new /\ work.new[f] = work.answer[f]

ExportsSound ==
  /\ TypeOKExports
  /\ Stored(exported)
  /\ \A c \in Downloads : Agreed(download[c])
  /\ \A c, d \in Downloads :
       /\ download[c].at = "commit" /\ download[d].at = "commit"
       /\ DOMAIN download[c].new \cap DOMAIN download[d].new # {}
       => c = d
  /\ ExportsAgree

-----------------------------------------------------------------------------
LEMMA ExportJobs ==
  /\ Job = {Elsewhere} \cup Rendering \cup Flushing \cup Committing
  /\ Elsewhere \in Job /\ Elsewhere.at = "elsewhere"
  /\ \A work \in Job : /\ work.at = "render" => work \in Rendering
                       /\ work.at = "flush" => work \in Flushing
                       /\ work.at = "commit" => work \in Committing
BY DEF Job, Elsewhere, Rendering, Flushing, Committing

LEMMA ArtifactFiles ==
  /\ \A files \in Artifacts : /\ DOMAIN files \subseteq Formats
                              /\ \A f \in DOMAIN files : files[f] \in Renders
                              /\ files \in [DOMAIN files -> Renders]
  /\ \A formats \in SUBSET Formats : [formats -> Renders] \subseteq Artifacts
BY DEF Artifacts

LEMMA BothFiles ==
  ASSUME NEW first \in Artifacts, NEW second \in Artifacts
  PROVE  /\ Both(first, second) \in Artifacts
         /\ DOMAIN Both(first, second) = DOMAIN first \cup DOMAIN second
         /\ \A f \in DOMAIN first : Both(first, second)[f] = first[f]
         /\ \A f \in DOMAIN second \ DOMAIN first : Both(first, second)[f] = second[f]
<1> DEFINE formats == DOMAIN first \cup DOMAIN second
<1>1. formats \in SUBSET Formats /\ DOMAIN Both(first, second) = formats
  BY ArtifactFiles DEF Both
<1>2. /\ \A f \in DOMAIN first : Both(first, second)[f] = first[f]
      /\ \A f \in DOMAIN second \ DOMAIN first : Both(first, second)[f] = second[f]
  BY DEF Both
<1>3. \A f \in formats : Both(first, second)[f] \in Renders
  BY <1>2, ArtifactFiles
<1>4. Both(first, second) \in [formats -> Renders]
  BY <1>3 DEF Both
<1> QED BY <1>1, <1>2, <1>4, ArtifactFiles

LEMMA PartFiles ==
  ASSUME NEW files \in Artifacts, NEW formats \in SUBSET DOMAIN files
  PROVE  /\ Part(files, formats) \in Artifacts /\ DOMAIN Part(files, formats) = formats
         /\ \A f \in formats : Part(files, formats)[f] = files[f]
<1>1. Part(files, formats) \in [formats -> Renders]
  BY ArtifactFiles DEF Part
<1>2. formats \in SUBSET Formats
  BY ArtifactFiles
<1> QED BY <1>1, <1>2, ArtifactFiles DEF Part

LEMMA ExportsInitSound == ExportsInit => ExportsSound
<1> SUFFICES ASSUME ExportsInit PROVE ExportsSound
  OBVIOUS
<1>1. exported \in [{} -> Renders] /\ DOMAIN exported = {}
  BY DEF ExportsInit
<1>2. TypeOKExports
  BY <1>1, ExportJobs, ArtifactFiles DEF ExportsInit, TypeOKExports
<1>3. \A c \in Downloads : download[c].at = "elsewhere"
  BY ExportJobs DEF ExportsInit
<1> QED BY <1>1, <1>2, <1>3 DEF ExportsInit, ExportsSound, Stored, Agreed, ExportsAgree

(* A request moves on without a commit; more may be kept by then.          *)
LEMMA ProceedKeeps ==
  ASSUME ExportsSound, NEW c \in Downloads, NEW work \in Job, Proceeds(c, work),
         UNCHANGED <<outdated, exported, given, unwarned>>,
         kept \subseteq kept', kept' \subseteq Formats \X Renders, Agreed(work)',
         work.at = "commit" =>
           \A d \in Downloads \ {c} :
             download[d].at = "commit" => DOMAIN work.new \cap DOMAIN download[d].new = {}
  PROVE  ExportsSound'
<1>1. /\ download' \in [Downloads -> Job] /\ download'[c] = work
      /\ \A d \in Downloads \ {c} : download'[d] = download[d]
  BY DEF Proceeds, ExportsSound, TypeOKExports
<1>2. TypeOKExports'
  BY <1>1 DEF ExportsSound, TypeOKExports
<1>3. \A d \in Downloads : Agreed(download[d])'
  <2> TAKE d \in Downloads
  <2>1. CASE d = c
    BY <1>1, <2>1 DEF Agreed, Recorded, Stored
  <2>2. CASE d # c
    BY <1>1, <2>2 DEF ExportsSound, Agreed, Recorded, Stored
  <2> QED BY <2>1, <2>2
<1>4. \A d, e \in Downloads :
        /\ download'[d].at = "commit" /\ download'[e].at = "commit"
        /\ DOMAIN download'[d].new \cap DOMAIN download'[e].new # {}
        => d = e
  BY <1>1 DEF ExportsSound
<1> QED BY <1>2, <1>3, <1>4 DEF ExportsSound, Stored, ExportsAgree

LEMMA RequestsSound ==
  ASSUME ExportsSound, NEW c \in Downloads,
         ReadRows(c) \/ Render(c) \/ Flush(c) \/ ExportRollsBack(c)
  PROVE  ExportsSound'
<1>1. /\ download[c] \in Job /\ Agreed(download[c]) /\ exported \in Artifacts
      /\ outdated \in BOOLEAN /\ kept \subseteq Formats \X Renders
  BY DEF ExportsSound, TypeOKExports
<1>2. ASSUME ReadRows(c) PROVE ExportsSound'
  <2>1. PICK wanted \in SUBSET Formats \ {{}} :
          Proceeds(c, [at |-> "render", wanted |-> wanted, outdated |-> outdated,
                       found |-> Part(exported, wanted \cap DOMAIN exported)])
    BY <1>2 DEF ReadRows
  <2> DEFINE found == Part(exported, wanted \cap DOMAIN exported)
             work == [at |-> "render", wanted |-> wanted, outdated |-> outdated, found |-> found]
  <2>2. UNCHANGED <<outdated, exported, kept, given, unwarned>>
    BY <1>2 DEF ReadRows
  <2>3. found \in Artifacts /\ Recorded(found)
    BY <1>1, PartFiles DEF Recorded
  <2>4. work \in Rendering
    BY <1>1, <2>3 DEF Rendering
  <2>5. work.at = "render" /\ work.found = found /\ work.outdated = outdated
    OBVIOUS
  <2>6. PICK next \in Job : next = work
    BY <2>4, ExportJobs
  <2> HIDE DEF found, work
  <2>7. Agreed(next)'
    BY <2>2, <2>3, <2>5, <2>6 DEF Agreed, Recorded
  <2>8. Proceeds(c, next)
    BY <2>1, <2>6 DEF work, found
  <2> QED BY <1>1, <2>2, <2>5, <2>6, <2>7, <2>8, ProceedKeeps
<1>3. ASSUME Render(c) PROVE ExportsSound'
  <2>1. /\ download[c] \in Rendering /\ Recorded(download[c].found)
        /\ download[c].outdated => outdated
        /\ UNCHANGED <<outdated, exported, given, unwarned>>
    BY <1>1, <1>3, ExportJobs DEF Render, Agreed
  <2>0. PICK omitted \in SUBSET Optional :
          \E new \in Renderings((download[c].wanted \ DOMAIN download[c].found) \ omitted) :
            /\ kept' = kept \cup {<<f, new[f]>> : f \in DOMAIN new}
            /\ Proceeds(c, [at |-> "flush", found |-> download[c].found, new |-> new,
                            outdated |-> download[c].outdated])
    BY <1>3 DEF Render
  <2>2. PICK new \in Renderings((download[c].wanted \ DOMAIN download[c].found) \ omitted) :
          /\ kept' = kept \cup {<<f, new[f]>> : f \in DOMAIN new}
          /\ Proceeds(c, [at |-> "flush", found |-> download[c].found, new |-> new,
                          outdated |-> download[c].outdated])
    BY <2>0
  <2> DEFINE formats == (download[c].wanted \ DOMAIN download[c].found) \ omitted
             work == [at |-> "flush", found |-> download[c].found, new |-> new,
                      outdated |-> download[c].outdated]
  <2>3. formats \in SUBSET Formats /\ new \in [formats -> Renders]
    BY <2>1 DEF Rendering, Renderings
  <2>4. new \in Artifacts /\ kept \subseteq kept' /\ kept' \subseteq Formats \X Renders
    BY <1>1, <2>2, <2>3, ArtifactFiles
  <2>5. work \in Flushing
    BY <2>1, <2>4 DEF Rendering, Flushing
  <2>6. /\ work.at = "flush" /\ work.found = download[c].found /\ work.new = new
        /\ work.outdated = download[c].outdated
    OBVIOUS
  <2>7. PICK next \in Job : next = work
    BY <2>5, ExportJobs
  <2>8. \A f \in DOMAIN new : <<f, new[f]>> \in kept'
    BY <2>2
  <2> HIDE DEF work
  <2>9. Agreed(next)'
    BY <2>1, <2>6, <2>7, <2>8 DEF Agreed, Recorded, Stored
  <2>10. Proceeds(c, next)
    BY <2>2, <2>7 DEF work
  <2> QED BY <2>1, <2>4, <2>6, <2>7, <2>9, <2>10, ProceedKeeps
<1>4. ASSUME Flush(c) PROVE ExportsSound'
  <2> DEFINE found == download[c].found  new == download[c].new
             work == [at |-> "commit", new |-> new, answer |-> Both(found, new),
                      quiet |-> download[c].outdated /\ ~outdated]
  <2>1. /\ download[c] \in Flushing /\ Recorded(found) /\ Stored(new)
        /\ download[c].outdated => outdated
        /\ \A f \in DOMAIN new : ExportFree(f)
        /\ Proceeds(c, work) /\ UNCHANGED <<outdated, exported, kept, given, unwarned>>
    BY <1>1, <1>4, ExportJobs DEF Flush, Agreed, VersionWarnings
  <2>2. found \in Artifacts /\ new \in Artifacts /\ download[c].outdated \in BOOLEAN
    BY <2>1 DEF Flushing
  <2>3. /\ Both(found, new) \in Artifacts
        /\ \A f \in DOMAIN Both(found, new) :
             \/ f \in DOMAIN exported /\ exported[f] = Both(found, new)[f]
             \/ f \in DOMAIN new /\ new[f] = Both(found, new)[f]
    <3> HIDE DEF found, new
    <3>1. /\ Both(found, new) \in Artifacts
          /\ DOMAIN Both(found, new) = DOMAIN found \cup DOMAIN new
          /\ \A f \in DOMAIN found : Both(found, new)[f] = found[f]
          /\ \A f \in DOMAIN new \ DOMAIN found : Both(found, new)[f] = new[f]
      BY <2>2, BothFiles
    <3> QED BY <2>1, <3>1 DEF Recorded
  <2>4. work \in Committing /\ ~work.quiet
    BY <1>1, <2>1, <2>2, <2>3 DEF Committing
  <2>5. work.at = "commit" /\ work.new = new /\ work.answer = Both(found, new)
    OBVIOUS
  <2>6. PICK next \in Job : next = work
    BY <2>4, ExportJobs
  <2> HIDE DEF work, found, new
  <2>7. /\ DOMAIN new \cap DOMAIN exported = {}
        /\ \A d \in Downloads \ {c} :
             download[d].at = "commit" => DOMAIN new \cap DOMAIN download[d].new = {}
    BY <2>1 DEF ExportFree
  <2>8. Agreed(next)
    BY <2>1, <2>3, <2>4, <2>5, <2>6, <2>7 DEF Agreed
  <2>9. Agreed(next)'
    BY <2>1, <2>8 DEF Agreed, Recorded, Stored
  <2> QED BY <1>1, <2>1, <2>5, <2>6, <2>7, <2>9, ProceedKeeps
<1>5. ASSUME ExportRollsBack(c) PROVE ExportsSound'
  <2>1. Proceeds(c, Elsewhere) /\ UNCHANGED <<outdated, exported, kept, given, unwarned>>
    BY <1>5 DEF ExportRollsBack
  <2>2. PICK next \in Job : next = Elsewhere
    BY ExportJobs
  <2>3. Agreed(next)' /\ next.at = "elsewhere"
    BY <2>2, ExportJobs DEF Agreed
  <2> QED BY <1>1, <2>1, <2>2, <2>3, ProceedKeeps
<1> QED BY <1>2, <1>3, <1>4, <1>5

(* The commit adds rows of keys that nobody else has.                      *)
LEMMA CommitExportSound ==
  ASSUME ExportsSound, NEW c \in Downloads, CommitExport(c)
  PROVE  ExportsSound'
<1> DEFINE work == download[c]  new == work.new  answer == work.answer
<1>1. /\ work \in Committing /\ Agreed(work) /\ work.at = "commit"
      /\ exported' = Both(new, exported)
      /\ given' = given \cup {<<f, answer[f]>> : f \in DOMAIN answer}
      /\ unwarned' = (unwarned \/ work.quiet)
      /\ download' = [download EXCEPT ![c] = Elsewhere] /\ UNCHANGED <<outdated, kept>>
      /\ exported \in Artifacts /\ Stored(exported) /\ given \subseteq Formats \X Renders
  BY ExportJobs DEF CommitExport, Proceeds, ExportsSound, TypeOKExports
<1>2. /\ new \in Artifacts /\ answer \in Artifacts /\ ~work.quiet /\ Stored(new)
      /\ DOMAIN new \cap DOMAIN exported = {}
      /\ \A f \in DOMAIN answer : \/ f \in DOMAIN exported /\ exported[f] = answer[f]
                                  \/ f \in DOMAIN new /\ new[f] = answer[f]
  BY <1>1 DEF Committing, Agreed
<1> HIDE DEF work, new, answer
<1>3. /\ exported' \in Artifacts /\ DOMAIN exported' = DOMAIN new \cup DOMAIN exported
      /\ \A f \in DOMAIN new : exported'[f] = new[f]
      /\ \A f \in DOMAIN exported : exported'[f] = exported[f]
  <2>1. /\ Both(new, exported) \in Artifacts
        /\ DOMAIN Both(new, exported) = DOMAIN new \cup DOMAIN exported
        /\ \A f \in DOMAIN new : Both(new, exported)[f] = new[f]
        /\ \A f \in DOMAIN exported \ DOMAIN new : Both(new, exported)[f] = exported[f]
    BY <1>1, <1>2, BothFiles
  <2> QED BY <1>1, <1>2, <2>1
<1>4. /\ download' \in [Downloads -> Job] /\ download'[c] = Elsewhere
      /\ \A d \in Downloads \ {c} : download'[d] = download[d]
      /\ Elsewhere.at = "elsewhere"
  BY <1>1, ExportJobs DEF ExportsSound, TypeOKExports
<1>5. TypeOKExports'
  <2>1. given' \subseteq Formats \X Renders
    BY <1>1, <1>2, ArtifactFiles
  <2>2. unwarned' = FALSE /\ outdated \in BOOLEAN /\ kept \subseteq Formats \X Renders
    BY <1>1, <1>2 DEF ExportsSound, ExportsAgree, TypeOKExports
  <2> QED BY <1>1, <1>3, <1>4, <2>1, <2>2 DEF TypeOKExports
<1>6. Stored(exported)'
  BY <1>1, <1>2, <1>3 DEF Stored
<1>7. \A d \in Downloads : Agreed(download[d])'
  <2> TAKE d \in Downloads
  <2>1. CASE d = c
    BY <1>4, <2>1 DEF Agreed
  <2>2. CASE d # c
    <3>1. Agreed(download[d]) /\ download'[d] = download[d]
      BY <1>4, <2>2 DEF ExportsSound
    <3>2. download[d].at = "commit" => DOMAIN download[d].new \cap DOMAIN new = {}
      BY <1>1, <2>2 DEF ExportsSound, work, new
    <3> QED BY <1>1, <1>3, <3>1, <3>2 DEF Agreed, Recorded, Stored
  <2> QED BY <2>1, <2>2
<1>8. \A d, e \in Downloads :
        /\ download'[d].at = "commit" /\ download'[e].at = "commit"
        /\ DOMAIN download'[d].new \cap DOMAIN download'[e].new # {}
        => d = e
  BY <1>4 DEF ExportsSound
<1>9. ExportsAgree'
  <2>1. ASSUME NEW file \in given'
        PROVE  file \in kept /\ file[1] \in DOMAIN exported' /\ exported'[file[1]] = file[2]
    <3>1. CASE file \in given
      BY <1>3, <3>1 DEF ExportsSound, ExportsAgree
    <3>2. CASE file \in {<<f, answer[f]>> : f \in DOMAIN answer}
      <4>1. PICK f \in DOMAIN answer : file = <<f, answer[f]>>
        BY <3>2
      <4> QED BY <1>1, <1>2, <1>3, <4>1 DEF Stored
    <3> QED BY <1>1, <2>1, <3>1, <3>2
  <2> QED BY <1>1, <1>2, <2>1 DEF ExportsSound, ExportsAgree
<1> QED BY <1>5, <1>6, <1>7, <1>8, <1>9 DEF ExportsSound

LEMMA ExportsNextSound == ExportsSound /\ [ExportsNext]_exportvars => ExportsSound'
<1> SUFFICES ASSUME ExportsSound, [ExportsNext]_exportvars PROVE ExportsSound'
  OBVIOUS
<1>1. ASSUME OriginChanges \/ UNCHANGED exportvars PROVE ExportsSound'
  <2>1. /\ outdated => outdated'
        /\ outdated' \in BOOLEAN
        /\ UNCHANGED <<exported, kept, download, given, unwarned>>
    BY <1>1 DEF OriginChanges, exportvars, ExportsSound, TypeOKExports
  <2>2. \A c \in Downloads : Agreed(download[c])'
    BY <2>1 DEF ExportsSound, Agreed, Recorded, Stored
  <2>3. TypeOKExports' /\ Stored(exported)' /\ ExportsAgree'
    <3>1. TypeOKExports'
      BY <2>1 DEF ExportsSound, TypeOKExports
    <3>2. Stored(exported)'
      BY <2>1 DEF ExportsSound, Stored
    <3>3. ExportsAgree'
      BY <2>1 DEF ExportsSound, ExportsAgree
    <3> QED BY <3>1, <3>2, <3>3
  <2> QED BY <2>1, <2>2, <2>3 DEF ExportsSound
<1> QED BY <1>1, RequestsSound, CommitExportSound DEF ExportsNext

(* Whoever was given an export of a version was given the bytes on record, *)
(* which are kept, and was warned of a source that had changed before the  *)
(* export began, however exports overlap and fail (proposals.py).          *)
THEOREM ExportsHold == ExportsSpec => []ExportsAgree
<1>1. ExportsSound => ExportsAgree
  BY DEF ExportsSound
<1> QED BY <1>1, ExportsInitSound, ExportsNextSound, PTL DEF ExportsSpec

-----------------------------------------------------------------------------
(* Sources and their merges: SourceGraph.                                  *)

(* A row that was never registered names nothing.                          *)
GraphInv ==
  /\ TypeOKSources
  /\ \A s \in Sources : source[s].state = Absent => source[s] = NoSource
  /\ EndpointsLive

(* What an edge that counts may name, among the sources in a set.          *)
Among(e, those) == ~e.deleted => /\ e.citing # Unresolved => e.citing \in those
                                 /\ e.cited # Unresolved => e.cited \in those

LEMMA KnownEnds ==
  EndpointsLive <=> (stray \/ \A e \in edges : Among(e, Live))
<1>1. ASSUME NEW e PROVE Known(e) = {e.citing, e.cited} \ {Unresolved}
  <2>1. \A x \in EndsOf(e) : x[1] \in {e.citing, e.cited}
    BY DEF EndsOf
  <2>2. <<e.citing, e.citing_key>> \in EndsOf(e) /\ <<e.cited, e.cited_key>> \in EndsOf(e)
        /\ <<e.citing, e.citing_key>>[1] = e.citing /\ <<e.cited, e.cited_key>>[1] = e.cited
    BY DEF EndsOf
  <2>3. \A n : n \in Known(e) <=> \E x \in EndsOf(e) : x[1] # Unresolved /\ n = x[1]
    BY DEF Known
  <2> QED BY <2>1, <2>2, <2>3
<1>2. ASSUME NEW e
      PROVE  (~e.deleted => Known(e) \subseteq Live) <=> Among(e, Live)
  BY <1>1 DEF Among
<1>3. EndpointsLive <=> (stray \/ \A e \in edges : ~e.deleted => Known(e) \subseteq Live)
  BY DEF EndpointsLive, LiveEdges
<1> QED BY <1>2, <1>3

LEMMA KnownEndsNext ==
  EndpointsLive' <=> (stray' \/ \A e \in edges' : Among(e, Live'))
<1>1. (stray \/ \A e \in edges : Among(e, Live))' <=> (stray' \/ \A e \in edges' : Among(e, Live'))
  BY DEF Among, Unresolved
<1> QED BY <1>1, KnownEnds, PTL

LEMMA EdgeTypes ==
  \A e \in Edge : /\ e.citing_key \in WorkKeys /\ e.cited_key \in WorkKeys
                  /\ e.citing \in Endpoint /\ e.cited \in Endpoint
                  /\ e.rejected \in BOOLEAN /\ e.deleted \in BOOLEAN
BY DEF Edge

SourceRow == [state : {Absent, "live", "merged"}, doi : Dois \cup {Absent},
              provided : Provided \cup {Absent}]

(* The edges are all among the sources that count, or one import was       *)
(* answered with a merged source.                                          *)
LEMMA GraphAfter ==
  ASSUME GraphInv, source' \in [Sources -> SourceRow], edges' \subseteq Edge, stray' \in BOOLEAN,
         \A s \in Sources : source'[s].state = Absent => source'[s] = NoSource,
         stray' \/ \A e \in edges' : Among(e, Live')
  PROVE  GraphInv'
<1>1. EndpointsLive'
  <2>1. EndpointsLive' <=> (stray' \/ \A e \in edges' : Among(e, Live'))
    BY KnownEndsNext
  <2> QED BY <2>1
<1>2. TypeOKSources'
  BY DEF TypeOKSources, SourceRow, Edge, Endpoint, WorkKeys
<1> QED BY <1>1, <1>2 DEF GraphInv

LEMMA GraphTypes ==
  ASSUME GraphInv
  PROVE  /\ source \in [Sources -> SourceRow] /\ edges \subseteq Edge /\ stray \in BOOLEAN
         /\ \A s \in Sources : source[s] \in SourceRow
         /\ stray \/ \A e \in edges : Among(e, Live)
         /\ Live \subseteq Sources
<1>1. source \in [Sources -> SourceRow] /\ edges \subseteq Edge /\ stray \in BOOLEAN
  BY DEF GraphInv, TypeOKSources, SourceRow
<1>2. stray \/ \A e \in edges : Among(e, Live)
  BY KnownEnds DEF GraphInv
<1> QED BY <1>1, <1>2 DEF Live

(* resolve_edges_for_source names s only.                                  *)
LEMMA ResolvedEdges ==
  ASSUME NEW s \in Sources, NEW names, NEW table, table \subseteq Edge, NEW those,
         \A e \in table : Among(e, those)
  PROVE  /\ ResolvedBy(s, names, table) \subseteq Edge
         /\ \A x \in ResolvedBy(s, names, table) : Among(x, those \cup {s})
<1> SUFFICES ASSUME NEW x \in ResolvedBy(s, names, table)
             PROVE  x \in Edge /\ Among(x, those \cup {s})
  OBVIOUS
<1>1. PICK e \in table :
        x = IF e.deleted THEN e
            ELSE [e EXCEPT !.citing = IF @ = Unresolved /\ e.citing_key \in names THEN s ELSE @,
                           !.cited = IF @ = Unresolved /\ e.cited_key \in names THEN s ELSE @]
  BY DEF ResolvedBy
<1>2. e \in Edge /\ Among(e, those)
  OBVIOUS
<1>3. CASE e.deleted
  BY <1>1, <1>2, <1>3 DEF Among
<1>4. CASE ~e.deleted
  <2>1. PICK citing : citing = IF e.citing = Unresolved /\ e.citing_key \in names THEN s ELSE e.citing
    OBVIOUS
  <2>2. PICK cited : cited = IF e.cited = Unresolved /\ e.cited_key \in names THEN s ELSE e.cited
    OBVIOUS
  <2>3. x = [e EXCEPT !.citing = citing, !.cited = cited]
    BY <1>1, <1>4, <2>1, <2>2
  <2>4. citing \in Endpoint /\ cited \in Endpoint
    BY <1>2, <2>1, <2>2, EdgeTypes DEF Endpoint
  <2>5. x \in Edge /\ x.citing = citing /\ x.cited = cited
    BY <1>2, <2>3, <2>4 DEF Edge
  <2> QED BY <1>2, <1>4, <2>1, <2>2, <2>5 DEF Among
<1> QED BY <1>3, <1>4

LEMMA RegistersSound ==
  ASSUME GraphInv, NEW s \in Sources,
         \/ RegisterSource(s)
         \/ \E doi \in Dois \cup {Absent}, p \in Provided : ImportWork(s, doi, p)
  PROVE  GraphInv'
<1>0. /\ source \in [Sources -> SourceRow] /\ edges \subseteq Edge /\ stray \in BOOLEAN
      /\ (stray \/ \A e \in edges : Among(e, Live))
      /\ \A k \in Sources : source[k].state = Absent => source[k] = NoSource
  BY GraphTypes DEF GraphInv
<1>1. ASSUME NEW row \in SourceRow, row.state = "live", source' = [source EXCEPT ![s] = row]
      PROVE  /\ source' \in [Sources -> SourceRow] /\ Live' = Live \cup {s}
             /\ \A k \in Sources : source'[k].state = Absent => source'[k] = NoSource
  <2>1. /\ source' \in [Sources -> SourceRow] /\ source'[s] = row
        /\ \A k \in Sources \ {s} : source'[k] = source[k]
    BY <1>0, <1>1
  <2>2. Live' = Live \cup {s}
    BY <1>1, <2>1 DEF Live
  <2> QED BY <1>0, <1>1, <2>1, <2>2 DEF Absent
<1>2. CASE RegisterSource(s)
  <2>1. PICK doi \in Dois \cup {Absent} :
          source' = [source EXCEPT ![s] = [NoSource EXCEPT !.state = "live", !.doi = doi]]
    BY <1>2 DEF RegisterSource
  <2>2. PICK row : row = [NoSource EXCEPT !.state = "live", !.doi = doi]
    OBVIOUS
  <2>3. row \in SourceRow /\ row.state = "live"
    BY <2>2 DEF NoSource, SourceRow
  <2>4. UNCHANGED <<edges, stray>>
    BY <1>2 DEF RegisterSource
  <2>5. Live' = Live \cup {s} /\ source' \in [Sources -> SourceRow]
        /\ \A k \in Sources : source'[k].state = Absent => source'[k] = NoSource
    BY <1>1, <2>1, <2>2, <2>3
  <2>6. stray' \/ \A e \in edges' : Among(e, Live')
    BY <1>0, <2>4, <2>5 DEF Among
  <2> QED BY <1>0, <2>4, <2>5, <2>6, GraphAfter
<1>3. ASSUME NEW doi \in Dois \cup {Absent}, NEW p \in Provided, ImportWork(s, doi, p)
      PROVE  GraphInv'
  <2> DEFINE known == {k \in Sources : doi # Absent /\ source[k].doi = doi}
  <2>1. CASE known # {}
    <3>1. PICK k \in known : /\ edges' = ResolvedBy(k, StrongKeys(k), edges)
                             /\ stray' = (stray \/ source[k].state = "merged")
      BY <1>3, <2>1 DEF ImportWork
    <3>2. source' = source
      BY <1>3, <2>1 DEF ImportWork
    <3>3. k \in Sources /\ source[k].state # Absent /\ source[k] \in SourceRow
      BY <1>0 DEF NoSource
    <3>4. k \in Live \/ source[k].state = "merged"
      BY <3>3 DEF Live, SourceRow
    <3> HIDE DEF known
    <3>5. edges' \subseteq Edge
      <4>1. ResolvedBy(k, StrongKeys(k), edges) \subseteq Edge
        <5>1. \A e \in edges : Among(e, Endpoint)
          BY <1>0, EdgeTypes DEF Among
        <5> QED BY <1>0, <3>3, <5>1, ResolvedEdges
      <4> QED BY <3>1, <4>1
    <3>6. stray' \/ \A e \in edges' : Among(e, Live')
      <4>1. CASE stray \/ source[k].state = "merged"
        BY <3>1, <4>1
      <4>2. CASE ~stray /\ k \in Live
        <5>1. \A x \in ResolvedBy(k, StrongKeys(k), edges) : Among(x, Live \cup {k})
          BY <1>0, <3>3, <4>2, ResolvedEdges
        <5>2. Live \cup {k} = Live /\ Live' = Live
          BY <3>2, <4>2 DEF Live
        <5> QED BY <3>1, <5>1, <5>2
      <4> QED BY <3>4, <4>1, <4>2
    <3>7. stray' \in BOOLEAN
      BY <3>1
    <3> QED BY <1>0, <3>2, <3>5, <3>6, <3>7, GraphAfter
  <2>2. CASE known = {}
    <3>1. /\ source' = [source EXCEPT ![s] = [state |-> "live", doi |-> doi, provided |-> p]]
          /\ edges' = ResolvedBy(s, {doi, p}, edges) /\ UNCHANGED stray
      BY <1>3, <2>2 DEF ImportWork
    <3> HIDE DEF known
    <3>2. [state |-> "live", doi |-> doi, provided |-> p] \in SourceRow
      BY DEF SourceRow
    <3>3. Live' = Live \cup {s} /\ source' \in [Sources -> SourceRow]
          /\ \A k \in Sources : source'[k].state = Absent => source'[k] = NoSource
      BY <1>1, <3>1, <3>2
    <3>4. edges' \subseteq Edge
      <4>1. \A e \in edges : Among(e, Endpoint)
        BY <1>0, EdgeTypes DEF Among
      <4> QED BY <1>0, <3>1, <4>1, ResolvedEdges
    <3>5. stray' \/ \A e \in edges' : Among(e, Live')
      <4>1. CASE ~stray
        BY <1>0, <3>1, <3>3, <4>1, ResolvedEdges
      <4> QED BY <3>1, <4>1
    <3> QED BY <1>0, <3>1, <3>3, <3>4, <3>5, GraphAfter
  <2> QED BY <2>1, <2>2
<1> QED BY <1>2, <1>3

LEMMA DiscoverSound ==
  ASSUME GraphInv, NEW s \in Sources, NEW k \in WorkKeys, NEW backward \in BOOLEAN,
         Discover(s, k, backward)
  PROVE  GraphInv'
<1>0. /\ source \in [Sources -> SourceRow] /\ edges \subseteq Edge /\ stray \in BOOLEAN
      /\ (stray \/ \A e \in edges : Among(e, Live))
      /\ \A x \in Sources : source[x].state = Absent => source[x] = NoSource
      /\ Live \subseteq Sources /\ source[s] \in SourceRow
  BY GraphTypes DEF GraphInv
<1>1. s \in Live /\ source[s].doi \in Dois /\ UNCHANGED <<source, stray>> /\ Live' = Live
  <2>1. s \in Live /\ source[s].doi # Absent /\ UNCHANGED <<source, stray>>
    BY DEF Discover
  <2>2. source[s].doi \in Dois \cup {Absent}
    BY <1>0 DEF SourceRow
  <2> QED BY <2>1, <2>2 DEF Live
<1>2. PICK linked \in IF Matching(k) = {} THEN {Unresolved} ELSE Matching(k) :
        LET a == source[s].doi
            row == [citing_key |-> IF backward THEN a ELSE k, cited_key |-> IF backward THEN k ELSE a,
                   citing |-> IF backward THEN s ELSE linked, cited |-> IF backward THEN linked ELSE s,
                   rejected |-> FALSE, deleted |-> FALSE]
            same == {e \in edges : e.citing_key = row.citing_key /\ e.cited_key = row.cited_key} IN
        IF same = {}
        THEN edges' = edges \cup {row}
        ELSE edges' = (edges \ same) \cup {Filled(e, row.citing, row.cited) : e \in same}
  BY DEF Discover
<1>3. PICK row : row = [citing_key |-> IF backward THEN source[s].doi ELSE k,
                        cited_key |-> IF backward THEN k ELSE source[s].doi,
                        citing |-> IF backward THEN s ELSE linked,
                        cited |-> IF backward THEN linked ELSE s,
                        rejected |-> FALSE, deleted |-> FALSE]
  OBVIOUS
<1>4. PICK same : same = {e \in edges : e.citing_key = row.citing_key /\ e.cited_key = row.cited_key}
  OBVIOUS
<1>5. edges' = edges \cup {row} \/ edges' = (edges \ same) \cup {Filled(e, row.citing, row.cited) : e \in same}
  BY <1>2, <1>3, <1>4
<1>6. linked = Unresolved \/ linked \in Live
  BY DEF Matching
<1>7. row \in Edge /\ Among(row, Live) /\ row.citing \in Endpoint /\ row.cited \in Endpoint
      /\ (row.citing = Unresolved \/ row.citing \in Live)
      /\ (row.cited = Unresolved \/ row.cited \in Live)
  <2>1. linked \in Endpoint /\ s \in Endpoint /\ source[s].doi \in WorkKeys
    BY <1>0, <1>1, <1>6 DEF Endpoint, WorkKeys
  <2>2. CASE backward
    BY <1>1, <1>3, <1>6, <2>1, <2>2 DEF Edge, Among
  <2>3. CASE ~backward
    BY <1>1, <1>3, <1>6, <2>1, <2>3 DEF Edge, Among
  <2> QED BY <2>2, <2>3
<1>8. ASSUME NEW e \in edges
      PROVE  /\ Filled(e, row.citing, row.cited) \in Edge
             /\ Among(e, Live) => Among(Filled(e, row.citing, row.cited), Live)
  <2>1. PICK citing : citing = IF e.citing = Unresolved THEN row.citing ELSE e.citing
    OBVIOUS
  <2>2. PICK cited : cited = IF e.cited = Unresolved THEN row.cited ELSE e.cited
    OBVIOUS
  <2>3. PICK x : x = Filled(e, row.citing, row.cited)
    OBVIOUS
  <2>4. x = [e EXCEPT !.citing = citing, !.cited = cited]
    BY <2>1, <2>2, <2>3 DEF Filled
  <2>5. e \in Edge /\ citing \in Endpoint /\ cited \in Endpoint
    BY <1>0, <1>7, <2>1, <2>2, EdgeTypes
  <2>6. x \in Edge /\ x.citing = citing /\ x.cited = cited /\ x.deleted = e.deleted
    BY <2>4, <2>5 DEF Edge
  <2>7. Among(e, Live) => Among(x, Live)
    BY <1>7, <2>1, <2>2, <2>6 DEF Among
  <2> QED BY <2>3, <2>6, <2>7
<1>9. \A x \in edges' : x \in edges \/ x = row
                      \/ \E e \in edges : x = Filled(e, row.citing, row.cited)
  BY <1>4, <1>5
<1>10. edges' \subseteq Edge
  BY <1>0, <1>7, <1>8, <1>9
<1>11. stray' \/ \A e \in edges' : Among(e, Live')
  BY <1>0, <1>1, <1>7, <1>8, <1>9
<1> QED BY <1>0, <1>1, <1>10, <1>11, GraphAfter

LEMMA EdgesSound ==
  ASSUME GraphInv, NEW e \in edges,
         \/ \E s \in Sources, citing \in BOOLEAN : ResolveEdge(e, s, citing)
         \/ \E rejected \in BOOLEAN : ReviewEdge(e, rejected)
  PROVE  GraphInv'
<1>0. /\ source \in [Sources -> SourceRow] /\ edges \subseteq Edge /\ stray \in BOOLEAN
      /\ (stray \/ \A x \in edges : Among(x, Live))
      /\ \A x \in Sources : source[x].state = Absent => source[x] = NoSource
      /\ e \in Edge
  BY GraphTypes DEF GraphInv
<1>1. UNCHANGED <<source, stray>> /\ Live' = Live
  BY DEF ResolveEdge, ReviewEdge, Live
<1>2. ASSUME NEW x \in Edge, edges' = (edges \ {e}) \cup {x}, Among(e, Live) => Among(x, Live)
      PROVE  GraphInv'
  <2>1. edges' \subseteq Edge
    BY <1>0, <1>2
  <2>2. stray' \/ \A y \in edges' : Among(y, Live')
    BY <1>0, <1>1, <1>2
  <2> QED BY <1>0, <1>1, <2>1, <2>2, GraphAfter
<1>3. ASSUME NEW rejected \in BOOLEAN, ReviewEdge(e, rejected) PROVE GraphInv'
  <2>1. PICK x : x = [e EXCEPT !.rejected = rejected]
    OBVIOUS
  <2>2. x \in Edge /\ x.citing = e.citing /\ x.cited = e.cited /\ x.deleted = e.deleted
    BY <1>0, <2>1 DEF Edge
  <2> QED BY <1>2, <1>3, <2>1, <2>2 DEF ReviewEdge, Among
<1>4. ASSUME NEW s \in Sources, NEW citing \in BOOLEAN, ResolveEdge(e, s, citing) PROVE GraphInv'
  <2>1. s \in Live /\ s \in Endpoint
    BY <1>4 DEF ResolveEdge, Endpoint
  <2>2. CASE citing
    <3>1. PICK x : x = [e EXCEPT !.citing = s]
      OBVIOUS
    <3>2. x \in Edge /\ x.citing = s /\ x.cited = e.cited /\ x.deleted = e.deleted
      BY <1>0, <2>1, <3>1 DEF Edge
    <3>3. edges' = (edges \ {e}) \cup {x}
      BY <1>4, <2>2, <3>1 DEF ResolveEdge
    <3> QED BY <1>2, <2>1, <3>2, <3>3 DEF Among
  <2>3. CASE ~citing
    <3>1. PICK x : x = [e EXCEPT !.cited = s]
      OBVIOUS
    <3>2. x \in Edge /\ x.cited = s /\ x.citing = e.citing /\ x.deleted = e.deleted
      BY <1>0, <2>1, <3>1 DEF Edge
    <3>3. edges' = (edges \ {e}) \cup {x}
      BY <1>4, <2>3, <3>1 DEF ResolveEdge
    <3> QED BY <1>2, <2>1, <3>2, <3>3 DEF Among
  <2> QED BY <2>2, <2>3
<1> QED BY <1>3, <1>4

LEMMA MergeSound ==
  ASSUME GraphInv, NEW a \in Sources, NEW b \in Sources, MergeSources(a, b)
  PROVE  GraphInv'
<1>0. /\ source \in [Sources -> SourceRow] /\ edges \subseteq Edge /\ stray \in BOOLEAN
      /\ (stray \/ \A x \in edges : Among(x, Live))
      /\ \A x \in Sources : source[x].state = Absent => source[x] = NoSource
      /\ \A x \in Sources : source[x] \in SourceRow
  BY GraphTypes DEF GraphInv
<1>1. a # b /\ a \in Live /\ b \in Live /\ edges' = Repointed(a, b) /\ UNCHANGED stray
  BY DEF MergeSources, Duplicates
<1>2. PICK ra : ra = [source[a] EXCEPT !.doi = IF @ = Absent THEN source[b].doi ELSE @]
  OBVIOUS
<1>3. PICK rb : rb = [source[b] EXCEPT !.state = "merged"]
  OBVIOUS
<1>4. ra \in SourceRow /\ ra.state = "live" /\ rb \in SourceRow /\ rb.state = "merged"
  <2>1. source[a].state = "live" /\ source[b].doi \in Dois \cup {Absent}
    BY <1>0, <1>1 DEF Live, SourceRow
  <2>2. source[a].doi \in Dois \cup {Absent}
    BY <1>0 DEF SourceRow
  <2>3. (IF source[a].doi = Absent THEN source[b].doi ELSE source[a].doi) \in Dois \cup {Absent}
    BY <2>1, <2>2
  <2> QED BY <1>0, <1>2, <1>3, <2>1, <2>3 DEF SourceRow
<1>5. source' = [[source EXCEPT ![b] = rb] EXCEPT ![a] = ra]
  <2>1. source' = [source EXCEPT ![b].state = "merged",
                              ![a].doi = IF @ = Absent THEN source[b].doi ELSE @]
    BY DEF MergeSources
  <2> QED BY <1>0, <1>1, <1>2, <1>3, <2>1
<1>6. /\ source' \in [Sources -> SourceRow] /\ source'[a] = ra /\ source'[b] = rb
      /\ \A s \in Sources \ {a, b} : source'[s] = source[s]
  BY <1>0, <1>1, <1>4, <1>5
<1>7. Live' = Live \ {b}
  BY <1>0, <1>1, <1>4, <1>6 DEF Live
<1>8. \A x \in Sources : source'[x].state = Absent => source'[x] = NoSource
  BY <1>0, <1>4, <1>6 DEF Absent
<1>9. ASSUME NEW x \in edges'
      PROVE  x \in Edge /\ ((\A y \in edges : Among(y, Live)) => Among(x, Live \ {b}))
  <2>1. PICK e \in edges :
          x = LET moved == [e EXCEPT !.citing = IF @ = b THEN a ELSE @,
                                     !.cited = IF @ = b THEN a ELSE @] IN
              IF e.deleted \/ b \notin {e.citing, e.cited} THEN e
              ELSE [moved EXCEPT !.deleted = moved.citing = moved.cited]
    BY <1>1 DEF Repointed
  <2>2. e \in Edge
    BY <1>0
  <2>3. CASE e.deleted \/ b \notin {e.citing, e.cited}
    BY <2>1, <2>2, <2>3 DEF Among
  <2>4. CASE ~e.deleted /\ b \in {e.citing, e.cited}
    <3>1. PICK citing : citing = IF e.citing = b THEN a ELSE e.citing
      OBVIOUS
    <3>2. PICK cited : cited = IF e.cited = b THEN a ELSE e.cited
      OBVIOUS
    <3>3. PICK moved : moved = [e EXCEPT !.citing = citing, !.cited = cited]
      OBVIOUS
    <3>4. x = [moved EXCEPT !.deleted = moved.citing = moved.cited]
      BY <2>1, <2>4, <3>1, <3>2, <3>3
    <3>5. citing \in Endpoint /\ cited \in Endpoint
      BY <2>2, <3>1, <3>2, EdgeTypes DEF Endpoint
    <3>6. moved \in Edge /\ moved.citing = citing /\ moved.cited = cited
      BY <2>2, <3>3, <3>5 DEF Edge
    <3>7. x \in Edge /\ x.citing = citing /\ x.cited = cited
      BY <3>4, <3>6 DEF Edge
    <3> QED BY <1>1, <2>4, <3>1, <3>2, <3>7 DEF Among
  <2> QED BY <2>3, <2>4
<1>10. edges' \subseteq Edge
  BY <1>9
<1>11. stray' \/ \A e \in edges' : Among(e, Live')
  BY <1>0, <1>1, <1>7, <1>9
<1> QED BY <1>0, <1>1, <1>6, <1>8, <1>10, <1>11, GraphAfter

LEMMA GraphNextSound == GraphInv /\ [SourcesNext]_srcvars => GraphInv'
<1> SUFFICES ASSUME GraphInv, [SourcesNext]_srcvars PROVE GraphInv'
  OBVIOUS
<1>1. CASE UNCHANGED srcvars
  <2>1. UNCHANGED <<source, edges, stray>> /\ Live' = Live
    BY <1>1 DEF srcvars, Live
  <2> QED BY <2>1, GraphTypes, GraphAfter DEF GraphInv
<1> QED BY <1>1, RegistersSound, DiscoverSound, EdgesSound, MergeSound DEF SourcesNext

LEMMA GraphInit == SourcesInit => GraphInv
<1> SUFFICES ASSUME SourcesInit PROVE GraphInv
  OBVIOUS
<1>1. NoSource \in SourceRow
  BY DEF NoSource, SourceRow
<1>2. source \in [Sources -> SourceRow] /\ edges = {} /\ stray = FALSE
  BY <1>1 DEF SourcesInit
<1>3. \A s \in Sources : source[s] = NoSource
  BY DEF SourcesInit
<1>4. EndpointsLive
  BY <1>2, KnownEnds
<1>5. TypeOKSources
  BY <1>2 DEF TypeOKSources, SourceRow
<1> QED BY <1>3, <1>4, <1>5 DEF GraphInv

(* However sources are merged and edges discovered and resolved, an edge   *)
(* that counts names sources that count, unless an import was answered     *)
(* with a merged source (merge_sources, repoint_source).                   *)
THEOREM EndpointsLiveHolds == SourcesSpec => []EndpointsLive
<1>1. GraphInv => EndpointsLive
  BY DEF GraphInv
<1> QED BY <1>1, GraphInit, GraphNextSound, PTL DEF SourcesSpec

-----------------------------------------------------------------------------
(* The walk of a graph, level by level.                                    *)
(* A level of the walk reads the edges in some order: what it holds after  *)
(* n of them.                                                              *)
IsPass(p, g, listed, limit, m) ==
  p = [n \in 0 .. m |->
         IF n = 0 THEN [g EXCEPT !.next = {}] ELSE Include(p[n - 1], listed[n], limit)]
Pass(g, listed, limit, m) == CHOOSE p : IsPass(p, g, listed, limit, m)

LEMMA LeastNumber ==
  ASSUME NEW bad, bad \subseteq Nat, bad # {}
  PROVE  \E m \in bad : \A k \in bad : m <= k
<1>1. IsWellFoundedOn(OpToRel(<, Nat), Nat)
  BY NatLessThanWellFounded
<1>2. PICK m \in bad : \A k \in bad : ~ (<<k, m>> \in OpToRel(<, Nat))
  BY <1>1, WFMin
<1>3. ASSUME NEW k \in bad PROVE m <= k
  <2>1. k \in Nat /\ m \in Nat
    OBVIOUS
  <2>2. k < m => <<k, m>> \in OpToRel(<, Nat)
    BY <2>1 DEF OpToRel
  <2>3. ~ (k < m)
    BY <1>2, <2>2, Zenon
  <2> QED BY <2>1, <2>3
<1> QED BY <1>3

LEMMA PassExists ==
  ASSUME NEW g, NEW listed, NEW limit, NEW n \in Nat
  PROVE  IsPass(Pass(g, listed, limit, n), g, listed, limit, n)
<1> DEFINE first == [g EXCEPT !.next = {}]
           step(x, i) == Include(x, listed[i], limit)
           is(p, m) == p = [i \in 0 .. m |-> IF i = 0 THEN first ELSE step(p[i - 1], i)]
           bad == {m \in Nat : ~ \E p : is(p, m)}
<1>1. \A p, m : IsPass(p, g, listed, limit, m) <=> is(p, m)
  BY DEF IsPass
<1> HIDE DEF first, step
<1>2. ASSUME bad # {} PROVE FALSE
  <2>1. PICK m \in bad : \A k \in bad : m <= k
    <3>1. bad \subseteq Nat
      OBVIOUS
    <3> HIDE DEF bad
    <3> QED BY <1>2, <3>1, LeastNumber
  <2>2. m \in Nat /\ ~ \E p : is(p, m)
    OBVIOUS
  <2>3. m # 0
    <3> DEFINE one == [i \in 0 .. 0 |-> first]
    <3>1. is(one, 0)
      OBVIOUS
    <3> HIDE DEF one, is
    <3> QED BY <2>2, <3>1
  <2>4. m - 1 \in Nat /\ m - 1 \notin bad
    BY <2>1, <2>2, <2>3
  <2>5. PICK p : is(p, m - 1)
    BY <2>4
  <2> DEFINE longer == [i \in 0 .. m |-> IF i = m THEN step(p[m - 1], m) ELSE p[i]]
  <2>6. \A i \in 0 .. m : longer[i] = IF i = 0 THEN first ELSE step(longer[i - 1], i)
    <3> SUFFICES ASSUME NEW i \in 0 .. m
                 PROVE  longer[i] = IF i = 0 THEN first ELSE step(longer[i - 1], i)
      OBVIOUS
    <3>1. \A j \in 0 .. (m - 1) : p[j] = IF j = 0 THEN first ELSE step(p[j - 1], j)
      BY <2>5
    <3>2. CASE i = 0
      BY <2>2, <2>3, <2>4, <3>1, <3>2
    <3>3. CASE i # 0 /\ i = m
      <4>1. i - 1 \in 0 .. m /\ i - 1 # m
        BY <2>2, <3>3
      <4> QED BY <3>3, <4>1
    <3>4. CASE i # 0 /\ i # m
      <4>1. i - 1 \in 0 .. m /\ i - 1 # m /\ i \in 0 .. (m - 1)
        BY <2>2, <3>4
      <4> QED BY <3>1, <3>4, <4>1
    <3> QED BY <3>2, <3>3, <3>4
  <2>7. is(longer, m)
    <3>1. longer = [i \in 0 .. m |-> longer[i]]
      OBVIOUS
    <3> HIDE DEF longer
    <3> QED BY <2>6, <3>1
  <2> QED BY <2>2, <2>7
<1>3. \E p : is(p, n)
  <2>1. n \notin bad
    BY <1>2
  <2> HIDE DEF is
  <2> QED BY <2>1
<1>4. \E p : IsPass(p, g, listed, limit, n)
  BY <1>1, <1>3, Zenon
<1> QED BY <1>4 DEF Pass

-----------------------------------------------------------------------------
(* What a walk holds is of the edges it was given, and stays in its limit. *)
Sized(g, limit) == Cardinality(g.seen) + Cardinality(g.open) <= limit
WalkRow(g) == g = [frontier |-> g.frontier, seen |-> g.seen, next |-> g.next, open |-> g.open,
               truncated |-> g.truncated]

KnownOf(table) == UNION {Known(e) : e \in table}
OpenOf(table) == UNION {Dangling(e) : e \in table}
Touched(table, nodes) == {e \in table : Known(e) \cap nodes # {}}

(* x is what g became after the edges of a table.                          *)
After(x, g, table, limit) ==
  LET met == Touched(table, g.frontier) IN
  /\ WalkRow(x) /\ x.frontier = g.frontier /\ Sized(x, limit)
  /\ x.truncated \in BOOLEAN
  /\ g.seen \subseteq x.seen /\ x.seen \subseteq g.seen \cup KnownOf(met)
  /\ x.next = x.seen \ g.seen
  /\ ~x.truncated => /\ ~g.truncated
                     /\ KnownOf(met) \subseteq x.seen /\ x.open = g.open \cup OpenOf(met)

LEMMA IncludeKeeps ==
  ASSUME NEW x, NEW g, NEW table, NEW limit, After(x, g, table, limit), NEW e
  PROVE  After(Include(x, e, limit), g, table \cup {e}, limit)
<1> DEFINE met == Touched(table, g.frontier)
           more == Touched(table \cup {e}, g.frontier)
           y == Include(x, e, limit)
<1>1. /\ WalkRow(x) /\ x.frontier = g.frontier /\ Sized(x, limit) /\ x.truncated \in BOOLEAN
      /\ g.seen \subseteq x.seen /\ x.seen \subseteq g.seen \cup KnownOf(met)
      /\ x.next = x.seen \ g.seen
      /\ ~x.truncated => /\ ~g.truncated
                         /\ KnownOf(met) \subseteq x.seen /\ x.open = g.open \cup OpenOf(met)
  BY DEF After
<1>2. met \subseteq more /\ KnownOf(met) \subseteq KnownOf(more)
  BY DEF Touched, KnownOf
<1>3. CASE Known(e) \cap x.frontier = {}
  <2>1. y = x
    BY <1>3 DEF Include
  <2>2. more = met
    BY <1>1, <1>3 DEF Touched
  <2> QED BY <1>1, <2>1, <2>2 DEF After
<1>4. CASE Known(e) \cap x.frontier # {} /\ ~Room(x, e, limit)
  <2>1. y = [x EXCEPT !.truncated = TRUE]
    BY <1>4 DEF Include
  <2>2. /\ y.frontier = x.frontier /\ y.seen = x.seen /\ y.next = x.next /\ y.open = x.open
        /\ y.truncated = TRUE /\ WalkRow(y)
    BY <1>1, <2>1 DEF WalkRow
  <2> HIDE DEF y, met, more
  <2>3. Sized(y, limit)
    BY <1>1, <2>2 DEF Sized
  <2> QED BY <1>1, <1>2, <2>2, <2>3 DEF After, met, more, y
<1>5. CASE Known(e) \cap x.frontier # {} /\ Room(x, e, limit)
  <2>1. y = [x EXCEPT !.next = x.next \cup (Known(e) \ x.seen), !.seen = x.seen \cup Known(e),
                      !.open = x.open \cup Dangling(e)]
    BY <1>5 DEF Include
  <2>2. /\ y.frontier = x.frontier /\ y.seen = x.seen \cup Known(e)
        /\ y.next = x.next \cup (Known(e) \ x.seen) /\ y.open = x.open \cup Dangling(e)
        /\ y.truncated = x.truncated /\ WalkRow(y)
    BY <1>1, <2>1 DEF WalkRow
  <2>3. more = met \cup {e}
    BY <1>1, <1>5 DEF Touched
  <2>4. KnownOf(more) = KnownOf(met) \cup Known(e) /\ OpenOf(more) = OpenOf(met) \cup Dangling(e)
    BY <2>3 DEF KnownOf, OpenOf
  <2> HIDE DEF y, met, more
  <2>5. Sized(y, limit)
    BY <1>5, <2>2 DEF Sized, Room
  <2>6. y.next = y.seen \ g.seen
    BY <1>1, <2>2
  <2>7. y.seen \subseteq g.seen \cup KnownOf(more) /\ g.seen \subseteq y.seen
    BY <1>1, <2>2, <2>4
  <2>8. ~y.truncated => /\ ~g.truncated
                        /\ KnownOf(more) \subseteq y.seen /\ y.open = g.open \cup OpenOf(more)
    BY <1>1, <2>2, <2>4
  <2> QED BY <1>1, <2>2, <2>5, <2>6, <2>7, <2>8 DEF After, met, more, y
<1> QED BY <1>3, <1>4, <1>5

(* A whole level, over all edges of a table.                               *)
Lists(listed, table) ==
  \E n \in Nat : listed \in [1 .. n -> table] /\ \A e \in table : \E i \in 1 .. n : listed[i] = e
LevelOf(y, g, table, limit) ==
  \E x : After(x, g, table, limit) /\ y = [x EXCEPT !.frontier = x.next]

LEMMA DeeperKeeps ==
  ASSUME NEW g, WalkRow(g), g.truncated \in BOOLEAN, NEW limit, Sized(g, limit), NEW table,
         NEW listed, Lists(listed, table)
  PROVE  LevelOf(Deeper(g, listed, limit), g, table, limit)
<1>0. PICK n \in Nat : /\ listed \in [1 .. n -> table]
                       /\ \A e \in table : \E i \in 1 .. n : listed[i] = e
  BY DEF Lists
<1> DEFINE p == Pass(g, listed, limit, n)
           read(m) == {listed[i] : i \in 1 .. m}
           bad == {m \in Nat : m <= n /\ ~After(p[m], g, read(m), limit)}
<1>1. Len(listed) = n
  <2>1. listed \in Seq(table)
    BY <1>0, SeqDef
  <2> QED BY <1>0, <2>1, LenProperties
<1>2. Deeper(g, listed, limit) = [p[n] EXCEPT !.frontier = p[n].next]
  BY <1>1, Zenon DEF Deeper, Pass, IsPass
<1>3. IsPass(p, g, listed, limit, n)
  BY PassExists
<1> HIDE DEF p
<1>4. p[0] = [g EXCEPT !.next = {}] /\ \A m \in 1 .. n : p[m] = Include(p[m - 1], listed[m], limit)
  <2> DEFINE first == [g EXCEPT !.next = {}]
             step(x, i) == Include(x, listed[i], limit)
  <2>1. p = [i \in 0 .. n |-> IF i = 0 THEN first ELSE step(p[i - 1], i)]
    BY <1>3, Zenon DEF IsPass
  <2> HIDE DEF first, step
  <2>2. \A m \in 0 .. n : p[m] = IF m = 0 THEN first ELSE step(p[m - 1], m)
    BY <2>1
  <2>3. 0 \in 0 .. n /\ \A m \in 1 .. n : m \in 0 .. n /\ m # 0
    OBVIOUS
  <2>4. p[0] = first /\ \A m \in 1 .. n : p[m] = step(p[m - 1], m)
    BY <2>2, <2>3
  <2> QED BY <2>4, Zenon DEF first, step
<1>5. After(p[0], g, read(0), limit)
  <2>1. /\ p[0].frontier = g.frontier /\ p[0].seen = g.seen /\ p[0].next = {} /\ p[0].open = g.open
        /\ p[0].truncated = g.truncated /\ WalkRow(p[0])
    BY <1>4 DEF WalkRow
  <2>2. read(0) = {}
    OBVIOUS
  <2>3. KnownOf(Touched({}, g.frontier)) = {} /\ OpenOf(Touched({}, g.frontier)) = {}
    BY DEF KnownOf, OpenOf, Touched
  <2> HIDE DEF read
  <2>4. Sized(p[0], limit)
    BY <2>1 DEF Sized
  <2> QED BY <2>1, <2>2, <2>3, <2>4 DEF After
<1>6. ASSUME bad # {} PROVE FALSE
  <2>1. PICK m \in bad : \A k \in bad : m <= k
    <3>1. bad \subseteq Nat
      OBVIOUS
    <3> HIDE DEF bad
    <3> QED BY <1>6, <3>1, LeastNumber
  <2>2. m \in Nat /\ m <= n /\ ~After(p[m], g, read(m), limit)
    OBVIOUS
  <2>3. m # 0
    BY <1>5, <2>2
  <2>4. m - 1 \in Nat /\ m - 1 <= n /\ m \in 1 .. n /\ m - 1 \notin bad
    <3>1. m - 1 \in Nat /\ m - 1 <= n /\ m \in 1 .. n /\ ~(m <= m - 1)
      BY <2>2, <2>3
    <3> HIDE DEF bad
    <3> QED BY <2>1, <3>1
  <2>5. After(p[m - 1], g, read(m - 1), limit)
    BY <2>4
  <2>6. read(m) = read(m - 1) \cup {listed[m]}
    BY <2>4
  <2>7. After(Include(p[m - 1], listed[m], limit), g, read(m - 1) \cup {listed[m]}, limit)
    BY <2>5, IncludeKeeps
  <2> QED BY <1>4, <2>2, <2>4, <2>6, <2>7
<1>7. After(p[n], g, table, limit)
  <2>1. n \notin bad
    BY <1>6
  <2>2. read(n) = table
    BY <1>0
  <2>3. After(p[n], g, read(n), limit)
    BY <2>1
  <2> HIDE DEF read, bad
  <2> QED BY <2>2, <2>3
<1> QED BY <1>2, <1>7 DEF LevelOf

-----------------------------------------------------------------------------
Outset(root) ==
  [frontier |-> {root}, seen |-> {root}, next |-> {}, open |-> {}, truncated |-> FALSE]

LEMMA Walks ==
  ASSUME NEW root, NEW listed, NEW limit
  PROVE  /\ CitationGraph(root, 1, listed, limit) = Deeper(Outset(root), listed, limit)
         /\ CitationGraph(root, 2, listed, limit)
              = Deeper(Deeper(Outset(root), listed, limit), listed, limit)
<1> DEFINE first == Outset(root)
           step(g) == Deeper(g, listed, limit)
           is(w, m) == w = [d \in 0 .. m |-> IF d = 0 THEN first ELSE step(w[d - 1])]
           one == [d \in 0 .. 1 |-> IF d = 0 THEN first ELSE step(first)]
           two == [d \in 0 .. 2 |-> IF d = 0 THEN first ELSE IF d = 1 THEN step(first)
                                    ELSE step(step(first))]
<1>1. \A m : CitationGraph(root, m, listed, limit) = (CHOOSE w : is(w, m))[m]
  BY Zenon DEF CitationGraph, Outset
<1> HIDE DEF first, step
<1>2. is(one, 1) /\ is(two, 2)
  <2>1. \A d \in 0 .. 1 : d = 0 \/ d = 1
    OBVIOUS
  <2>2. one[0] = first /\ one[1] = step(first)
    OBVIOUS
  <2>3. \A d \in 0 .. 2 : d = 0 \/ d = 1 \/ d = 2
    OBVIOUS
  <2>4. two[0] = first /\ two[1] = step(first) /\ two[2] = step(step(first))
    OBVIOUS
  <2>5. is(one, 1)
    BY <2>1, <2>2
  <2>6. is(two, 2)
    BY <2>3, <2>4
  <2> QED BY <2>5, <2>6
<1> HIDE DEF one, two
<1>3. PICK w1 : is(w1, 1) /\ CitationGraph(root, 1, listed, limit) = w1[1]
  <2> HIDE DEF is
  <2> QED BY <1>1, <1>2, Zenon
<1>4. PICK w2 : is(w2, 2) /\ CitationGraph(root, 2, listed, limit) = w2[2]
  <2> HIDE DEF is
  <2> QED BY <1>1, <1>2, Zenon
<1>5. w1[1] = step(first)
  BY <1>3
<1>6. w2[2] = step(step(first))
  BY <1>4
<1> QED BY <1>3, <1>4, <1>5, <1>6 DEF first, step

LEMMA NearIs ==
  ASSUME NEW root
  PROVE  /\ Near(root, 0) = {root}
         /\ Near(root, 1) = {root} \cup KnownOf(Touched(Shown, {root}))
         /\ Near(root, 2) = Near(root, 1) \cup KnownOf(Touched(Shown, Near(root, 1)))
<1> DEFINE step(s) == s \cup KnownOf(Touched(Shown, s))
           first == {root}
           is(w, m) == w = [d \in 0 .. m |-> IF d = 0 THEN first ELSE step(w[d - 1])]
           none == [d \in 0 .. 0 |-> first]
           one == [d \in 0 .. 1 |-> IF d = 0 THEN first ELSE step(first)]
           two == [d \in 0 .. 2 |-> IF d = 0 THEN first ELSE IF d = 1 THEN step(first)
                                    ELSE step(step(first))]
<1>1. \A m : Near(root, m) = (CHOOSE w : is(w, m))[m]
  BY Zenon DEF Near, KnownOf, Touched
<1> HIDE DEF first, step
<1>2. is(none, 0) /\ is(one, 1) /\ is(two, 2)
  <2>1. \A d \in 0 .. 1 : d = 0 \/ d = 1
    OBVIOUS
  <2>2. one[0] = first /\ one[1] = step(first)
    OBVIOUS
  <2>3. \A d \in 0 .. 2 : d = 0 \/ d = 1 \/ d = 2
    OBVIOUS
  <2>4. two[0] = first /\ two[1] = step(first) /\ two[2] = step(step(first))
    OBVIOUS
  <2>5. is(one, 1)
    BY <2>1, <2>2
  <2>6. is(two, 2)
    BY <2>3, <2>4
  <2>7. is(none, 0)
    OBVIOUS
  <2> QED BY <2>5, <2>6, <2>7
<1> HIDE DEF none, one, two
<1>3. PICK w0 : is(w0, 0) /\ Near(root, 0) = w0[0]
  <2> HIDE DEF is
  <2> QED BY <1>1, <1>2, Zenon
<1>4. PICK w1 : is(w1, 1) /\ Near(root, 1) = w1[1]
  <2> HIDE DEF is
  <2> QED BY <1>1, <1>2, Zenon
<1>5. PICK w2 : is(w2, 2) /\ Near(root, 2) = w2[2]
  <2> HIDE DEF is
  <2> QED BY <1>1, <1>2, Zenon
<1>6. w0[0] = first
  BY <1>3
<1>7. w1[1] = step(first)
  BY <1>4
<1>8. w2[2] = step(step(first))
  BY <1>5
<1> QED BY <1>3, <1>4, <1>5, <1>6, <1>7, <1>8 DEF first, step

(* A graph is what the walk of its levels holds.                           *)
LEMMA GraphIsBounded ==
  ASSUME IsFiniteSet(edges) PROVE GraphBounded
<1> SUFFICES ASSUME NEW root \in Live, NEW depth \in 1 .. 2, NEW limit \in NodeLimits,
                    NEW listed \in SetToSeqs(Shown)
      PROVE LET g == CitationGraph(root, depth, listed, limit) IN
            /\ Cardinality(g.seen) + Cardinality(g.open) <= limit
            /\ g.seen \subseteq Near(root, depth)
            /\ ~g.truncated => /\ g.seen = Near(root, depth)
                               /\ g.open = UNION {Dangling(e) : e \in {x \in Shown :
                                                    Known(x) \cap Near(root, depth - 1) # {}}}
  BY Zenon DEF GraphBounded
<1> DEFINE n == Cardinality(Shown)
<1>1. IsFiniteSet(Shown) /\ n \in Nat
  <2>1. Shown \subseteq edges
    BY DEF Shown, LiveEdges
  <2>2. IsFiniteSet(Shown)
    BY <2>1, FS_Subset
  <2> QED BY <2>2, FS_CardinalityType
<1>2. listed \in [1 .. n -> Shown] /\ \A i, j \in 1 .. n : i # j => listed[i] # listed[j]
  BY Zenon DEF SetToSeqs
<1>3. \A e \in Shown : \E i \in 1 .. n : listed[i] = e
  <2>1. listed \in Injection(1 .. n, Shown)
    BY <1>2 DEF Injection, IsInjective
  <2>2. Cardinality(1 .. n) = n
    BY <1>1, FS_Interval
  <2> HIDE DEF n
  <2>3. listed \in Surjection(1 .. n, Shown)
    BY <1>1, <2>1, <2>2, FS_Injection DEF n
  <2> QED BY <1>2, <2>3 DEF Surjection
<1> HIDE DEF n
<1>0. Lists(listed, Shown)
  BY <1>1, <1>2, <1>3 DEF Lists
<1> DEFINE start == Outset(root)
<1>4. WalkRow(start) /\ start.truncated = FALSE /\ start.frontier = {root} /\ start.seen = {root}
      /\ start.open = {} /\ Sized(start, limit)
  <2>1. limit \in Nat /\ limit >= 1
    BY GraphAssumptions
  <2>2. Cardinality({root}) = 1 /\ Cardinality({}) = 0
    BY FS_Singleton, FS_EmptySet
  <2> QED BY <2>1, <2>2 DEF Outset, WalkRow, Sized
<1> HIDE DEF start
<1>5. PICK x : /\ After(x, start, Shown, limit)
               /\ Deeper(start, listed, limit) = [x EXCEPT !.frontier = x.next]
  <2>1. LevelOf(Deeper(start, listed, limit), start, Shown, limit)
    BY <1>0, <1>4, DeeperKeeps
  <2> QED BY <2>1 DEF LevelOf
<1> DEFINE level == Deeper(start, listed, limit)
           met == Touched(Shown, {root})
           near == {root} \cup KnownOf(met)
<1>6. /\ WalkRow(level) /\ level.truncated \in BOOLEAN /\ Sized(level, limit)
      /\ level.seen \subseteq near /\ root \in level.seen /\ level.frontier = level.seen \ {root}
      /\ ~level.truncated => level.seen = near /\ level.open = OpenOf(met)
  <2>1. /\ level.frontier = x.next /\ level.seen = x.seen /\ level.open = x.open
        /\ level.truncated = x.truncated /\ WalkRow(level)
    BY <1>5 DEF After, WalkRow
  <2> HIDE DEF level
  <2> QED BY <1>4, <1>5, <2>1 DEF After, Sized
<1> HIDE DEF level, met, near
<1>7. Near(root, 0) = {root} /\ Near(root, 1) = near /\ Near(root, 2) = near \cup KnownOf(Touched(Shown, near))
  BY NearIs DEF near, met
<1>8. \A s : OpenOf(Touched(Shown, s))
               = UNION {Dangling(e) : e \in {y \in Shown : Known(y) \cap s # {}}}
  BY DEF OpenOf, Touched
<1>9. CASE depth = 1
  <2>1. CitationGraph(root, depth, listed, limit) = level /\ depth - 1 = 0
    BY <1>9, Walks DEF level, start
  <2>2. OpenOf(met) = UNION {Dangling(e) : e \in {y \in Shown : Known(y) \cap Near(root, depth - 1) # {}}}
    BY <1>7, <1>8, <2>1 DEF met
  <2> QED BY <1>6, <1>7, <1>9, <2>1, <2>2 DEF Sized
<1>10. CASE depth = 2
  <2>1. PICK y : /\ After(y, level, Shown, limit)
                 /\ Deeper(level, listed, limit) = [y EXCEPT !.frontier = y.next]
    <3>1. LevelOf(Deeper(level, listed, limit), level, Shown, limit)
      BY <1>0, <1>6, DeeperKeeps
    <3> QED BY <3>1 DEF LevelOf
  <2> DEFINE last == Deeper(level, listed, limit)
             again == Touched(Shown, level.frontier)
             all == Touched(Shown, near)
  <2>2. last.seen = y.seen /\ last.open = y.open /\ last.truncated = y.truncated
    BY <2>1 DEF After, WalkRow
  <2>3. CitationGraph(root, depth, listed, limit) = last /\ depth - 1 = 1
    BY <1>10, Walks DEF level, start
  <2>4. OpenOf(all) = UNION {Dangling(e) : e \in {z \in Shown : Known(z) \cap Near(root, depth - 1) # {}}}
    BY <1>7, <1>8, <2>3
  <2> HIDE DEF last
  <2>5. KnownOf(again) \subseteq KnownOf(all)
    BY <1>6 DEF KnownOf, Touched
  <2>6. level.seen = near => all = met \cup again
    BY <1>6 DEF Touched, met
  <2>7. all = met \cup again => /\ KnownOf(all) = KnownOf(met) \cup KnownOf(again)
                                /\ OpenOf(all) = OpenOf(met) \cup OpenOf(again)
    BY DEF KnownOf, OpenOf
  <2> HIDE DEF again, all
  <2>8. Sized(last, limit)
    BY <2>1, <2>2 DEF After, Sized
  <2>9. last.seen \subseteq near \cup KnownOf(all)
    BY <1>6, <2>1, <2>2, <2>5 DEF After, again
  <2>10. ~last.truncated => last.seen = near \cup KnownOf(all) /\ last.open = OpenOf(all)
    <3> SUFFICES ASSUME ~last.truncated
                 PROVE  last.seen = near \cup KnownOf(all) /\ last.open = OpenOf(all)
      OBVIOUS
    <3>1. /\ ~level.truncated /\ KnownOf(again) \subseteq y.seen
          /\ y.open = level.open \cup OpenOf(again) /\ level.seen \subseteq y.seen
          /\ y.seen \subseteq level.seen \cup KnownOf(again)
      BY <2>1, <2>2 DEF After, again
    <3> QED BY <1>6, <2>2, <2>6, <2>7, <3>1 DEF near
  <2> QED BY <1>7, <1>10, <2>3, <2>4, <2>8, <2>9, <2>10 DEF Sized, all
<1> QED BY <1>9, <1>10

-----------------------------------------------------------------------------
(* There are finitely many edges.                                          *)
FiniteEdges == IsFiniteSet(edges)

LEMMA ImageFinite ==
  ASSUME NEW S, IsFiniteSet(S), NEW f, f = [x \in S |-> f[x]]
  PROVE  IsFiniteSet({f[x] : x \in S})
<1> DEFINE T == {f[x] : x \in S}
<1>1. f \in Surjection(S, T)
  BY DEF Surjection
<1> HIDE DEF T
<1> QED BY <1>1, FS_Surjection DEF T

LEMMA FiniteNext == FiniteEdges /\ [SourcesNext]_srcvars => FiniteEdges'
<1> SUFFICES ASSUME IsFiniteSet(edges), [SourcesNext]_srcvars PROVE IsFiniteSet(edges')
  BY DEF FiniteEdges
<1>1. ASSUME NEW s, NEW names PROVE IsFiniteSet(ResolvedBy(s, names, edges))
  <2> DEFINE new(e) == IF e.deleted THEN e
                       ELSE [e EXCEPT !.citing = IF @ = Unresolved /\ e.citing_key \in names THEN s ELSE @,
                                      !.cited = IF @ = Unresolved /\ e.cited_key \in names THEN s ELSE @]
             f == [e \in edges |-> new(e)]
  <2>1. ResolvedBy(s, names, edges) = {new(e) : e \in edges}
    BY Zenon DEF ResolvedBy
  <2> HIDE DEF new
  <2>2. IsFiniteSet({f[e] : e \in edges})
    BY ImageFinite
  <2>3. {f[e] : e \in edges} = {new(e) : e \in edges}
    OBVIOUS
  <2> QED BY <2>1, <2>2, <2>3
<1>2. ASSUME NEW s \in Sources, NEW k \in WorkKeys, NEW backward \in BOOLEAN, Discover(s, k, backward)
      PROVE  IsFiniteSet(edges')
  <2>0. PICK linked \in (IF Matching(k) = {} THEN {Unresolved} ELSE Matching(k)) :
          LET row == [citing_key |-> IF backward THEN source[s].doi ELSE k,
                      cited_key |-> IF backward THEN k ELSE source[s].doi,
                      citing |-> IF backward THEN s ELSE linked,
                      cited |-> IF backward THEN linked ELSE s,
                      rejected |-> FALSE, deleted |-> FALSE]
              same == {e \in edges : e.citing_key = row.citing_key /\ e.cited_key = row.cited_key} IN
          \/ edges' = edges \cup {row}
          \/ edges' = (edges \ same) \cup {Filled(e, row.citing, row.cited) : e \in same}
      BY <1>2 DEF Discover
  <2> DEFINE row == [citing_key |-> IF backward THEN source[s].doi ELSE k,
                     cited_key |-> IF backward THEN k ELSE source[s].doi,
                     citing |-> IF backward THEN s ELSE linked,
                     cited |-> IF backward THEN linked ELSE s,
                     rejected |-> FALSE, deleted |-> FALSE]
             same == {e \in edges : e.citing_key = row.citing_key /\ e.cited_key = row.cited_key}
  <2>1. /\ same \subseteq edges
        /\ \/ edges' = edges \cup {row}
           \/ edges' = (edges \ same) \cup {Filled(e, row.citing, row.cited) : e \in same}
      BY <2>0, Zenon
  <2> HIDE DEF same, row
  <2> DEFINE f == [e \in same |-> Filled(e, row.citing, row.cited)]
  <2>2. IsFiniteSet(same) /\ IsFiniteSet(edges \ same)
    BY <2>1, FS_Subset, FS_Difference
  <2>3. IsFiniteSet({f[e] : e \in same})
    BY <2>2, ImageFinite
  <2>4. {f[e] : e \in same} = {Filled(e, row.citing, row.cited) : e \in same}
    OBVIOUS
  <2>5. IsFiniteSet((edges \ same) \cup {Filled(e, row.citing, row.cited) : e \in same})
    BY <2>2, <2>3, <2>4, FS_Union
  <2>6. IsFiniteSet(edges \cup {row})
    BY FS_AddElement
  <2> QED BY <2>1, <2>5, <2>6
<1>3. ASSUME NEW e, NEW new, edges' = (edges \ {e}) \cup {new} PROVE IsFiniteSet(edges')
  BY <1>3, FS_Difference, FS_AddElement
<1>4. ASSUME NEW a \in Sources, NEW b \in Sources, MergeSources(a, b) PROVE IsFiniteSet(edges')
  <2> DEFINE new(e) == LET moved == [e EXCEPT !.citing = IF @ = b THEN a ELSE @,
                                              !.cited = IF @ = b THEN a ELSE @] IN
                       IF e.deleted \/ b \notin {e.citing, e.cited} THEN e
                       ELSE [moved EXCEPT !.deleted = moved.citing = moved.cited]
             f == [e \in edges |-> new(e)]
  <2>1. edges' = {new(e) : e \in edges}
    BY <1>4, Zenon DEF MergeSources, Repointed
  <2> HIDE DEF new
  <2>2. IsFiniteSet({f[e] : e \in edges})
    BY ImageFinite
  <2>3. {f[e] : e \in edges} = {new(e) : e \in edges}
    OBVIOUS
  <2> QED BY <2>1, <2>2, <2>3
<1>5. CASE UNCHANGED srcvars
  BY <1>5 DEF srcvars
<1>6. ASSUME NEW s \in Sources, RegisterSource(s) PROVE IsFiniteSet(edges')
  BY <1>6 DEF RegisterSource
<1>7. ASSUME NEW s \in Sources, NEW doi, NEW p, ImportWork(s, doi, p) PROVE IsFiniteSet(edges')
  <2>1. edges' = edges \/ \E k, names : edges' = ResolvedBy(k, names, edges)
    BY <1>7 DEF ImportWork
  <2> QED BY <1>1, <2>1
<1>8. ASSUME NEW s \in Sources, NEW e \in edges, NEW citing \in BOOLEAN, ResolveEdge(e, s, citing)
      PROVE IsFiniteSet(edges')
  <2>1. \E new : edges' = (edges \ {e}) \cup {new}
    BY <1>8 DEF ResolveEdge
  <2> QED BY <1>3, <2>1
<1>9. ASSUME NEW e \in edges, NEW rejected \in BOOLEAN, ReviewEdge(e, rejected) PROVE IsFiniteSet(edges')
  <2>1. \E new : edges' = (edges \ {e}) \cup {new}
    BY <1>9 DEF ReviewEdge
  <2> QED BY <1>3, <2>1
<1> QED BY <1>2, <1>4, <1>5, <1>6, <1>7, <1>8, <1>9 DEF SourcesNext

LEMMA FiniteInit == SourcesInit => FiniteEdges
BY FS_EmptySet DEF SourcesInit, FiniteEdges

LEMMA GraphIsSound == FiniteEdges /\ EndpointsLive => GraphSound
BY GraphIsBounded DEF GraphSound, FiniteEdges

(* Whatever was imported, discovered and merged, a graph shows at most as  *)
(* many nodes as were asked for, only what is near its root, and all of    *)
(* that unless it says that it was cut short.                              *)
THEOREM GraphSoundHolds == SourcesSpec => []GraphSound
BY FiniteInit, FiniteNext, GraphIsSound, EndpointsLiveHolds, PTL DEF SourcesSpec

-----------------------------------------------------------------------------
(* The composition the run checks: a behaviour of it is one of each part.  *)

LEMMA PartsBehave ==
  Spec => /\ DialogueSpec /\ ComputeSpec /\ SubmissionSpec /\ AuthorshipSpec /\ PackagesSpec
          /\ ExportsSpec /\ FindingSpec /\ AccountsSpec /\ AccessSpec /\ PilotSpec /\ RolesSpec
          /\ SourcesSpec /\ TransferSpec
<1>1. Init => /\ DialogueInit /\ ComputeInit /\ SubmissionInit /\ AuthorshipInit /\ PackagesInit
              /\ ExportsInit /\ FindingInit /\ AccountsInit /\ AccessInit /\ PilotInit /\ RolesInit
              /\ SourcesInit /\ TransferInit
  BY DEF Init
<1>2. [Next]_<<part, dvars, cvars, svars, avars, pvars, exportvars, fvars, acctvars,
               accessvars, deskvars, rolevars, srcvars, transfervars>>
      => /\ [DialogueNext]_dvars /\ [ComputeNext]_cvars /\ [SubmissionNext]_svars
         /\ [AuthorshipNext]_avars /\ [PackagesNext]_pvars /\ [ExportsNext]_exportvars
         /\ [FindingNext]_fvars /\ [AccountsNext]_acctvars /\ [AccessNext]_accessvars
         /\ [PilotNext]_deskvars /\ [RolesNext]_rolevars /\ [SourcesNext]_srcvars
         /\ [TransferNext]_transfervars
  BY DEF Next
<1> QED BY <1>1, <1>2, PTL
        DEF Spec, DialogueSpec, ComputeSpec, SubmissionSpec, AuthorshipSpec, PackagesSpec, ExportsSpec,
            FindingSpec, AccountsSpec, AccessSpec, PilotSpec, RolesSpec, SourcesSpec, TransferSpec

(* Every part keeps to its types, in the composition.                      *)
THEOREM GateTypesHold == Spec => []TypeOK
<1>1. ComputeSpec => []TypeOKCompute
  <2>1. ComputeSound => TypeOKCompute
    BY DEF ComputeSound
  <2> QED BY <2>1, ComputeInitSound, ComputeNextSound, PTL DEF ComputeSpec
<1>2. SubmissionSpec => []TypeOKSubmission
  <2>1. Explained => TypeOKSubmission
    BY DEF Explained
  <2> QED BY <2>1, InitExplained, NextExplained, PTL DEF SubmissionSpec
<1>3. AuthorshipSpec => []TypeOKAuthorship
  <2>1. OrdersSound => TypeOKAuthorship
    BY DEF OrdersSound
  <2> QED BY <2>1, OrdersInitSound, OrdersNextSound, PTL DEF AuthorshipSpec
<1>4. PackagesSpec => []TypeOKPackages
  <2>1. PackagesSound => TypeOKPackages
    BY DEF PackagesSound
  <2> QED BY <2>1, PackagesInitSound, PackagesNextSound, PTL DEF PackagesSpec
<1>5. ExportsSpec => []TypeOKExports
  <2>1. ExportsSound => TypeOKExports
    BY DEF ExportsSound
  <2> QED BY <2>1, ExportsInitSound, ExportsNextSound, PTL DEF ExportsSpec
<1>6. FindingSpec => []TypeOKFinding
  <2>1. FindingSound => TypeOKFinding
    BY DEF FindingSound
  <2> QED BY <2>1, FindingInitSound, FindingNextSound, PTL DEF FindingSpec
<1>7. AccessSpec => []TypeOKAccess
  <2>1. AccessSound => TypeOKAccess
    BY DEF AccessSound
  <2> QED BY <2>1, AccessInitSound, AccessNextSound, PTL DEF AccessSpec
<1>8. SourcesSpec => []TypeOKSources
  <2>1. GraphInv => TypeOKSources
    BY DEF GraphInv
  <2> QED BY <2>1, GraphInit, GraphNextSound, PTL DEF SourcesSpec
<1>9. RolesSpec => []TypeOKRoles
  <2>1. RolesSound => TypeOKRoles
    BY DEF RolesSound
  <2> QED BY <2>1, RolesHold, PTL
<1>10. TransferSpec => []TypeOKTransfer
  <2>1. TransferSound => TypeOKTransfer
    BY DEF TransferSound
  <2> QED BY <2>1, TransfersHold, PTL
<1>11. /\ TypeOKDialogue /\ TypeOKCompute /\ TypeOKSubmission /\ TypeOKAuthorship /\ TypeOKPackages
        /\ TypeOKExports /\ TypeOKFinding /\ TypeOKAccounts /\ TypeOKAccess /\ TypeOKPilot
        /\ TypeOKRoles /\ TypeOKSources /\ TypeOKTransfer
        => TypeOK
  BY DEF TypeOK
<1> QED BY <1>1, <1>2, <1>3, <1>4, <1>5, <1>6, <1>7, <1>8, <1>9, <1>10, <1>11,
           PartsBehave, DialogueTypesHold, AccountTypesHold, PilotTypesHold, PTL

(* What is handed out is what was decided on, in the composition.          *)
THEOREM HandedOutHolds == Spec => []HandedOut
<1>1. BundlesAsApproved /\ ExportsAgree => HandedOut
  BY DEF HandedOut
<1> QED BY <1>1, PartsBehave, BundlesHold, ExportsHold, PTL

(* Whoever was shut out stays out, in the composition: a session after its *)
(* logout, a key after its revocation.                                     *)
THEOREM ShutOutHolds == Spec => []ShutOut
<1>1. LogoutHolds /\ KeysHold => ShutOut
  BY DEF ShutOut
<1> QED BY <1>1, PartsBehave, LogoutHoldsAlways, KeysHoldAlways, PTL
=============================================================================
