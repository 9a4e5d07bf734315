----------------------------- MODULE Submissions ----------------------------
(***************************************************************************)
(* A submission's way through a venue: a state machine whose every change  *)
(* appends to a history.  A request loads the row, checks it, and writes   *)
(* the columns it changed when it commits, whatever the row is by then.    *)
(***************************************************************************)
EXTENDS Naturals, Sequences, SequencesExt

CONSTANTS
  Clerks,       \* concurrent requests
  MaxRevisions, \* bound: responses to reviewers
  MaxEvents     \* bound: length of the history

ASSUME SubmissionAssumptions == MaxRevisions \in Nat /\ MaxEvents \in Nat

VARIABLES
  submission,  \* the row: status, history of entered states, revisions
  desk         \* clerk -> the row it loaded and what it will write

svars == <<submission, desk>>

Transitions ==
  [drafting           |-> {"submitted", "withdrawn"},
   submitted          |-> {"under_review", "withdrawn", "rejected"},
   under_review       |-> {"revision_requested", "accepted", "rejected", "withdrawn"},
   revision_requested |-> {"resubmitted", "withdrawn"},
   resubmitted        |-> {"under_review", "withdrawn", "rejected"},
   accepted           |-> {},
   rejected           |-> {},
   withdrawn          |-> {}]

State == DOMAIN Transitions
Event == [from : State \cup {"none"}, to : State]
Revision == [round : Nat, status : State]
NoDesk == [to |-> "none", history |-> <<>>, revisions |-> <<>>]

TypeOKSubmission ==
  /\ submission \in [status : State, history : Seq(Event), revisions : Seq(Revision)]
  /\ desk \in [Clerks -> [to : State \cup {"none", "revision"}, history : Seq(Event),
                          revisions : Seq(Revision)]]

SubmissionInit ==
  /\ submission = [status |-> "drafting", revisions |-> <<>>,
                   history |-> <<[from |-> "none", to |-> "drafting"]>>]
  /\ desk = [k \in Clerks |-> NoDesk]

History_Fresh(k) == submission.history \o <<Last(desk[k].history)>>

History(k) == desk[k].history

LoadTransition(k, to) ==
  /\ desk[k] = NoDesk /\ to \in Transitions[submission.status]
  /\ Len(submission.history) < MaxEvents
  /\ desk' = [desk EXCEPT ![k] =
       [to |-> to, revisions |-> <<>>,
        history |-> Append(submission.history, [from |-> submission.status, to |-> to])]]
  /\ UNCHANGED submission

Transition(k) ==
  /\ desk[k].to \in State
  /\ submission' = [submission EXCEPT !.status = desk[k].to, !.history = History(k)]
  /\ desk' = [desk EXCEPT ![k] = NoDesk]

LoadRevision(k) ==
  /\ desk[k] = NoDesk /\ Len(submission.revisions) < MaxRevisions
  /\ desk' = [desk EXCEPT ![k] =
       [to |-> "revision", history |-> <<>>,
        revisions |-> Append(submission.revisions,
                             [round |-> Len(submission.revisions) + 1,
                              status |-> submission.status])]]
  /\ UNCHANGED submission

AddRevision(k) ==
  /\ desk[k].to = "revision"
  /\ submission' = [submission EXCEPT !.revisions = desk[k].revisions]
  /\ desk' = [desk EXCEPT ![k] = NoDesk]

SubmissionNext == \E k \in Clerks : \/ Transition(k) \/ LoadRevision(k) \/ AddRevision(k)
                                    \/ \E to \in State : LoadTransition(k, to)

SubmissionSpec == SubmissionInit /\ [][SubmissionNext]_svars

(* The history leads, by allowed transitions only, to the status the row   *)
(* has, whatever requests overtook each other (submissions.py: "every      *)
(* change appends to an immutable history"; an overtaken change is lost,   *)
(* and with it its entry).                                                 *)
HistoryExplainsStatus ==
  LET h == submission.history IN
  /\ Last(h).to = submission.status
  /\ \A i \in 2 .. Len(h) : /\ h[i].from = h[i - 1].to
                            /\ h[i].to \in Transitions[h[i].from]
=============================================================================
