-------------------------- MODULE DialogueActions --------------------------
(***************************************************************************)
(* The actions an assistant proposes in a dialogue about one manuscript    *)
(* section, and what concurrent requests do with them: approve, reject,    *)
(* revise, undo.  A request loads its row, and later writes; what lies     *)
(* between is decided by the database.                                     *)
(*                                                                         *)
(* sqlite: the SAVEPOINT of an approval is the outermost transaction, so   *)
(*   claim, check and effect are one write transaction that its RELEASE    *)
(*   commits, before the status becomes EXECUTED in a second one.          *)
(* postgres: all is committed at the end, the claim locks the row until    *)
(*   then, and every statement sees what others committed before it.       *)
(*                                                                         *)
(* A content hash is the version it was computed from.                     *)
(***************************************************************************)
EXTENDS Naturals, FiniteSets

CONSTANTS
  Requests,    \* concurrent requests
  Texts,       \* section texts
  NoText,
  Engines,     \* a subset of {"sqlite", "postgres"}
  MaxActions,  \* bound: proposed actions
  MaxOutside   \* bound: changes by other parts of the application

ASSUME DialogueAssumptions ==
  /\ Engines \subseteq {"sqlite", "postgres"}
  /\ MaxActions \in Nat /\ MaxOutside \in Nat
  /\ NoText \notin Texts

VARIABLES
  engine,    \* the database in use
  action,    \* the proposed_actions table
  section,   \* the section's text and version (its updated_at)
  evidence,  \* version of the claims and excerpts linked to the section
  outside,   \* changes made by others so far
  req,       \* request -> what it has loaded and is about to do
  effects,   \* history: action -> how often it took effect
  edit       \* history: action -> the version and text its edit replaced

dvars == <<engine, action, section, evidence, outside, req, effects, edit>>

Action == 1 .. MaxActions
Version == 0 .. (MaxActions + MaxOutside)

Status == {"none", "proposed", "approved", "rejected", "executed", "invalidated"}
Row == [status : Status, kind : {"revise", "create"}, ok : BOOLEAN,
        sec : Version, ev : Version, text : Texts \cup {NoText}, before : Texts \cup {NoText},
        origin : {"assistant", "revision", "undo"}, prev : {0} \cup Action,
        after : Version]
Idle == [pc |-> "idle", act |-> 0, sec |-> 0, ev |-> 0, text |-> NoText]
Request == [pc : {"idle", "turn", "approve", "mismatch", "reject", "revise", "undo",
                  "matched", "apply", "finish", "failed", "stale"},
            act : {0} \cup Action, sec : Version, ev : Version, text : Texts \cup {NoText}]
NoEdit == [from |-> 0, to |-> 0, before |-> NoText, text |-> NoText]
NoRow == [status |-> "none", kind |-> "create", ok |-> FALSE, sec |-> 0, ev |-> 0,
          text |-> NoText, before |-> NoText, origin |-> "assistant", prev |-> 0, after |-> 0]

TypeOKDialogue ==
  /\ engine \in Engines
  /\ action \in [Action -> Row]
  /\ section \in [ver : Version, text : Texts]
  /\ evidence \in 0 .. MaxOutside /\ outside \in 0 .. MaxOutside
  /\ req \in [Requests -> Request]
  /\ effects \in [Action -> {0, 1}]
  /\ edit \in [Action -> [from : Version, to : Version,
                       before : Texts \cup {NoText}, text : Texts \cup {NoText}]]

DialogueInit ==
  /\ engine \in Engines
  /\ section \in [ver : {0}, text : Texts]
  /\ action = [a \in Action |-> NoRow]
  /\ evidence = 0 /\ outside = 0
  /\ req = [r \in Requests |-> Idle]
  /\ effects = [a \in Action |-> 0]
  /\ edit = [a \in Action |-> NoEdit]

-----------------------------------------------------------------------------
Fresh(a)  == action[a].status = "none" /\ \A b \in Action : b < a => action[b].status # "none"
At(r, pc) == req[r].pc = pc
Goto(r, pc) == req' = [req EXCEPT ![r].pc = pc]
Done(r)   == req' = [req EXCEPT ![r] = Idle]
SetStatus(a, s) == action' = [action EXCEPT ![a].status = s]

(* A claim not yet committed holds the row: other writers of it wait.      *)
Locked(a) == \E r \in Requests : req[r].pc \in {"matched", "apply"} /\ req[r].act = a

content == <<engine, section, evidence, outside, effects, edit>>

Load(r, pc, a) == At(r, "idle") /\ req' = [req EXCEPT ![r].pc = pc, ![r].act = a]

(* context(): what a prompt or a proposal is bound to.                     *)
LoadContext(r, pc, a) ==
  /\ At(r, "idle")
  /\ req' = [req EXCEPT ![r] = [pc |-> pc, act |-> a, sec |-> section.ver,
                                ev |-> evidence, text |-> section.text]]

Current(p) == p.sec = section.ver /\ p.ev = evidence   \* context_hash

Propose(a, p, text, origin, prev) ==
  [action EXCEPT ![a] =
     [status |-> "proposed", kind |-> "revise", ok |-> TRUE, sec |-> p.sec, ev |-> p.ev,
      text |-> text, before |-> p.text, origin |-> origin, prev |-> prev, after |-> 0]]

ProposeOther(a, ok) ==
  [action EXCEPT ![a] = [NoRow EXCEPT !.status = "proposed", !.ok = ok]]

-----------------------------------------------------------------------------
(* post_user_turn: the model answers about the snapshot taken before it    *)
(* was asked, and may propose an edit, another action, or one that cannot  *)
(* be executed.                                                            *)
Ask(r) == LoadContext(r, "turn", 0) /\ UNCHANGED <<action, content>>

Answer(r) ==
  /\ At(r, "turn")
  /\ \E a \in Action :
       /\ Fresh(a)
       /\ \/ \E text \in Texts : action' = Propose(a, req[r], text, "assistant", 0)
          \/ \E ok \in BOOLEAN : action' = ProposeOther(a, ok)
  /\ Done(r) /\ UNCHANGED content

(* approve_action: the row is loaded and its plan compared with what the   *)
(* reviewer saw.                                                           *)
Approve(r, a) ==
  /\ action[a].status = "proposed"
  /\ \/ Load(r, "mismatch", a)
     \/ action[a].ok /\ Load(r, "approve", a)
  /\ UNCHANGED <<action, content>>

(* A mismatch, or a stale proposal found by the claim, is written with no  *)
(* regard to the status the row has by now.                                *)
Invalidate(r) ==
  /\ req[r].pc \in {"mismatch", "stale"} /\ ~Locked(req[r].act)
  /\ SetStatus(req[r].act, "invalidated")
  /\ Done(r) /\ UNCHANGED content

Claims_Blindly(a) == action[a].status # "none"

Claims(a) == action[a].status = "proposed"   \* UPDATE ... WHERE status = PROPOSED

Effect(r, status) ==
  LET a == req[r].act  p == action[a]  v == section.ver IN
  /\ effects' = [effects EXCEPT ![a] = @ + 1]
  /\ IF p.kind = "create"
     THEN /\ SetStatus(a, status) /\ UNCHANGED <<section, edit>>
     ELSE /\ section' = [ver |-> v + 1, text |-> p.text]
          /\ action' = [action EXCEPT ![a].status = status, ![a].after = v + 1]
          /\ edit' = [edit EXCEPT ![a] = [from |-> v, to |-> v + 1,
                                          before |-> section.text, text |-> p.text]]
  /\ UNCHANGED <<engine, evidence, outside>>

Reviewed_Anything(p) == TRUE

Reviewed(p) == p.kind = "revise" => Current(p)

(* sqlite: one write transaction, committed by RELEASE.                    *)
ClaimSqlite(r) ==
  LET a == req[r].act IN
  /\ engine = "sqlite" /\ At(r, "approve")
  /\ \/ Claims(a) /\ Reviewed(action[a]) /\ Effect(r, "approved") /\ Goto(r, "finish")
     \/ /\ Claims(a) /\ (Reviewed(action[a]) => action[a].kind = "create")
        /\ SetStatus(a, "invalidated") /\ Done(r) /\ UNCHANGED content
     \/ ~Claims(a) /\ Done(r) /\ UNCHANGED <<action, content>>

Finish(r) ==
  /\ At(r, "finish") /\ SetStatus(req[r].act, "executed")
  /\ Done(r) /\ UNCHANGED content

(* postgres: the claim and the first look at the section; a creation is    *)
(* committed with its claim unless it fails.                               *)
ClaimPostgres(r) ==
  LET a == req[r].act IN
  /\ engine = "postgres" /\ At(r, "approve") /\ ~Locked(a)
  /\ \/ /\ Claims(a) /\ action[a].kind = "create"
        /\ Effect(r, "executed") /\ Done(r)
     \/ /\ Claims(a) /\ action[a].kind = "revise" /\ Reviewed(action[a])
        /\ Goto(r, "matched") /\ UNCHANGED <<action, content>>
     \/ /\ ~Claims(a) \/ action[a].kind = "create" \/ ~Reviewed(action[a])
        /\ Goto(r, "failed") /\ UNCHANGED <<action, content>>

(* The section is loaded again, and its version now is what the UPDATE     *)
(* compares.                                                               *)
Reload(r) ==
  /\ At(r, "matched")
  /\ req' = [req EXCEPT ![r].pc = "apply", ![r].sec = section.ver]
  /\ UNCHANGED <<action, content>>

Apply(r) ==
  /\ At(r, "apply")
  /\ IF section.ver = req[r].sec
     THEN Effect(r, "executed") /\ Done(r)
     ELSE Goto(r, "failed") /\ UNCHANGED <<action, content>>

Refresh(r) ==
  /\ At(r, "failed") /\ ~Locked(req[r].act)
  /\ IF action[req[r].act].status = "proposed" THEN Goto(r, "stale") ELSE Done(r)
  /\ UNCHANGED <<action, content>>

(* reject_action.                                                          *)
Reject(r, a) ==
  /\ action[a].status = "proposed" /\ Load(r, "reject", a)
  /\ UNCHANGED <<action, content>>

RejectWrite(r) ==
  LET a == req[r].act IN
  /\ At(r, "reject") /\ ~Locked(a)
  /\ IF Claims(a) THEN SetStatus(a, "rejected") ELSE UNCHANGED action
  /\ Done(r) /\ UNCHANGED content

(* revise_proposal: a person's own text replaces the proposal; an undo is  *)
(* a new proposal with the text before the edit.                           *)
Revise(r, a) ==
  /\ action[a].status = "proposed" /\ action[a].kind = "revise" /\ action[a].ok
  /\ Current(action[a]) /\ LoadContext(r, "revise", a)
  /\ UNCHANGED <<action, content>>

ReviseWrite(r) ==
  LET a == req[r].act IN
  /\ At(r, "revise") /\ ~Locked(a)
  /\ IF Claims(a)
     THEN \E b \in Action, text \in Texts :
            /\ Fresh(b)
            /\ action' = [Propose(b, req[r], text, "revision", a)
                            EXCEPT ![a].status = "invalidated"]
     ELSE UNCHANGED action
  /\ Done(r) /\ UNCHANGED content

UndoBase_AnyVersion(a) == action[a].status = "executed"

UndoBase(a) == action[a].status = "executed" /\ section.ver = action[a].after

Undo(r, a) ==
  /\ action[a].kind = "revise" /\ UndoBase(a) /\ LoadContext(r, "undo", a)
  /\ UNCHANGED <<action, content>>

UndoWrite(r) ==
  /\ At(r, "undo")
  /\ \E b \in Action :
       /\ Fresh(b)
       /\ action' = Propose(b, req[r], action[req[r].act].before, "undo", req[r].act)
  /\ Done(r) /\ UNCHANGED content

(* A request dies or its client goes away: its open transaction is undone. *)
Abort(r) == ~At(r, "idle") /\ Done(r) /\ UNCHANGED <<action, content>>

(* Drafts of a campaign replace sections without a look at their version;  *)
(* evidence is linked and corrected elsewhere.                             *)
Outside ==
  /\ outside < MaxOutside /\ outside' = outside + 1
  /\ \/ /\ \E text \in Texts : section' = [ver |-> section.ver + 1, text |-> text]
        /\ UNCHANGED evidence
     \/ evidence' = evidence + 1 /\ UNCHANGED section
  /\ UNCHANGED <<engine, action, req, effects, edit>>

DialogueNext ==
  \/ \E r \in Requests :
       \/ Ask(r) \/ Answer(r) \/ Invalidate(r) \/ ClaimSqlite(r) \/ Finish(r)
       \/ ClaimPostgres(r) \/ Reload(r) \/ Apply(r) \/ Refresh(r) \/ RejectWrite(r)
       \/ ReviseWrite(r) \/ UndoWrite(r) \/ Abort(r)
       \/ \E a \in Action : Approve(r, a) \/ Reject(r, a) \/ Revise(r, a) \/ Undo(r, a)
  \/ Outside

DialogueSpec == DialogueInit /\ [][DialogueNext]_dvars

-----------------------------------------------------------------------------
(* Properties.                                                             *)

(* The review gate.  Whatever requests run at once, an action takes effect *)
(* only while it is open, at most once, and never after it was rejected or *)
(* replaced (dialogue.py: "bound to the plan hash the reviewer saw").      *)
Phase(a) ==
  CASE effects[a] > 0 -> "taken"
    [] action[a].status = "none" -> "absent"
    [] action[a].status = "proposed" -> "open"
    [] OTHER -> "declined"

Gate == INSTANCE ApprovedAction WITH Actions <- Action, effects <- effects,
                                     phase <- [a \in Action |-> Phase(a)]
Gated == Gate!Spec

(* Every edit replaces the very version of the section that its proposal   *)
(* showed to the reviewer (manuscript_chat.py: "optimistic, review-gated   *)
(* prose revisions").                                                      *)
EditsAsReviewed ==
  \A a \in Action : effects[a] > 0 /\ action[a].kind = "revise" => edit[a].from = action[a].sec

(* On sqlite that holds for every interleaving.                            *)
SqliteEditsAsReviewed == engine = "sqlite" => EditsAsReviewed

(* An executed undo gives back the text that the undone edit replaced, and *)
(* loses no edit made in between.                                          *)
UndoRestores ==
  engine = "sqlite" =>
    \A a \in Action : LET p == action[a].prev IN
      action[a].origin = "undo" /\ effects[a] > 0 =>
        /\ effects[p] > 0 /\ edit[a].from = edit[p].to
        /\ edit[a].text = edit[p].before
=============================================================================
