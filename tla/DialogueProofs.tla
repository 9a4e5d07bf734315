--------------------------- MODULE DialogueProofs ---------------------------
(***************************************************************************)
(* DialogueActions implements ApprovedAction, on either database, for any  *)
(* number of overlapping requests, of proposed actions and of changes from *)
(* outside: proofs.  The types come last: how far a version can get is a   *)
(* count of the actions that took effect.                                  *)
(***************************************************************************)
EXTENDS DialogueActions, FiniteSetTheorems, TLAPS

(* Types without the bounds on versions, which the review gate does not    *)
(* rest on.                                                                *)
Words == Texts \cup {NoText}
AnyRow == [status : Status, kind : {"revise", "create"}, ok : BOOLEAN,
           sec : Nat, ev : Nat, text : Words, before : Words,
           origin : {"assistant", "revision", "undo"}, prev : {0} \cup Action, after : Nat]
AnyRequest == [pc : {"idle", "turn", "approve", "mismatch", "reject", "revise", "undo",
                     "matched", "apply", "finish", "failed", "stale"},
               act : {0} \cup Action, sec : Nat, ev : Nat, text : Words]

Shape ==
  /\ engine \in {"sqlite", "postgres"}
  /\ action \in [Action -> AnyRow]
  /\ section \in [ver : Nat, text : Words] /\ evidence \in Nat
  /\ req \in [Requests -> AnyRequest]
  /\ effects \in [Action -> {0, 1}]

Holds(r) == req[r].pc \in {"matched", "apply"}   \* the lock of the row it claims

(* An open action had no effect yet; a request names an action that        *)
(* exists; a claim that is not yet committed keeps its action open and is  *)
(* the only one; a status written after an effect belongs to an action     *)
(* that was taken.                                                         *)
Sound ==
  /\ Shape
  /\ \A a \in Action : action[a].status \in {"none", "proposed"} => effects[a] = 0
  /\ \A r \in Requests : req[r].pc \notin {"idle", "turn"} =>
       req[r].act \in Action /\ action[req[r].act].status # "none"
  /\ \A r \in Requests : At(r, "finish") => engine = "sqlite" /\ effects[req[r].act] = 1
  /\ \A r \in Requests : Holds(r) =>
       /\ engine = "postgres" /\ action[req[r].act].status = "proposed"
       /\ \A q \in Requests : Holds(q) /\ req[q].act = req[r].act => q = r

(* The gate's phases.                                                      *)
phases == [a \in Action |-> Phase(a)]

-----------------------------------------------------------------------------
LEMMA InitSound == DialogueInit => Sound
<1> SUFFICES ASSUME DialogueInit PROVE Sound
  OBVIOUS
<1>1. NoRow \in AnyRow /\ NoRow.status = "none"
  BY DEF NoRow, AnyRow, Status, Words
<1>2. Idle \in AnyRequest /\ Idle.pc = "idle"
  BY DEF Idle, AnyRequest, Words
<1>3. Shape
  <2>1. engine \in {"sqlite", "postgres"} /\ evidence \in Nat
    BY DialogueAssumptions DEF DialogueInit
  <2>2. section \in [ver : Nat, text : Words]
    BY DEF DialogueInit, Words
  <2>3. action \in [Action -> AnyRow] /\ req \in [Requests -> AnyRequest]
    BY <1>1, <1>2 DEF DialogueInit
  <2>4. effects \in [Action -> {0, 1}]
    BY DEF DialogueInit
  <2> QED BY <2>1, <2>2, <2>3, <2>4 DEF Shape
<1> QED BY <1>1, <1>2, <1>3 DEF DialogueInit, Sound, At, Holds

(* What a step of request r has to respect: no row goes away, no effect is *)
(* undone, an open action has none, rows that others hold stay open.       *)
Respects(r) ==
  /\ UNCHANGED engine /\ Shape'
  /\ \A q \in Requests \ {r} : req'[q] = req[q]
  /\ \A a \in Action :
       /\ action[a].status # "none" => action'[a].status # "none"
       /\ effects[a] = 1 => effects'[a] = 1
       /\ action'[a].status \in {"none", "proposed"} => effects'[a] = 0
  /\ \A q \in Requests \ {r} : Holds(q) => action'[req[q].act].status = "proposed"

LEMMA StepSound ==
  ASSUME Sound, NEW r \in Requests, Respects(r),
         req'[r].pc \notin {"idle", "turn"} =>
           req'[r].act \in Action /\ action'[req'[r].act].status # "none",
         req'[r].pc = "finish" => engine = "sqlite" /\ effects'[req'[r].act] = 1,
         req'[r].pc \in {"matched", "apply"} =>
           /\ engine = "postgres" /\ action'[req'[r].act].status = "proposed"
           /\ \A q \in Requests \ {r} : Holds(q) => req[q].act # req'[r].act
  PROVE  Sound'
<1>1. Shape' /\ UNCHANGED engine
  BY DEF Respects
<1>2. \A a \in Action : action'[a].status \in {"none", "proposed"} => effects'[a] = 0
  BY DEF Respects
<1>3. \A q \in Requests : req'[q].pc \notin {"idle", "turn"} =>
        req'[q].act \in Action /\ action'[req'[q].act].status # "none"
  BY DEF Respects, Sound
<1>4. \A q \in Requests : req'[q].pc = "finish" =>
        engine = "sqlite" /\ effects'[req'[q].act] = 1
  BY DEF Respects, Sound, At
<1>5. \A q \in Requests : req'[q].pc \in {"matched", "apply"} =>
        /\ engine = "postgres" /\ action'[req'[q].act].status = "proposed"
        /\ \A p \in Requests : req'[p].pc \in {"matched", "apply"} /\ req'[p].act = req'[q].act => p = q
  BY DEF Respects, Sound, Holds
<1> QED BY <1>1, <1>2, <1>3, <1>4, <1>5 DEF Sound, At, Holds

(* Steps that write no row: the request moves on.                          *)
LEMMA QuietSound ==
  ASSUME Sound, NEW r \in Requests, NEW new \in AnyRequest,
         req' = [req EXCEPT ![r] = new], UNCHANGED <<action, engine, section, evidence, effects>>,
         new.pc \notin {"idle", "turn"} => new.act \in Action /\ action[new.act].status # "none",
         new.pc = "finish" => At(r, "finish") /\ new.act = req[r].act,
         new.pc \in {"matched", "apply"} =>
           /\ engine = "postgres" /\ action[new.act].status = "proposed"
           /\ \A q \in Requests \ {r} : Holds(q) => req[q].act # new.act
  PROVE  Sound' /\ UNCHANGED <<phases, effects>>
<1>1. req'[r] = new /\ \A q \in Requests \ {r} : req'[q] = req[q]
  BY DEF Sound, Shape
<1>2. Shape'
  BY DEF Sound, Shape
<1>3. Respects(r)
  BY <1>1, <1>2 DEF Respects, Sound
<1>4. new.pc = "finish" => engine = "sqlite" /\ effects'[new.act] = 1
  BY DEF Sound
<1>5. Sound'
  BY <1>1, <1>3, <1>4, StepSound
<1>6. UNCHANGED <<phases, effects>>
  BY DEF phases, Phase
<1> QED BY <1>5, <1>6

(* A step that returns the request and sets the status of one action.      *)
LEMMA StatusWritten ==
  ASSUME Sound, NEW a \in Action, NEW s \in Status, SetStatus(a, s)
  PROVE  /\ action' \in [Action -> AnyRow] /\ action'[a].status = s
         /\ \A b \in Action \ {a} : action'[b] = action[b]
<1>1. action[a] \in AnyRow
  BY DEF Sound, Shape
<1>2. [action[a] EXCEPT !.status = s] \in AnyRow /\ [action[a] EXCEPT !.status = s].status = s
  BY <1>1 DEF AnyRow
<1>3. action' = [action EXCEPT ![a] = [action[a] EXCEPT !.status = s]]
  BY DEF SetStatus
<1> QED BY <1>2, <1>3 DEF Sound, Shape

(* Declining, by a reviewer or because the plan is out of date: an action  *)
(* that was taken stays taken.                                             *)
LEMMA Declines ==
  ASSUME Sound, NEW r \in Requests, NEW a \in Action, NEW s \in {"invalidated", "rejected"},
         SetStatus(a, s), Done(r), action[a].status # "none",
         \A q \in Requests \ {r} : Holds(q) => req[q].act # a,
         UNCHANGED <<engine, section, evidence, effects>>
  PROVE  Sound' /\ [Gate!Next]_<<phases, effects>>
<1>1. /\ action' \in [Action -> AnyRow] /\ action'[a].status = s
      /\ \A b \in Action \ {a} : action'[b] = action[b]
  BY StatusWritten DEF Status
<1>2. /\ req'[r] = Idle /\ \A q \in Requests \ {r} : req'[q] = req[q]
      /\ req' \in [Requests -> AnyRequest] /\ Idle.pc = "idle"
  <2>1. Idle \in AnyRequest
    BY DEF Idle, AnyRequest, Words
  <2> QED BY <2>1 DEF Done, Idle, Sound, Shape
<1>3. Shape'
  BY <1>1, <1>2 DEF Sound, Shape
<1>4. Respects(r)
  BY <1>1, <1>2, <1>3 DEF Respects, Sound, Holds
<1>5. Sound'
  BY <1>2, <1>4, StepSound
<1>6. \A b \in Action \ {a} : phases'[b] = phases[b]
  BY <1>1 DEF phases, Phase
<1>7. phases'[a] = IF effects[a] > 0 THEN "taken" ELSE "declined"
  BY <1>1 DEF phases, Phase
<1>8. phases[a] = IF effects[a] > 0 THEN "taken"
                  ELSE IF action[a].status = "proposed" THEN "open" ELSE "declined"
  <2>1. phases[a] = Phase(a) /\ action[a].status # "none"
    BY DEF phases
  <2>2. CASE effects[a] > 0
    <3>1. Phase(a) = "taken"
      BY <2>1, <2>2 DEF Phase, Sound
    <3> QED BY <2>1, <2>2, <3>1
  <2>3. CASE ~(effects[a] > 0) /\ action[a].status = "proposed"
    <3>1. Phase(a) = "open"
      BY <2>3 DEF Phase
    <3> QED BY <2>1, <2>3, <3>1
  <2>4. CASE ~(effects[a] > 0) /\ action[a].status # "proposed"
    <3>1. Phase(a) = "declined"
      BY <2>1, <2>4 DEF Phase
    <3> QED BY <2>1, <2>4, <3>1
  <2> QED BY <2>2, <2>3, <2>4
<1>9. CASE phases[a] = "open"
  <2>1. phases'[a] = "declined"
    BY <1>7, <1>8, <1>9
  <2>2. phases' = [phases EXCEPT ![a] = "declined"]
    BY <1>6, <2>1 DEF phases
  <2>3. Gate!Decline(a)
    BY <1>9, <2>2 DEF Gate!Decline, Gate!Move, phases
  <2> QED BY <1>5, <2>3 DEF Gate!Next
<1>10. CASE phases[a] # "open"
  <2>1. phases'[a] = phases[a]
    BY <1>7, <1>8, <1>10
  <2>2. phases' = phases
    BY <1>6, <2>1 DEF phases
  <2> QED BY <1>5, <2>2
<1> QED BY <1>9, <1>10

(* An open action takes effect.                                            *)
LEMMA Takes ==
  ASSUME Sound, NEW r \in Requests, NEW s \in {"approved", "executed"}, NEW new \in AnyRequest,
         NEW a \in Action, a = req[r].act, Claims(a), Effect(r, s),
         req' = [req EXCEPT ![r] = new],
         \A q \in Requests \ {r} : Holds(q) => req[q].act # a,
         \/ new.pc = "idle"
         \/ new.pc = "finish" /\ new.act = a /\ engine = "sqlite"
  PROVE  Sound' /\ [Gate!Next]_<<phases, effects>>
<1>1. action[a] \in AnyRow /\ action[a].status = "proposed" /\ effects[a] = 0
      /\ section \in [ver : Nat, text : Words]
  BY DEF Sound, Shape, Claims
<1>2. effects' = [effects EXCEPT ![a] = effects[a] + 1] /\ UNCHANGED <<engine, evidence>>
  BY DEF Effect
<1>3. /\ action' \in [Action -> AnyRow] /\ action'[a].status = s
      /\ \A b \in Action \ {a} : action'[b] = action[b]
  <2>1. CASE action[a].kind = "create"
    <3>1. SetStatus(a, s)
      BY <2>1 DEF Effect
    <3> QED BY <3>1, StatusWritten DEF Status
  <2>2. CASE action[a].kind # "create"
    <3> DEFINE new_row == [action[a] EXCEPT !.status = s, !.after = section.ver + 1]
    <3>1. action' = [action EXCEPT ![a] = new_row]
      BY <2>2 DEF Effect
    <3>2. section.ver + 1 \in Nat
      BY <1>1
    <3>3. new_row \in AnyRow /\ new_row.status = s
      BY <1>1, <3>2 DEF AnyRow, Status
    <3> HIDE DEF new_row
    <3> QED BY <3>1, <3>3 DEF Sound, Shape
  <2> QED BY <2>1, <2>2
<1>4. section' \in [ver : Nat, text : Words]
  BY <1>1 DEF Effect, AnyRow
<1>5. /\ effects' \in [Action -> {0, 1}] /\ effects'[a] = 1
      /\ \A b \in Action \ {a} : effects'[b] = effects[b]
  BY <1>1, <1>2 DEF Sound, Shape
<1>6. /\ req'[r] = new /\ \A q \in Requests \ {r} : req'[q] = req[q]
      /\ req' \in [Requests -> AnyRequest]
  BY DEF Sound, Shape
<1>7. Shape'
  BY <1>2, <1>3, <1>4, <1>5, <1>6 DEF Sound, Shape
<1>8. Respects(r)
  BY <1>1, <1>2, <1>3, <1>5, <1>6, <1>7 DEF Respects, Sound, Holds
<1>9. Sound'
  BY <1>3, <1>5, <1>6, <1>8, StepSound
<1>10. phases[a] = "open" /\ phases'[a] = "taken"
  <2>1. phases[a] = Phase(a) /\ phases'[a] = Phase(a)'
    BY DEF phases
  <2>2. Phase(a) = "open"
    BY <1>1 DEF Phase
  <2>3. Phase(a)' = "taken"
    BY <1>3, <1>5 DEF Phase
  <2> QED BY <2>1, <2>2, <2>3
<1>11. \A b \in Action \ {a} : phases'[b] = phases[b]
  BY <1>3, <1>5 DEF phases, Phase
<1>12. phases' = [phases EXCEPT ![a] = "taken"]
  BY <1>10, <1>11 DEF phases
<1>13. Gate!Take(a)
  BY <1>2, <1>10, <1>12 DEF Gate!Take, Gate!Move, phases
<1> QED BY <1>9, <1>13 DEF Gate!Next

(* A new proposal, in a row nobody used.                                   *)
LEMMA Offers ==
  ASSUME Sound, NEW r \in Requests, NEW b \in Action, NEW new_row \in AnyRow,
         Fresh(b), new_row.status = "proposed", action' = [action EXCEPT ![b] = new_row], Done(r),
         UNCHANGED content
  PROVE  Sound' /\ [Gate!Next]_<<phases, effects>>
<1>1. action[b].status = "none" /\ effects[b] = 0
  BY DEF Fresh, Sound
<1>2. /\ action' \in [Action -> AnyRow] /\ action'[b].status = "proposed"
      /\ \A a \in Action \ {b} : action'[a] = action[a]
  BY DEF Sound, Shape
<1>3. Idle \in AnyRequest /\ Idle.pc = "idle"
  BY DEF Idle, AnyRequest, Words
<1>4. /\ req'[r] = Idle /\ \A q \in Requests \ {r} : req'[q] = req[q]
      /\ req' \in [Requests -> AnyRequest]
  BY <1>3 DEF Done, Sound, Shape
<1>5. UNCHANGED <<engine, section, evidence, effects>>
  BY DEF content
<1>6. Shape'
  BY <1>2, <1>4, <1>5 DEF Sound, Shape
<1>7. Respects(r)
  BY <1>1, <1>2, <1>4, <1>5, <1>6 DEF Respects, Sound, Holds
<1>8. Sound'
  BY <1>3, <1>4, <1>7, StepSound
<1>9. phases[b] = "absent" /\ phases'[b] = "open"
  BY <1>1, <1>2, <1>5 DEF phases, Phase
<1>10. phases' = [phases EXCEPT ![b] = "open"]
  <2>1. \A a \in Action \ {b} : phases'[a] = phases[a]
    BY <1>2, <1>5 DEF phases, Phase
  <2> QED BY <1>9, <2>1 DEF phases
<1>11. Gate!Offer(b)
  BY <1>5, <1>9, <1>10 DEF Gate!Offer, Gate!Move, phases
<1> QED BY <1>8, <1>11 DEF Gate!Next

(* A person's own text in the place of a proposal.                         *)
LEMMA Replaces ==
  ASSUME Sound, NEW r \in Requests, NEW a \in Action, NEW b \in Action, NEW new_row \in AnyRow,
         Fresh(b), Claims(a), new_row.status = "proposed", Done(r), UNCHANGED content,
         action' = [[action EXCEPT ![b] = new_row] EXCEPT ![a].status = "invalidated"],
         \A q \in Requests \ {r} : Holds(q) => req[q].act # a
  PROVE  Sound' /\ [Gate!Next]_<<phases, effects>>
<1>1. /\ action[b].status = "none" /\ action[a].status = "proposed" /\ a # b
      /\ effects[a] = 0 /\ effects[b] = 0 /\ action[a] \in AnyRow
  BY DEF Fresh, Claims, Sound, Shape
<1>2. /\ [action[a] EXCEPT !.status = "invalidated"] \in AnyRow
      /\ [action[a] EXCEPT !.status = "invalidated"].status = "invalidated"
  BY <1>1 DEF AnyRow, Status
<1>3. /\ action' \in [Action -> AnyRow]
      /\ action'[b].status = "proposed" /\ action'[a].status = "invalidated"
      /\ \A c \in Action \ {a, b} : action'[c] = action[c]
  BY <1>1, <1>2 DEF Sound, Shape
<1>4. Idle \in AnyRequest /\ Idle.pc = "idle"
  BY DEF Idle, AnyRequest, Words
<1>5. /\ req'[r] = Idle /\ \A q \in Requests \ {r} : req'[q] = req[q]
      /\ req' \in [Requests -> AnyRequest]
  BY <1>4 DEF Done, Sound, Shape
<1>6. UNCHANGED <<engine, section, evidence, effects>>
  BY DEF content
<1>7. Shape'
  BY <1>3, <1>5, <1>6 DEF Sound, Shape
<1>8. Respects(r)
  BY <1>1, <1>3, <1>5, <1>6, <1>7 DEF Respects, Sound, Holds
<1>9. Sound'
  BY <1>4, <1>5, <1>8, StepSound
<1>10. /\ phases[a] = "open" /\ phases'[a] = "declined"
       /\ phases[b] = "absent" /\ phases'[b] = "open"
  BY <1>1, <1>3, <1>6 DEF phases, Phase
<1>11. phases' = [phases EXCEPT ![a] = "declined", ![b] = "open"]
  <2>1. \A c \in Action \ {a, b} : phases'[c] = phases[c]
    BY <1>3, <1>6 DEF phases, Phase
  <2> QED BY <1>1, <1>10, <2>1 DEF phases
<1>12. Gate!Replace(a, b)
  BY <1>1, <1>6, <1>10, <1>11 DEF Gate!Replace, phases
<1> QED BY <1>9, <1>12 DEF Gate!Next

-----------------------------------------------------------------------------
(* What the requests do.                                                   *)
LEMMA LoadQuiet ==
  ASSUME Sound, NEW r \in Requests, NEW a \in {0} \cup Action,
         NEW pc \in {"turn", "approve", "mismatch", "reject", "revise", "undo"},
         Load(r, pc, a) \/ LoadContext(r, pc, a), UNCHANGED <<action, content>>,
         pc # "turn" => a \in Action /\ action[a].status # "none"
  PROVE  Sound' /\ UNCHANGED <<phases, effects>>
<1>1. CASE Load(r, pc, a)
  <2> DEFINE new == [req[r] EXCEPT !.pc = pc, !.act = a]
  <2>1. req[r] \in AnyRequest
    BY DEF Sound, Shape
  <2>2. new \in AnyRequest /\ new.pc = pc /\ new.act = a
    BY <2>1 DEF AnyRequest
  <2>3. req' = [req EXCEPT ![r] = new]
    BY <1>1 DEF Load
  <2> HIDE DEF new
  <2> QED BY <2>2, <2>3, QuietSound DEF content
<1>2. CASE LoadContext(r, pc, a)
  <2> DEFINE new == [pc |-> pc, act |-> a, sec |-> section.ver, ev |-> evidence, text |-> section.text]
  <2>1. new \in AnyRequest /\ new.pc = pc /\ new.act = a
    BY DEF Sound, Shape, AnyRequest
  <2>2. req' = [req EXCEPT ![r] = new]
    BY <1>2 DEF LoadContext
  <2> HIDE DEF new
  <2> QED BY <2>1, <2>2, QuietSound DEF content
<1> QED BY <1>1, <1>2

LEMMA DoneQuiet ==
  ASSUME Sound, NEW r \in Requests, Done(r), UNCHANGED <<action, content>>
  PROVE  Sound' /\ UNCHANGED <<phases, effects>>
<1>1. Idle \in AnyRequest /\ Idle.pc = "idle"
  BY DEF Idle, AnyRequest, Words
<1> QED BY <1>1, QuietSound DEF Done, content

LEMMA GotoQuiet ==
  ASSUME Sound, NEW r \in Requests, NEW pc \in {"matched", "failed", "stale"}, Goto(r, pc),
         UNCHANGED <<action, content>>, req[r].pc \notin {"idle", "turn"},
         pc = "matched" => engine = "postgres" /\ Claims(req[r].act) /\ ~Locked(req[r].act)
  PROVE  Sound' /\ UNCHANGED <<phases, effects>>
<1> DEFINE new == [req[r] EXCEPT !.pc = pc]
<1>1. req[r] \in AnyRequest
  BY DEF Sound, Shape
<1>2. new \in AnyRequest /\ new.pc = pc /\ new.act = req[r].act
  BY <1>1 DEF AnyRequest
<1>3. req' = [req EXCEPT ![r] = new]
  BY DEF Goto
<1>4. new.act \in Action /\ action[new.act].status # "none"
  BY <1>2 DEF Sound
<1>5. pc = "matched" => /\ engine = "postgres" /\ action[new.act].status = "proposed"
                        /\ \A q \in Requests \ {r} : Holds(q) => req[q].act # new.act
  BY <1>2 DEF Claims, Locked, Holds
<1> HIDE DEF new
<1> QED BY <1>2, <1>3, <1>4, <1>5, QuietSound DEF content

LEMMA ProposedRow ==
  ASSUME Sound, NEW r \in Requests, NEW b \in Action, NEW text \in Words,
         NEW origin \in {"assistant", "revision", "undo"}, NEW prev \in {0} \cup Action
  PROVE  \E new_row \in AnyRow :
           /\ new_row.status = "proposed"
           /\ Propose(b, req[r], text, origin, prev) = [action EXCEPT ![b] = new_row]
<1> DEFINE new_row == [status |-> "proposed", kind |-> "revise", ok |-> TRUE, sec |-> req[r].sec,
                       ev |-> req[r].ev, text |-> text, before |-> req[r].text,
                       origin |-> origin, prev |-> prev, after |-> 0]
<1>1. req[r] \in AnyRequest
  BY DEF Sound, Shape
<1>2. new_row \in AnyRow /\ new_row.status = "proposed"
  BY <1>1 DEF AnyRequest, AnyRow, Status
<1>3. Propose(b, req[r], text, origin, prev) = [action EXCEPT ![b] = new_row]
  BY DEF Propose
<1> QED BY <1>2, <1>3

LEMMA AnswerSound ==
  ASSUME Sound, NEW r \in Requests, Answer(r)
  PROVE  Sound' /\ [Gate!Next]_<<phases, effects>>
<1>1. PICK a \in Action :
        /\ Fresh(a)
        /\ \/ \E text \in Texts : action' = Propose(a, req[r], text, "assistant", 0)
           \/ \E ok \in BOOLEAN : action' = ProposeOther(a, ok)
  BY DEF Answer
<1>2. CASE \E text \in Texts : action' = Propose(a, req[r], text, "assistant", 0)
  <2>1. PICK text \in Words : action' = Propose(a, req[r], text, "assistant", 0)
    BY <1>2 DEF Words
  <2>2. PICK new_row \in AnyRow : /\ new_row.status = "proposed"
                                  /\ action' = [action EXCEPT ![a] = new_row]
    BY <2>1, ProposedRow
  <2> QED BY <1>1, <2>2, Offers DEF Answer
<1>3. CASE \E ok \in BOOLEAN : action' = ProposeOther(a, ok)
  <2>1. PICK ok \in BOOLEAN : action' = ProposeOther(a, ok)
    BY <1>3
  <2> DEFINE new_row == [NoRow EXCEPT !.status = "proposed", !.ok = ok]
  <2>2. new_row \in AnyRow /\ new_row.status = "proposed"
    BY DEF NoRow, AnyRow, Status, Words
  <2>3. action' = [action EXCEPT ![a] = new_row]
    BY <2>1 DEF ProposeOther
  <2> QED BY <1>1, <2>2, <2>3, Offers DEF Answer
<1> QED BY <1>1, <1>2, <1>3

LEMMA ClaimSqliteSound ==
  ASSUME Sound, NEW r \in Requests, ClaimSqlite(r)
  PROVE  Sound' /\ [Gate!Next]_<<phases, effects>>
<1> DEFINE a == req[r].act
<1>1. engine = "sqlite" /\ At(r, "approve") /\ a \in Action /\ action[a].status # "none"
  BY DEF ClaimSqlite, At, Sound
<1>2. \A q \in Requests : ~Holds(q)
  BY <1>1 DEF Sound
<1>3. CASE Claims(a) /\ Effect(r, "approved") /\ Goto(r, "finish")
  <2> DEFINE new == [req[r] EXCEPT !.pc = "finish"]
  <2>1. new \in AnyRequest /\ new.pc = "finish" /\ new.act = a
    BY DEF Sound, Shape, AnyRequest
  <2>2. req' = [req EXCEPT ![r] = new]
    BY <1>3 DEF Goto
  <2> HIDE DEF new
  <2> QED BY <1>1, <1>2, <1>3, <2>1, <2>2, Takes
<1>4. CASE Claims(a) /\ SetStatus(a, "invalidated") /\ Done(r) /\ UNCHANGED content
  BY <1>1, <1>2, <1>4, Declines DEF content
<1>5. CASE Done(r) /\ UNCHANGED <<action, content>>
  BY <1>5, DoneQuiet
<1> QED BY <1>3, <1>4, <1>5 DEF ClaimSqlite

LEMMA FinishSound ==
  ASSUME Sound, NEW r \in Requests, Finish(r)
  PROVE  Sound' /\ UNCHANGED <<phases, effects>>
<1> DEFINE a == req[r].act
<1>1. /\ a \in Action /\ effects[a] = 1 /\ engine = "sqlite" /\ SetStatus(a, "executed") /\ Done(r)
      /\ UNCHANGED <<engine, section, evidence, effects>>
  BY DEF Finish, At, Sound, content
<1>2. /\ action' \in [Action -> AnyRow] /\ action'[a].status = "executed"
      /\ \A b \in Action \ {a} : action'[b] = action[b]
  BY <1>1, StatusWritten DEF Status
<1>3. Idle \in AnyRequest /\ Idle.pc = "idle"
  BY DEF Idle, AnyRequest, Words
<1>4. /\ req'[r] = Idle /\ \A q \in Requests \ {r} : req'[q] = req[q]
      /\ req' \in [Requests -> AnyRequest]
  BY <1>1, <1>3 DEF Done, Sound, Shape
<1>5. Shape'
  BY <1>1, <1>2, <1>4 DEF Sound, Shape
<1>6. Respects(r)
  BY <1>1, <1>2, <1>4, <1>5 DEF Respects, Sound, Holds
<1>7. Sound'
  BY <1>3, <1>4, <1>6, StepSound
<1>8. \A b \in Action : Phase(b)' = Phase(b)
  BY <1>1, <1>2 DEF Phase
<1> QED BY <1>1, <1>7, <1>8 DEF phases

LEMMA ClaimPostgresSound ==
  ASSUME Sound, NEW r \in Requests, ClaimPostgres(r)
  PROVE  Sound' /\ [Gate!Next]_<<phases, effects>>
<1> DEFINE a == req[r].act
<1>1. engine = "postgres" /\ At(r, "approve") /\ ~Locked(a) /\ a \in Action
  BY DEF ClaimPostgres, At, Sound
<1>2. CASE Claims(a) /\ Effect(r, "executed") /\ Done(r)
  <2>1. Idle \in AnyRequest /\ Idle.pc = "idle"
    BY DEF Idle, AnyRequest, Words
  <2> QED BY <1>1, <1>2, <2>1, Takes DEF Done, Locked, Holds
<1>3. CASE Claims(a) /\ Goto(r, "matched") /\ UNCHANGED <<action, content>>
  BY <1>1, <1>3, GotoQuiet DEF At
<1>4. CASE Goto(r, "failed") /\ UNCHANGED <<action, content>>
  BY <1>1, <1>4, GotoQuiet DEF At
<1> QED BY <1>2, <1>3, <1>4 DEF ClaimPostgres

LEMMA ReloadSound ==
  ASSUME Sound, NEW r \in Requests, Reload(r)
  PROVE  Sound' /\ UNCHANGED <<phases, effects>>
<1> DEFINE new == [req[r] EXCEPT !.pc = "apply", !.sec = section.ver]
<1>1. new \in AnyRequest /\ new.pc = "apply" /\ new.act = req[r].act
  <2>1. req[r] \in AnyRequest /\ section.ver \in Nat
    BY DEF Sound, Shape
  <2> QED BY <2>1 DEF AnyRequest
<1>2. req' = [req EXCEPT ![r] = new]
  BY DEF Reload
<1>3. /\ Holds(r) /\ new.act \in Action /\ engine = "postgres"
      /\ action[new.act].status = "proposed"
      /\ \A q \in Requests \ {r} : Holds(q) => req[q].act # new.act
  BY <1>1 DEF Reload, At, Holds, Sound
<1> HIDE DEF new
<1> QED BY <1>1, <1>2, <1>3, QuietSound DEF Reload, content

LEMMA ApplySound ==
  ASSUME Sound, NEW r \in Requests, Apply(r)
  PROVE  Sound' /\ [Gate!Next]_<<phases, effects>>
<1>1. /\ Holds(r) /\ req[r].act \in Action /\ Claims(req[r].act) /\ req[r].pc = "apply"
      /\ \A q \in Requests \ {r} : Holds(q) => req[q].act # req[r].act
  BY DEF Apply, At, Holds, Sound, Claims
<1>2. CASE Effect(r, "executed") /\ Done(r)
  <2>1. Idle \in AnyRequest /\ Idle.pc = "idle"
    BY DEF Idle, AnyRequest, Words
  <2> QED BY <1>1, <1>2, <2>1, Takes DEF Done
<1>3. CASE Goto(r, "failed") /\ UNCHANGED <<action, content>>
  BY <1>1, <1>3, GotoQuiet
<1> QED BY <1>2, <1>3 DEF Apply

LEMMA WritesSound ==
  ASSUME Sound, NEW r \in Requests,
         Invalidate(r) \/ RejectWrite(r) \/ ReviseWrite(r) \/ UndoWrite(r)
  PROVE  Sound' /\ [Gate!Next]_<<phases, effects>>
<1> DEFINE a == req[r].act
<1>1. /\ a \in Action /\ action[a].status # "none"
      /\ ~Locked(a) => \A q \in Requests \ {r} : Holds(q) => req[q].act # a
  BY DEF Invalidate, RejectWrite, ReviseWrite, UndoWrite, At, Sound, Locked, Holds
<1>2. CASE Invalidate(r)
  BY <1>1, <1>2, Declines DEF Invalidate, content
<1>3. CASE RejectWrite(r)
  <2>1. CASE Claims(a)
    BY <1>1, <1>3, <2>1, Declines DEF RejectWrite, content
  <2>2. CASE ~Claims(a)
    BY <1>3, <2>2, DoneQuiet DEF RejectWrite
  <2> QED BY <2>1, <2>2
<1>4. CASE ReviseWrite(r)
  <2>1. CASE Claims(a)
    <3>1. PICK b \in Action, text \in Texts :
            /\ Fresh(b)
            /\ action' = [Propose(b, req[r], text, "revision", a) EXCEPT ![a].status = "invalidated"]
      BY <1>4, <2>1 DEF ReviseWrite
    <3>2. PICK new_row \in AnyRow :
            /\ new_row.status = "proposed"
            /\ Propose(b, req[r], text, "revision", a) = [action EXCEPT ![b] = new_row]
      BY <1>1, ProposedRow DEF Words
    <3> QED BY <1>1, <1>4, <2>1, <3>1, <3>2, Replaces DEF ReviseWrite
  <2>2. CASE ~Claims(a)
    BY <1>4, <2>2, DoneQuiet DEF ReviseWrite
  <2> QED BY <2>1, <2>2
<1>5. CASE UndoWrite(r)
  <2>1. PICK b \in Action : /\ Fresh(b)
                            /\ action' = Propose(b, req[r], action[a].before, "undo", a)
    BY <1>5 DEF UndoWrite
  <2>2. action[a].before \in Words
    BY <1>1 DEF Sound, Shape, AnyRow
  <2>3. \E new_row \in AnyRow :
          /\ new_row.status = "proposed"
          /\ Propose(b, req[r], action[a].before, "undo", a) = [action EXCEPT ![b] = new_row]
    <3>1. \A text \in Words, prev \in {0} \cup Action : \E new_row \in AnyRow :
            /\ new_row.status = "proposed"
            /\ Propose(b, req[r], text, "undo", prev) = [action EXCEPT ![b] = new_row]
      BY ProposedRow
    <3>2. a \in {0} \cup Action
      BY <1>1
    <3> HIDE DEF a
    <3> QED BY <2>2, <3>1, <3>2
  <2>4. PICK new_row \in AnyRow : /\ new_row.status = "proposed"
                                  /\ action' = [action EXCEPT ![b] = new_row]
    BY <2>1, <2>3
  <2> QED BY <1>5, <2>1, <2>4, Offers DEF UndoWrite
<1> QED BY <1>2, <1>3, <1>4, <1>5

LEMMA OutsideSound ==
  ASSUME Sound, Outside
  PROVE  Sound' /\ UNCHANGED <<phases, effects>>
<1>1. /\ UNCHANGED <<engine, action, req, effects>>
      /\ section' \in [ver : Nat, text : Words] /\ evidence' \in Nat
  BY DEF Outside, Sound, Shape, Words
<1>2. Sound'
  BY <1>1 DEF Sound, Shape, At, Holds
<1> QED BY <1>1, <1>2 DEF phases, Phase

(* Every step keeps the invariant, and is a step of the gate or none.      *)
LEMMA NextSound ==
  ASSUME Sound, [DialogueNext]_dvars
  PROVE  Sound' /\ [Gate!Next]_<<phases, effects>>
<1>1. CASE UNCHANGED dvars
  <2>1. Sound'
    BY <1>1 DEF dvars, Sound, Shape, At, Holds
  <2> QED BY <1>1, <2>1 DEF dvars, phases, Phase
<1>2. CASE Outside
  BY <1>2, OutsideSound
<1>3. ASSUME NEW r \in Requests, NEW a \in Action,
             Approve(r, a) \/ Reject(r, a) \/ Revise(r, a) \/ Undo(r, a)
      PROVE  Sound' /\ [Gate!Next]_<<phases, effects>>
  <2>1. UNCHANGED <<action, content>> /\ action[a].status # "none"
    BY <1>3 DEF Approve, Reject, Revise, Undo, UndoBase
  <2>2. PICK pc \in {"approve", "mismatch", "reject", "revise", "undo"} :
          Load(r, pc, a) \/ LoadContext(r, pc, a)
    BY <1>3 DEF Approve, Reject, Revise, Undo
  <2> QED BY <2>1, <2>2, LoadQuiet
<1>4. ASSUME NEW r \in Requests, Ask(r)
      PROVE  Sound' /\ [Gate!Next]_<<phases, effects>>
  BY <1>4, LoadQuiet DEF Ask
<1>5. ASSUME NEW r \in Requests, Refresh(r) \/ Abort(r)
      PROVE  Sound' /\ [Gate!Next]_<<phases, effects>>
  <2>1. CASE Done(r) /\ UNCHANGED <<action, content>>
    BY <2>1, DoneQuiet
  <2>2. CASE At(r, "failed") /\ Goto(r, "stale") /\ UNCHANGED <<action, content>>
    BY <2>2, GotoQuiet DEF At
  <2> QED BY <1>5, <2>1, <2>2 DEF Refresh, Abort
<1> QED BY <1>1, <1>2, <1>3, <1>4, <1>5, AnswerSound, ClaimSqliteSound, FinishSound,
           ClaimPostgresSound, ReloadSound, ApplySound, WritesSound DEF DialogueNext

-----------------------------------------------------------------------------
(* An action that is open had no effect, and the row lock of a claim keeps *)
(* it open until its effect.                                               *)
THEOREM SoundHolds == DialogueSpec => []Sound
<1>1. Sound /\ [DialogueNext]_dvars => Sound'
  BY NextSound
<1> QED BY <1>1, InitSound, PTL DEF DialogueSpec

(* The review gate (dialogue.py, approve_action): an action takes effect   *)
(* only while it is open, at most once, never after it was declined or     *)
(* replaced, on either database and for any number of requests.            *)
THEOREM GatedHolds == DialogueSpec => Gated
<1>1. DialogueInit => Gate!Init
  <2> SUFFICES ASSUME DialogueInit PROVE Gate!Init
    OBVIOUS
  <2>1. \A a \in Action : Phase(a) = "absent"
    BY DEF DialogueInit, NoRow, Phase
  <2> QED BY <2>1 DEF DialogueInit, Gate!Init
<1>2. Sound /\ [DialogueNext]_dvars => [Gate!Next]_<<phases, effects>>
  BY NextSound
<1> QED BY <1>1, <1>2, SoundHolds, PTL DEF DialogueSpec, Gated, Gate!Spec, phases

-----------------------------------------------------------------------------
(* On sqlite an edit is made from the version its reviewer saw.  What a    *)
(* request or a proposal remembers of the section was its text at that     *)
(* version; an edit that took effect replaced just that; a pending undo    *)
(* and an undo proposal start from the version the undone edit made.       *)
AnyEdit == [from : Nat, to : Nat, before : Words, text : Words]

Seen(v, text) == v <= section.ver /\ (v = section.ver => text = section.text)

Edited(a) == effects[a] = 1 /\ action[a].kind = "revise"

Replaced(a) ==
  /\ edit[a].from = action[a].sec /\ edit[a].to = action[a].after
  /\ edit[a].before = action[a].before /\ edit[a].text = action[a].text

Undoes(v, a) == a \in Action /\ Edited(a) /\ v = edit[a].to

Remembered ==
  /\ edit \in [Action -> AnyEdit]
  /\ \A a \in Action : action[a].status \in {"approved", "executed"} => effects[a] = 1
  /\ \A r \in Requests :
       /\ req[r].pc \in {"turn", "revise", "undo"} => Seen(req[r].sec, req[r].text)
       /\ req[r].pc = "undo" => Undoes(req[r].sec, req[r].act)
  /\ \A a \in Action :
       /\ action[a].status # "none" /\ action[a].kind = "revise" => Seen(action[a].sec, action[a].before)
       /\ Edited(a) => Replaced(a)
       /\ action[a].status # "none" /\ action[a].origin = "undo" =>
            /\ action[a].kind = "revise" /\ Undoes(action[a].sec, action[a].prev)
            /\ action[a].text = edit[action[a].prev].before

Faithful == engine = "sqlite" => Remembered

LEMMA InitFaithful == DialogueInit => Faithful
<1> SUFFICES ASSUME DialogueInit PROVE Remembered
  BY DEF Faithful
<1>1. NoEdit \in AnyEdit
  BY DEF NoEdit, AnyEdit, Words
<1>2. edit \in [Action -> AnyEdit]
  BY <1>1 DEF DialogueInit
<1>3. \A a \in Action : action[a].status = "none" /\ effects[a] = 0
  BY DEF DialogueInit, NoRow
<1>4. \A r \in Requests : req[r].pc = "idle"
  BY DEF DialogueInit, Idle
<1> QED BY <1>2, <1>3, <1>4 DEF Remembered, Edited

(* Two rows that differ in their status at most.                           *)
Same(p, q) ==
  /\ p.kind = q.kind /\ p.sec = q.sec /\ p.text = q.text /\ p.before = q.before
  /\ p.origin = q.origin /\ p.prev = q.prev /\ p.after = q.after

(* What a request may remember.                                            *)
Recalls(new) ==
  /\ new.pc \in {"turn", "revise", "undo"} => Seen(new.sec, new.text)
  /\ new.pc = "undo" => Undoes(new.sec, new.act)

(* Steps that leave the section and the edits alone, and change the status *)
(* of rows only.                                                           *)
LEMMA StatusFaithful ==
  ASSUME Sound, Remembered, NEW r \in Requests, NEW new \in AnyRequest,
         req' = [req EXCEPT ![r] = new], Recalls(new), UNCHANGED <<section, effects, edit>>,
         \A a \in Action :
           /\ Same(action'[a], action[a])
           /\ action[a].status = "none" => action'[a].status = "none"
           /\ action'[a].status \in {"approved", "executed"} => effects[a] = 1
  PROVE  Remembered'
<1>1. req'[r] = new /\ \A q \in Requests \ {r} : req'[q] = req[q]
  BY DEF Sound, Shape
<1>2. \A a \in Action : Edited(a)' <=> Edited(a)
  BY DEF Edited, Same
<1>3. \A v, text : Seen(v, text)' <=> Seen(v, text)
  BY DEF Seen
<1>4. \A v, a : Undoes(v, a)' <=> Undoes(v, a)
  BY <1>2 DEF Undoes
<1>5. \A q \in Requests :
        /\ req'[q].pc \in {"turn", "revise", "undo"} => Seen(req[q].sec, req[q].text)'
        /\ req'[q].pc = "undo" => Undoes(req[q].sec, req[q].act)'
  BY <1>1, <1>3, <1>4 DEF Remembered, Recalls
<1>6. ASSUME NEW a \in Action
      PROVE  /\ action'[a].status # "none" /\ action'[a].kind = "revise" =>
                   Seen(action[a].sec, action[a].before)'
             /\ Edited(a)' => Replaced(a)'
             /\ action'[a].status # "none" /\ action'[a].origin = "undo" =>
                  /\ action'[a].kind = "revise" /\ Undoes(action[a].sec, action[a].prev)'
                  /\ action'[a].text = edit'[action'[a].prev].before
  <2>1. Same(action'[a], action[a])
    OBVIOUS
  <2>2. action'[a].status # "none" => action[a].status # "none"
    OBVIOUS
  <2> QED BY <1>2, <1>3, <1>4, <2>1, <2>2 DEF Remembered, Replaced, Same
<1> QED BY <1>5, <1>6 DEF Remembered

LEMMA QuietFaithful ==
  ASSUME Sound, Remembered, NEW r \in Requests, NEW new \in AnyRequest,
         req' = [req EXCEPT ![r] = new], Recalls(new), UNCHANGED <<action, content>>
  PROVE  Remembered'
<1>1. \A a \in Action :
        /\ Same(action'[a], action[a])
        /\ action[a].status = "none" => action'[a].status = "none"
        /\ action'[a].status \in {"approved", "executed"} => effects[a] = 1
  BY DEF Same, Remembered
<1>2. UNCHANGED <<section, effects, edit>>
  BY DEF content
<1> QED BY <1>1, <1>2, StatusFaithful

LEMMA IdleRequest == Idle \in AnyRequest /\ Idle.pc = "idle" /\ Recalls(Idle)
  BY DEF Idle, AnyRequest, Words, Recalls

LEMMA DoneFaithful ==
  ASSUME Sound, Remembered, NEW r \in Requests, Done(r), UNCHANGED <<action, content>>
  PROVE  Remembered'
  BY IdleRequest, QuietFaithful DEF Done

(* A status written over whatever the row holds.                           *)
LEMMA WrittenFaithful ==
  ASSUME Sound, Remembered, NEW r \in Requests, NEW a \in Action, NEW s \in Status,
         SetStatus(a, s), Done(r), UNCHANGED content, action[a].status # "none",
         s \in {"approved", "executed"} => effects[a] = 1
  PROVE  Remembered'
<1>1. action'[a] = [action[a] EXCEPT !.status = s] /\ action[a] \in AnyRow
  BY DEF SetStatus, Sound, Shape
<1>2. Same(action'[a], action[a]) /\ action'[a].status = s
  BY <1>1 DEF Same, AnyRow
<1>3. \A b \in Action \ {a} : action'[b] = action[b]
  BY DEF SetStatus, Sound, Shape
<1>4. ASSUME NEW b \in Action
      PROVE  /\ Same(action'[b], action[b])
             /\ action[b].status = "none" => action'[b].status = "none"
             /\ action'[b].status \in {"approved", "executed"} => effects[b] = 1
  <2>1. CASE b = a
    BY <1>2, <2>1
  <2>2. CASE b # a
    BY <1>3, <2>2 DEF Same, Remembered
  <2> QED BY <2>1, <2>2
<1> QED BY <1>4, IdleRequest, StatusFaithful DEF Done, content

(* A new proposal about what its request saw.                              *)
Faithfully(p) ==
  /\ p.kind = "revise" => Seen(p.sec, p.before)
  /\ p.origin = "undo" => /\ p.kind = "revise" /\ Undoes(p.sec, p.prev)
                          /\ p.text = edit[p.prev].before

LEMMA OfferedFaithful ==
  ASSUME Sound, Remembered, NEW r \in Requests, NEW b \in Action, NEW new_row \in AnyRow,
         action[b].status = "none", new_row.status = "proposed", Faithfully(new_row), Done(r),
         action'[b] = new_row, UNCHANGED content,
         \A a \in Action \ {b} :
           /\ Same(action'[a], action[a])
           /\ action[a].status = "none" => action'[a].status = "none"
           /\ action'[a].status \in {"approved", "executed"} => effects[a] = 1
  PROVE  Remembered'
<1>1. effects[b] = 0 /\ UNCHANGED <<section, effects, edit>>
  BY DEF Sound, content
<1>2. \A q \in Requests : req'[q] = req[q] \/ req'[q].pc = "idle"
  BY IdleRequest DEF Done, Sound, Shape
<1>3. \A a \in Action : Edited(a)' <=> Edited(a)
  BY <1>1 DEF Edited, Same
<1>4. \A v, text : Seen(v, text)' <=> Seen(v, text)
  BY <1>1 DEF Seen
<1>5. \A v, a : Undoes(v, a)' <=> Undoes(v, a)
  BY <1>1, <1>3 DEF Undoes
<1>6. \A q \in Requests :
        /\ req'[q].pc \in {"turn", "revise", "undo"} => Seen(req[q].sec, req[q].text)'
        /\ req'[q].pc = "undo" => Undoes(req[q].sec, req[q].act)'
  BY <1>2, <1>4, <1>5 DEF Remembered
<1>7. ASSUME NEW a \in Action
      PROVE  /\ action'[a].status # "none" /\ action'[a].kind = "revise" =>
                   Seen(action[a].sec, action[a].before)'
             /\ Edited(a)' => Replaced(a)'
             /\ action'[a].status # "none" /\ action'[a].origin = "undo" =>
                  /\ action'[a].kind = "revise" /\ Undoes(action[a].sec, action[a].prev)'
                  /\ action'[a].text = edit'[action'[a].prev].before
  <2>1. CASE a = b
    <3>1. ~Edited(a)
      BY <1>1, <2>1 DEF Edited
    <3> QED BY <1>1, <1>3, <1>4, <1>5, <2>1, <3>1 DEF Faithfully
  <2>2. CASE a # b
    <3>1. Same(action'[a], action[a]) /\ (action'[a].status # "none" => action[a].status # "none")
      BY <2>2
    <3> QED BY <1>1, <1>3, <1>4, <1>5, <3>1 DEF Remembered, Replaced, Same
  <2> QED BY <2>1, <2>2
<1>8. \A a \in Action : action'[a].status \in {"approved", "executed"} => effects'[a] = 1
  BY <1>1
<1> QED BY <1>1, <1>6, <1>7, <1>8 DEF Remembered

(* The approved edit is made, from the version it was proposed for.        *)
LEMMA EffectFaithful ==
  ASSUME Sound, Remembered, NEW r \in Requests, NEW a \in Action, a = req[r].act, Claims(a),
         Reviewed(action[a]), Effect(r, "approved"), Goto(r, "finish")
  PROVE  Remembered'
<1>1. /\ action[a] \in AnyRow /\ action[a].status = "proposed" /\ effects[a] = 0
      /\ section \in [ver : Nat, text : Words] /\ req[r] \in AnyRequest
  BY DEF Sound, Shape, Claims
<1>2. /\ effects'[a] = 1 /\ \A b \in Action \ {a} : effects'[b] = effects[b]
  BY <1>1 DEF Effect, Sound, Shape
<1>3. \A q \in Requests : req'[q] = req[q] \/ req'[q].pc = "finish"
  BY <1>1 DEF Goto, Sound, Shape, AnyRequest
<1>4. CASE action[a].kind = "create"
  <2>1. SetStatus(a, "approved") /\ UNCHANGED <<section, edit>>
    BY <1>4 DEF Effect
  <2>2. action'[a] = [action[a] EXCEPT !.status = "approved"]
    BY <2>1 DEF SetStatus, Sound, Shape
  <2>3. Same(action'[a], action[a]) /\ action'[a].status = "approved"
    BY <1>1, <2>2 DEF Same, AnyRow
  <2>4. \A b \in Action \ {a} : action'[b] = action[b]
    BY <2>1 DEF SetStatus, Sound, Shape
  <2>5. \A b \in Action : Edited(b)' <=> Edited(b)
    BY <1>1, <1>2, <1>4, <2>3, <2>4 DEF Edited, Same
  <2>6. \A v, text : Seen(v, text)' <=> Seen(v, text)
    BY <2>1 DEF Seen
  <2>7. \A v, b : Undoes(v, b)' <=> Undoes(v, b)
    BY <2>1, <2>5 DEF Undoes
  <2>8. \A q \in Requests :
          /\ req'[q].pc \in {"turn", "revise", "undo"} => Seen(req[q].sec, req[q].text)'
          /\ req'[q].pc = "undo" => Undoes(req[q].sec, req[q].act)'
    BY <1>3, <2>6, <2>7 DEF Remembered
  <2>9. ASSUME NEW b \in Action
        PROVE  /\ action'[b].status # "none" /\ action'[b].kind = "revise" =>
                     Seen(action[b].sec, action[b].before)'
               /\ Edited(b)' => Replaced(b)'
               /\ action'[b].status # "none" /\ action'[b].origin = "undo" =>
                    /\ action'[b].kind = "revise" /\ Undoes(action[b].sec, action[b].prev)'
                    /\ action'[b].text = edit'[action'[b].prev].before
    <3>1. Same(action'[b], action[b]) /\ (action'[b].status # "none" => action[b].status # "none")
      BY <1>1, <2>3, <2>4 DEF Same
    <3> QED BY <2>1, <2>5, <2>6, <2>7, <3>1 DEF Remembered, Replaced, Same
  <2>10. \A b \in Action : action'[b].status \in {"approved", "executed"} => effects'[b] = 1
    BY <1>2, <2>4 DEF Remembered
  <2> QED BY <2>1, <2>8, <2>9, <2>10 DEF Remembered
<1>5. CASE action[a].kind # "create"
  <2> DEFINE v == section.ver
             made == [from |-> v, to |-> v + 1, before |-> section.text, text |-> action[a].text]
  <2>1. /\ action[a].kind = "revise" /\ section' = [ver |-> v + 1, text |-> action[a].text]
        /\ action' = [action EXCEPT ![a].status = "approved", ![a].after = v + 1]
        /\ edit' = [edit EXCEPT ![a] = made] /\ v \in Nat /\ section.text \in Words
    BY <1>1, <1>5 DEF Effect, AnyRow
  <2>2. action[a].sec = v /\ action[a].before = section.text
    BY <1>1, <2>1 DEF Reviewed, Current, Remembered, Seen
  <2>3. made \in AnyEdit
    BY <1>1, <2>1 DEF AnyEdit, AnyRow
  <2>4. edit' \in [Action -> AnyEdit] /\ edit'[a] = made /\ \A b \in Action \ {a} : edit'[b] = edit[b]
    BY <2>1, <2>3 DEF Remembered
  <2>5. \A b \in Action \ {a} : action'[b] = action[b]
    BY <2>1 DEF Sound, Shape
  <2>6. action'[a] = [action[a] EXCEPT !.status = "approved", !.after = v + 1]
    BY <2>1 DEF Sound, Shape
  <2>7. /\ action'[a].status = "approved" /\ action'[a].after = v + 1 /\ action'[a].kind = "revise"
        /\ action'[a].sec = v /\ action'[a].before = section.text
        /\ action'[a].text = action[a].text /\ action'[a].origin = action[a].origin
        /\ action'[a].prev = action[a].prev
    <3>1. /\ action'[a].status = "approved" /\ action'[a].after = v + 1
          /\ action'[a].kind = action[a].kind /\ action'[a].sec = action[a].sec
          /\ action'[a].before = action[a].before /\ action'[a].text = action[a].text
          /\ action'[a].origin = action[a].origin /\ action'[a].prev = action[a].prev
      <4> HIDE DEF v
      <4> QED BY <1>1, <2>6 DEF AnyRow
    <3> QED BY <2>1, <2>2, <3>1
  <2>8. Replaced(a)' /\ Edited(a)'
    BY <1>2, <2>4, <2>7 DEF Replaced, Edited
  <2>9. /\ \A b \in Action \ {a} : Edited(b)' <=> Edited(b)
        /\ \A b \in Action \ {a} : Replaced(b)' <=> Replaced(b)
    <3>1. ASSUME NEW b \in Action \ {a}
          PROVE  effects'[b] = effects[b] /\ edit'[b] = edit[b] /\ action'[b] = action[b]
      BY <1>2, <2>4, <2>5
    <3>2. \A b \in Action \ {a} : Edited(b)' <=> Edited(b)
      BY <3>1 DEF Edited
    <3>3. \A b \in Action \ {a} : Replaced(b)' <=> Replaced(b)
      BY <3>1 DEF Replaced
    <3> QED BY <3>2, <3>3
  <2>10. ASSUME NEW w \in Nat, NEW text, Seen(w, text) PROVE Seen(w, text)'
    BY <2>1, <2>10 DEF Seen
  <2>11. ASSUME NEW w, NEW b, Undoes(w, b)
         PROVE  Undoes(w, b)' /\ b # a /\ edit'[b] = edit[b]
    <3>1. b \in Action /\ b # a
      BY <1>1, <2>11 DEF Undoes, Edited
    <3> QED BY <2>4, <2>9, <2>11, <3>1 DEF Undoes
  <2>12. \A q \in Requests : req[q].sec \in Nat
    BY DEF Sound, Shape, AnyRequest
  <2>13. \A q \in Requests :
          /\ req'[q].pc \in {"turn", "revise", "undo"} => Seen(req[q].sec, req[q].text)'
          /\ req'[q].pc = "undo" => Undoes(req[q].sec, req[q].act)'
    BY <1>3, <2>10, <2>11, <2>12 DEF Remembered
  <2>14. ASSUME NEW b \in Action
        PROVE  /\ action'[b].status # "none" /\ action'[b].kind = "revise" =>
                     Seen(action[b].sec, action[b].before)'
               /\ Edited(b)' => Replaced(b)'
               /\ action'[b].status # "none" /\ action'[b].origin = "undo" =>
                    /\ action'[b].kind = "revise" /\ Undoes(action[b].sec, action[b].prev)'
                    /\ action'[b].text = edit'[action'[b].prev].before
    <3>1. /\ action'[b].sec = action[b].sec /\ action'[b].before = action[b].before
          /\ action'[b].kind = action[b].kind /\ action'[b].origin = action[b].origin
          /\ action'[b].prev = action[b].prev /\ action'[b].text = action[b].text
          /\ action'[b].status # "none" => action[b].status # "none"
          /\ action[b].sec \in Nat
      <4>1. CASE b = a
        BY <1>1, <2>1, <2>2, <2>7, <4>1 DEF AnyRow
      <4>2. CASE b # a
        BY <2>5, <4>2 DEF Sound, Shape, AnyRow
      <4> QED BY <4>1, <4>2
    <3>2. action'[b].status # "none" /\ action'[b].kind = "revise" => Seen(action[b].sec, action[b].before)'
      BY <2>10, <3>1 DEF Remembered
    <3>3. Edited(b)' => Replaced(b)'
      BY <2>8, <2>9 DEF Remembered
    <3>4. ASSUME action'[b].status # "none", action'[b].origin = "undo"
          PROVE  /\ action'[b].kind = "revise" /\ Undoes(action[b].sec, action[b].prev)'
                 /\ action'[b].text = edit'[action'[b].prev].before
      <4>1. /\ action[b].kind = "revise" /\ Undoes(action[b].sec, action[b].prev)
            /\ action[b].text = edit[action[b].prev].before
        BY <3>1, <3>4 DEF Remembered
      <4> QED BY <2>11, <3>1, <4>1
    <3> QED BY <3>2, <3>3, <3>4
  <2>15. \A b \in Action : action'[b].status \in {"approved", "executed"} => effects'[b] = 1
    BY <1>2, <2>5 DEF Remembered
  <2> QED BY <2>4, <2>13, <2>14, <2>15 DEF Remembered
<1> QED BY <1>4, <1>5

(* What the requests do to it.                                             *)
LEMMA AnswerFaithful ==
  ASSUME Sound, Remembered, NEW r \in Requests, Answer(r)
  PROVE  Remembered'
<1>1. PICK a \in Action :
        /\ Fresh(a)
        /\ \/ \E text \in Texts : action' = Propose(a, req[r], text, "assistant", 0)
           \/ \E ok \in BOOLEAN : action' = ProposeOther(a, ok)
  BY DEF Answer
<1>2. PICK new_row \in AnyRow : /\ new_row.status = "proposed" /\ Faithfully(new_row)
                                /\ action' = [action EXCEPT ![a] = new_row]
  <2>1. CASE \E text \in Texts : action' = Propose(a, req[r], text, "assistant", 0)
    <3>1. PICK text \in Words : action' = Propose(a, req[r], text, "assistant", 0)
      BY <2>1 DEF Words
    <3> DEFINE new_row == [status |-> "proposed", kind |-> "revise", ok |-> TRUE,
                           sec |-> req[r].sec, ev |-> req[r].ev, text |-> text,
                           before |-> req[r].text, origin |-> "assistant", prev |-> 0, after |-> 0]
    <3>2. new_row \in AnyRow /\ new_row.status = "proposed"
      BY DEF Sound, Shape, AnyRequest, AnyRow, Status
    <3>3. Faithfully(new_row)
      BY DEF Faithfully, Remembered, Answer, At
    <3>4. action' = [action EXCEPT ![a] = new_row]
      BY <3>1 DEF Propose
    <3> QED BY <3>2, <3>3, <3>4
  <2>2. CASE \E ok \in BOOLEAN : action' = ProposeOther(a, ok)
    <3>1. PICK ok \in BOOLEAN : action' = ProposeOther(a, ok)
      BY <2>2
    <3> DEFINE new_row == [NoRow EXCEPT !.status = "proposed", !.ok = ok]
    <3>2. new_row \in AnyRow /\ new_row.status = "proposed" /\ Faithfully(new_row)
      BY DEF NoRow, AnyRow, Status, Words, Faithfully
    <3> QED BY <3>1, <3>2 DEF ProposeOther
  <2> QED BY <1>1, <2>1, <2>2
<1>3. action'[a] = new_row /\ action[a].status = "none"
  BY <1>1, <1>2 DEF Sound, Shape, Fresh
<1>4. ASSUME NEW b \in Action \ {a}
      PROVE  /\ Same(action'[b], action[b])
             /\ action[b].status = "none" => action'[b].status = "none"
             /\ action'[b].status \in {"approved", "executed"} => effects[b] = 1
  BY <1>2 DEF Sound, Shape, Same, Remembered
<1> QED BY <1>2, <1>3, <1>4, OfferedFaithful DEF Answer

LEMMA ReviseWriteFaithful ==
  ASSUME Sound, Remembered, NEW r \in Requests, ReviseWrite(r)
  PROVE  Remembered'
<1> DEFINE a == req[r].act
<1>1. a \in Action /\ At(r, "revise") /\ Done(r) /\ UNCHANGED content /\ action[a] \in AnyRow
  BY DEF ReviseWrite, Sound, Shape, At
<1>2. CASE Claims(a)
  <2>1. PICK b \in Action, text \in Texts :
          /\ Fresh(b)
          /\ action' = [Propose(b, req[r], text, "revision", a) EXCEPT ![a].status = "invalidated"]
    BY <1>2 DEF ReviseWrite
  <2> DEFINE new_row == [status |-> "proposed", kind |-> "revise", ok |-> TRUE,
                         sec |-> req[r].sec, ev |-> req[r].ev, text |-> text,
                         before |-> req[r].text, origin |-> "revision", prev |-> a, after |-> 0]
             old_row == [action[a] EXCEPT !.status = "invalidated"]
  <2>2. action[b].status = "none" /\ a # b
    BY <1>1, <1>2, <2>1 DEF Fresh, Claims
  <2>3. new_row \in AnyRow /\ new_row.status = "proposed"
    BY <1>1 DEF Sound, Shape, AnyRequest, AnyRow, Status, Words
  <2>4. Faithfully(new_row)
    BY <1>1 DEF Faithfully, Remembered, At
  <2>5. action' = [[action EXCEPT ![b] = new_row] EXCEPT ![a] = old_row]
    BY <1>1, <2>1, <2>2 DEF Propose, Sound, Shape
  <2>6. Same(old_row, action[a]) /\ old_row.status = "invalidated"
    BY <1>1 DEF Same, AnyRow
  <2> HIDE DEF new_row, old_row
  <2>7. action'[b] = new_row /\ action'[a] = old_row
        /\ \A c \in Action \ {a, b} : action'[c] = action[c]
    BY <1>1, <2>2, <2>5 DEF Sound, Shape
  <2>8. ASSUME NEW c \in Action \ {b}
        PROVE  /\ Same(action'[c], action[c])
               /\ action[c].status = "none" => action'[c].status = "none"
               /\ action'[c].status \in {"approved", "executed"} => effects[c] = 1
    <3>1. CASE c = a
      BY <1>2, <2>6, <2>7, <3>1 DEF Claims
    <3>2. CASE c # a
      BY <2>7, <3>2 DEF Same, Remembered
    <3> QED BY <3>1, <3>2
  <2> QED BY <1>1, <2>2, <2>3, <2>4, <2>7, <2>8, OfferedFaithful
<1>3. CASE ~Claims(a)
  BY <1>1, <1>3, DoneFaithful DEF ReviseWrite
<1> QED BY <1>2, <1>3

LEMMA UndoWriteFaithful ==
  ASSUME Sound, Remembered, NEW r \in Requests, UndoWrite(r)
  PROVE  Remembered'
<1> DEFINE a == req[r].act
<1>1. a \in Action /\ At(r, "undo") /\ Done(r) /\ UNCHANGED content /\ action[a] \in AnyRow
  BY DEF UndoWrite, Sound, Shape, At
<1>2. PICK b \in Action : /\ Fresh(b)
                          /\ action' = Propose(b, req[r], action[a].before, "undo", a)
  BY DEF UndoWrite
<1> DEFINE new_row == [status |-> "proposed", kind |-> "revise", ok |-> TRUE,
                       sec |-> req[r].sec, ev |-> req[r].ev, text |-> action[a].before,
                       before |-> req[r].text, origin |-> "undo", prev |-> a, after |-> 0]
<1>3. new_row \in AnyRow /\ new_row.status = "proposed"
  BY <1>1 DEF Sound, Shape, AnyRequest, AnyRow, Status
<1>4. Faithfully(new_row)
  <2>1. Seen(req[r].sec, req[r].text) /\ Undoes(req[r].sec, a)
    BY <1>1 DEF Remembered, At
  <2>2. action[a].before = edit[a].before
    BY <1>1, <2>1 DEF Remembered, Undoes, Replaced
  <2> QED BY <2>1, <2>2 DEF Faithfully
<1>5. action' = [action EXCEPT ![b] = new_row]
  BY <1>2 DEF Propose
<1> HIDE DEF new_row
<1>6. action'[b] = new_row /\ action[b].status = "none"
  BY <1>2, <1>5 DEF Sound, Shape, Fresh
<1>7. ASSUME NEW c \in Action \ {b}
      PROVE  /\ Same(action'[c], action[c])
             /\ action[c].status = "none" => action'[c].status = "none"
             /\ action'[c].status \in {"approved", "executed"} => effects[c] = 1
  BY <1>5 DEF Sound, Shape, Same, Remembered
<1> QED BY <1>1, <1>3, <1>4, <1>6, <1>7, OfferedFaithful

LEMMA LoadFaithful ==
  ASSUME Sound, Remembered, NEW r \in Requests, NEW a \in {0} \cup Action,
         NEW pc \in {"turn", "approve", "mismatch", "reject", "revise", "undo"},
         \/ Load(r, pc, a) /\ pc \notin {"turn", "revise", "undo"}
         \/ LoadContext(r, pc, a),
         pc = "undo" => Undoes(section.ver, a), UNCHANGED <<action, content>>
  PROVE  Remembered'
<1>1. CASE Load(r, pc, a) /\ pc \notin {"turn", "revise", "undo"}
  <2> DEFINE new == [req[r] EXCEPT !.pc = pc, !.act = a]
  <2>1. new \in AnyRequest /\ new.pc = pc
    <3>1. req[r] \in AnyRequest
      BY DEF Sound, Shape
    <3> QED BY <3>1 DEF AnyRequest
  <2>2. req' = [req EXCEPT ![r] = new]
    BY <1>1 DEF Load
  <2>3. Recalls(new)
    BY <1>1, <2>1 DEF Recalls
  <2> HIDE DEF new
  <2> QED BY <2>1, <2>2, <2>3, QuietFaithful
<1>2. CASE LoadContext(r, pc, a)
  <2> DEFINE new == [pc |-> pc, act |-> a, sec |-> section.ver, ev |-> evidence, text |-> section.text]
  <2>1. new \in AnyRequest
    BY DEF Sound, Shape, AnyRequest
  <2>2. req' = [req EXCEPT ![r] = new]
    BY <1>2 DEF LoadContext
  <2>3. Recalls(new)
    BY DEF Recalls, Seen, Sound, Shape
  <2> HIDE DEF new
  <2> QED BY <2>1, <2>2, <2>3, QuietFaithful
<1> QED BY <1>1, <1>2

LEMMA OutsideFaithful ==
  ASSUME Sound, Remembered, Outside
  PROVE  Remembered'
<1>1. /\ UNCHANGED <<action, req, effects, edit>> /\ section \in [ver : Nat, text : Words]
      /\ section' = section \/ section'.ver = section.ver + 1
  BY DEF Outside, Sound, Shape
<1>2. ASSUME NEW v \in Nat, NEW text, Seen(v, text) PROVE Seen(v, text)'
  BY <1>1, <1>2 DEF Seen
<1>3. /\ \A a \in Action : Edited(a)' <=> Edited(a)
      /\ \A a \in Action : Replaced(a)' <=> Replaced(a)
      /\ \A v, a : Undoes(v, a)' <=> Undoes(v, a)
  BY <1>1 DEF Edited, Replaced, Undoes
<1>4. /\ \A r \in Requests : req[r].sec \in Nat
      /\ \A a \in Action : action[a].sec \in Nat
  BY DEF Sound, Shape, AnyRequest, AnyRow
<1> QED BY <1>1, <1>2, <1>3, <1>4 DEF Remembered

LEMMA NextFaithful ==
  ASSUME Sound, Faithful, [DialogueNext]_dvars
  PROVE  Faithful'
<1>1. UNCHANGED engine
  BY DEF DialogueNext, dvars, content, Ask, Answer, Invalidate, ClaimSqlite, Effect, Finish,
     ClaimPostgres, Reload, Apply, Refresh, RejectWrite, ReviseWrite, UndoWrite, Abort, Approve,
     Reject, Revise, Undo, Outside
<1> SUFFICES ASSUME Remembered, engine = "sqlite" PROVE Remembered'
  BY <1>1 DEF Faithful
<1>2. CASE UNCHANGED dvars
  BY <1>2 DEF dvars, Remembered, Seen, Undoes, Edited, Replaced
<1>3. CASE Outside
  BY <1>3, OutsideFaithful
<1>4. ASSUME NEW r \in Requests, NEW a \in Action,
             Approve(r, a) \/ Reject(r, a) \/ Revise(r, a) \/ Undo(r, a)
      PROVE  Remembered'
  <2>1. CASE Approve(r, a) \/ Reject(r, a) \/ Revise(r, a)
    <3>1. PICK pc \in {"approve", "mismatch", "reject", "revise"} :
            \/ Load(r, pc, a) /\ pc # "revise"
            \/ LoadContext(r, pc, a)
      BY <2>1 DEF Approve, Reject, Revise
    <3>2. UNCHANGED <<action, content>>
      BY <2>1 DEF Approve, Reject, Revise
    <3> QED BY <3>1, <3>2, LoadFaithful
  <2>2. CASE Undo(r, a)
    <3>1. Edited(a) /\ Undoes(section.ver, a)
      BY <2>2 DEF Undo, UndoBase, Remembered, Edited, Undoes, Replaced
    <3> QED BY <2>2, <3>1, LoadFaithful DEF Undo
  <2> QED BY <1>4, <2>1, <2>2
<1>5. ASSUME NEW r \in Requests, Ask(r) PROVE Remembered'
  BY <1>5, LoadFaithful DEF Ask
<1>6. ASSUME NEW r \in Requests, Refresh(r) \/ Abort(r) PROVE Remembered'
  <2>1. CASE Done(r) /\ UNCHANGED <<action, content>>
    BY <2>1, DoneFaithful
  <2>2. CASE Goto(r, "stale") /\ UNCHANGED <<action, content>>
    <3> DEFINE new == [req[r] EXCEPT !.pc = "stale"]
    <3>1. new \in AnyRequest /\ new.pc = "stale"
      BY DEF Sound, Shape, AnyRequest
    <3>2. req' = [req EXCEPT ![r] = new]
      BY <2>2 DEF Goto
    <3> HIDE DEF new
    <3>3. Recalls(new)
      BY <3>1 DEF Recalls
    <3> QED BY <2>2, <3>1, <3>2, <3>3, QuietFaithful
  <2> QED BY <1>6, <2>1, <2>2 DEF Refresh, Abort
<1>7. ASSUME NEW r \in Requests, ClaimSqlite(r) PROVE Remembered'
  <2>1. req[r].act \in Action /\ action[req[r].act].status # "none"
    BY <1>7 DEF ClaimSqlite, At, Sound
  <2>2. CASE Claims(req[r].act) /\ Reviewed(action[req[r].act]) /\ Effect(r, "approved") /\ Goto(r, "finish")
    BY <2>1, <2>2, EffectFaithful
  <2>3. CASE SetStatus(req[r].act, "invalidated") /\ Done(r) /\ UNCHANGED content
    BY <2>1, <2>3, WrittenFaithful DEF Status
  <2>4. CASE Done(r) /\ UNCHANGED <<action, content>>
    BY <2>4, DoneFaithful
  <2> QED BY <1>7, <2>2, <2>3, <2>4 DEF ClaimSqlite
<1>8. ASSUME NEW r \in Requests, Finish(r) PROVE Remembered'
  BY <1>8, WrittenFaithful DEF Finish, Sound, At, Status
<1>9. ASSUME NEW r \in Requests, Invalidate(r) \/ RejectWrite(r) PROVE Remembered'
  <2>1. req[r].act \in Action /\ action[req[r].act].status # "none"
    BY <1>9 DEF Invalidate, RejectWrite, At, Sound
  <2>2. \/ SetStatus(req[r].act, "invalidated") \/ SetStatus(req[r].act, "rejected")
        \/ UNCHANGED action
    BY <1>9 DEF Invalidate, RejectWrite
  <2>3. Done(r) /\ UNCHANGED content
    BY <1>9 DEF Invalidate, RejectWrite
  <2> QED BY <2>1, <2>2, <2>3, WrittenFaithful, DoneFaithful DEF Status
<1>10. ASSUME NEW r \in Requests, ClaimPostgres(r) \/ Reload(r) \/ Apply(r) PROVE FALSE
  BY <1>10 DEF ClaimPostgres, Reload, Apply, At, Sound, Holds
<1> QED BY <1>2, <1>3, <1>4, <1>5, <1>6, <1>7, <1>8, <1>9, <1>10, AnswerFaithful,
           ReviseWriteFaithful, UndoWriteFaithful DEF DialogueNext

(* What is remembered of the section is what it was, in every state.       *)
THEOREM FaithfulHolds == DialogueSpec => []Faithful
<1>1. Sound /\ Faithful /\ [DialogueNext]_dvars => Faithful'
  BY NextFaithful
<1> QED BY <1>1, InitFaithful, SoundHolds, PTL DEF DialogueSpec

(* Optimistic revisions (manuscript_chat.py): on sqlite no edit replaces a *)
(* version of the section other than the one its proposal was bound to,    *)
(* for any number of requests and of changes from outside.                 *)
THEOREM SqliteEditsHold == DialogueSpec => []SqliteEditsAsReviewed
<1>1. Sound /\ Faithful => SqliteEditsAsReviewed
  BY DEF Faithful, Remembered, SqliteEditsAsReviewed, EditsAsReviewed, Sound, Shape, Edited, Replaced
<1> QED BY <1>1, SoundHolds, FaithfulHolds, PTL

(* Undo (revise_proposal, undo_action): on sqlite an executed undo follows *)
(* the very edit it undoes and gives back the text that edit replaced.     *)
THEOREM UndoHolds == DialogueSpec => []UndoRestores
<1>1. ASSUME Sound, Faithful PROVE UndoRestores
  <2> SUFFICES ASSUME Remembered, NEW a \in Action, action[a].origin = "undo", effects[a] > 0
               PROVE  LET p == action[a].prev IN
                        /\ effects[p] > 0 /\ edit[a].from = edit[p].to
                        /\ edit[a].text = edit[p].before
    BY <1>1 DEF Faithful, UndoRestores
  <2>1. effects[a] = 1 /\ action[a].status # "none" /\ action[a].kind \in {"revise", "create"}
    BY <1>1 DEF Sound, Shape, AnyRow
  <2>2. /\ action[a].kind = "revise" /\ Undoes(action[a].sec, action[a].prev)
        /\ action[a].text = edit[action[a].prev].before
    BY <2>1 DEF Remembered
  <2>3. edit[a].from = action[a].sec /\ edit[a].text = action[a].text
    BY <2>1, <2>2 DEF Remembered, Edited, Replaced
  <2> QED BY <2>2, <2>3 DEF Undoes, Edited
<1> QED BY <1>1, SoundHolds, FaithfulHolds, PTL

-----------------------------------------------------------------------------
(* Every version of the section stems from an action that took effect or   *)
(* from a change from outside: the bounds on those bound the versions.     *)
Landed == {a \in Action : effects[a] = 1}

Counted ==
  /\ outside \in 0 .. MaxOutside /\ evidence \in 0 .. outside
  /\ section.ver <= outside + Cardinality(Landed)

LEMMA LandedCounted ==
  /\ IsFiniteSet(Landed) /\ Cardinality(Landed) \in 0 .. MaxActions
  /\ IsFiniteSet(Landed') /\ Cardinality(Landed') \in 0 .. MaxActions
<1>1. IsFiniteSet(Action) /\ Cardinality(Action) = MaxActions
  BY FS_Interval, DialogueAssumptions DEF Action
<1>2. ASSUME NEW S, S \subseteq Action PROVE IsFiniteSet(S) /\ Cardinality(S) \in 0 .. MaxActions
  <2>1. IsFiniteSet(S) /\ Cardinality(S) <= MaxActions
    BY <1>1, <1>2, FS_Subset
  <2> QED BY <2>1, FS_CardinalityType, DialogueAssumptions
<1> QED BY <1>2 DEF Landed

LEMMA VersionFits == Shape /\ Counted => section.ver \in Version /\ evidence \in Version
BY LandedCounted, DialogueAssumptions DEF Shape, Counted, Version

(* An effect is counted, once.                                             *)
LEMMA EffectCounted ==
  ASSUME Sound, Shape', Counted, NEW r \in Requests, req[r].act \in Action, NEW s, Effect(r, s)
  PROVE  Counted'
<1> DEFINE a == req[r].act
<1>1. /\ effects' = [effects EXCEPT ![a] = effects[a] + 1] /\ UNCHANGED <<evidence, outside>>
      /\ section' = section \/ section'.ver = section.ver + 1
  BY DEF Effect
<1>2. effects[a] = 0 /\ effects'[a] = 1 /\ \A b \in Action \ {a} : effects'[b] = effects[b]
  BY <1>1 DEF Sound, Shape
<1>3. Landed' = Landed \cup {a} /\ a \notin Landed
  BY <1>2 DEF Landed
<1>4. Cardinality(Landed') = Cardinality(Landed) + 1
  BY <1>3, LandedCounted, FS_AddElement
<1> QED BY <1>1, <1>4, LandedCounted DEF Counted, Sound, Shape

(* A step that neither takes an action nor changes things from outside.    *)
TakesEffect == \E r \in Requests, s \in {"approved", "executed"} :
             req[r].act \in Action /\ Claims(req[r].act) /\ Effect(r, s)

LEMMA EffectsOnly ==
  ASSUME Sound, [DialogueNext]_dvars
  PROVE  UNCHANGED <<section, evidence, outside, effects, edit>> \/ TakesEffect \/ Outside
<1>1. ASSUME NEW r \in Requests, ClaimSqlite(r) \/ ClaimPostgres(r) \/ Apply(r)
      PROVE  UNCHANGED <<section, evidence, outside, effects, edit>> \/ TakesEffect
  <2>1. req[r].act \in Action
    BY <1>1 DEF ClaimSqlite, ClaimPostgres, Apply, At, Sound
  <2>2. At(r, "apply") => Claims(req[r].act)
    BY DEF Sound, Holds, At, Claims
  <2> QED BY <1>1, <2>1, <2>2 DEF ClaimSqlite, ClaimPostgres, Apply, TakesEffect, content
<1> QED BY <1>1 DEF DialogueNext, dvars, content, Ask, Answer, Invalidate, Finish, Reload, Refresh,
                    RejectWrite, ReviseWrite, UndoWrite, Abort, Approve, Reject, Revise, Undo

LEMMA CountedNext ==
  ASSUME Sound, Shape', Counted, [DialogueNext]_dvars
  PROVE  Counted'
<1>1. CASE UNCHANGED <<section, evidence, outside, effects, edit>>
  BY <1>1 DEF Counted, Landed
<1>2. CASE TakesEffect
  BY <1>2, EffectCounted DEF TakesEffect
<1>3. CASE Outside
  <2>1. /\ outside' = outside + 1 /\ outside < MaxOutside /\ Landed' = Landed
        /\ \/ section'.ver = section.ver + 1 /\ evidence' = evidence
           \/ section' = section /\ evidence' = evidence + 1
    BY <1>3 DEF Outside, Landed
  <2>2. section.ver \in Nat
    BY DEF Sound, Shape
  <2> QED BY <2>1, <2>2, LandedCounted, DialogueAssumptions DEF Counted
<1> QED BY <1>1, <1>2, <1>3, EffectsOnly

(* A revision's text, and the text it is to replace, are texts; so are     *)
(* those a request has loaded to propose one.                              *)
RowTyped(p) == p \in Row /\ (p.kind = "revise" => p.text \in Texts /\ p.before \in Texts)

RequestTyped(q) ==
  /\ q \in Request /\ (q.pc \in {"turn", "revise", "undo"} => q.text \in Texts)
  /\ q.pc = "undo" => action[q.act].kind = "revise"

EditRow == [from : Version, to : Version, before : Texts \cup {NoText}, text : Texts \cup {NoText}]

Typed ==
  /\ engine \in Engines /\ section.text \in Texts
  /\ \A a \in Action : RowTyped(action[a])
  /\ \A r \in Requests : RequestTyped(req[r])
  /\ edit \in [Action -> EditRow]

LEMMA TypedTypes == Sound /\ Counted /\ Typed => TypeOKDialogue
<1> SUFFICES ASSUME Sound, Counted, Typed PROVE TypeOKDialogue
  OBVIOUS
<1>1. section \in [ver : Version, text : Texts]
  <2>1. section = [ver |-> section.ver, text |-> section.text] /\ section.ver \in Version
    BY VersionFits DEF Sound, Shape
  <2> QED BY <2>1 DEF Typed
<1>2. action \in [Action -> Row] /\ req \in [Requests -> Request] /\ effects \in [Action -> {0, 1}]
  BY DEF Typed, RowTyped, RequestTyped, Sound, Shape
<1>3. evidence \in 0 .. MaxOutside /\ outside \in 0 .. MaxOutside
  BY DialogueAssumptions DEF Counted
<1> QED BY <1>1, <1>2, <1>3 DEF Typed, TypeOKDialogue, EditRow

(* A new revision.                                                         *)
LEMMA ProposalTyped ==
  ASSUME Typed, Shape, NEW r \in Requests, req[r].pc \in {"turn", "revise", "undo"},
         NEW b \in Action, NEW text \in Texts,
         NEW origin \in {"assistant", "revision", "undo"}, NEW prev \in {0} \cup Action,
         NEW rows, rows = Propose(b, req[r], text, origin, prev)
  PROVE  /\ RowTyped(rows[b]) /\ DOMAIN rows = Action
         /\ \A a \in Action \ {b} : rows[a] = action[a]
<1> DEFINE row == [status |-> "proposed", kind |-> "revise", ok |-> TRUE, sec |-> req[r].sec,
                   ev |-> req[r].ev, text |-> text, before |-> req[r].text, origin |-> origin,
                   prev |-> prev, after |-> 0]
<1>1. req[r] \in Request /\ req[r].text \in Texts /\ 0 \in Version
  BY DialogueAssumptions DEF Typed, RequestTyped, Version
<1>2. row \in Row
  BY <1>1 DEF Row, Request, Status
<1>3. RowTyped(row)
  BY <1>1, <1>2 DEF RowTyped
<1>4. rows = [action EXCEPT ![b] = row]
  BY DEF Propose
<1> HIDE DEF row
<1> QED BY <1>3, <1>4 DEF Shape

LEMMA StatusTyped ==
  ASSUME NEW p, RowTyped(p), NEW s \in Status
  PROVE  RowTyped([p EXCEPT !.status = s]) /\ [p EXCEPT !.status = s].kind = p.kind
<1>1. p \in Row
  BY DEF RowTyped
<1>2. [p EXCEPT !.status = s] \in Row
  BY <1>1 DEF Row
<1> QED BY <1>1, <1>2 DEF RowTyped, Row

(* A row changes its kind only while nobody uses it.                       *)
Kept(rows) ==
  \A a \in Action : RowTyped(rows[a]) /\ (action[a].status # "none" => rows[a].kind = action[a].kind)

LEMMA StatusKept ==
  ASSUME Typed, Shape, NEW a, NEW s \in Status, SetStatus(a, s)
  PROVE  Kept(action')
<1>1. ASSUME NEW b \in Action PROVE RowTyped(action'[b]) /\ action'[b].kind = action[b].kind
  <2>1. RowTyped(action[b])
    BY DEF Typed
  <2>2. action'[b] = IF b = a THEN [action[b] EXCEPT !.status = s] ELSE action[b]
    BY DEF SetStatus, Shape
  <2> QED BY <2>1, <2>2, StatusTyped
<1> QED BY <1>1 DEF Kept

LEMMA RowsTyped ==
  ASSUME Sound, Counted, Counted', Shape', Typed, [DialogueNext]_dvars
  PROVE  Kept(action')
<1>1. CASE UNCHANGED action
  BY <1>1 DEF Typed, Kept
<1>2. ASSUME NEW a, NEW s \in Status, SetStatus(a, s) PROVE Kept(action')
  BY <1>2, StatusKept DEF Sound
<1>3. CASE TakesEffect
  <2>1. PICK r \in Requests, s \in {"approved", "executed"} :
          req[r].act \in Action /\ Claims(req[r].act) /\ Effect(r, s)
    BY <1>3 DEF TakesEffect
  <2> DEFINE a == req[r].act
  <2>2. CASE action[a].kind = "create"
    BY <1>2, <2>1, <2>2 DEF Effect, Status
  <2>3. CASE action[a].kind # "create"
    <3> DEFINE row == [action[a] EXCEPT !.status = s, !.after = section.ver + 1]
    <3>1. action' = [action EXCEPT ![a] = row] /\ section'.ver = section.ver + 1
      <4>1. /\ section' = [ver |-> section.ver + 1, text |-> action[a].text]
            /\ action' = [action EXCEPT ![a].status = s, ![a].after = section.ver + 1]
        BY <2>1, <2>3 DEF Effect
      <4>2. [ver |-> section.ver + 1, text |-> action[a].text].ver = section.ver + 1
        OBVIOUS
      <4> QED BY <4>1, <4>2
    <3>2. section.ver + 1 \in Version
      <4>1. section'.ver \in Version
        <5>1. (Shape /\ Counted => section.ver \in Version /\ evidence \in Version)'
          BY VersionFits, LandedCounted, DialogueAssumptions DEF Shape, Counted, Version
        <5> QED BY <5>1
      <4> QED BY <3>1, <4>1
    <3>3. action[a] \in Row /\ RowTyped(action[a])
      BY <2>1 DEF Typed, RowTyped
    <3>4. row \in Row /\ row.kind = action[a].kind /\ row.text = action[a].text /\ row.before = action[a].before
      BY <3>2, <3>3 DEF Row, Status
    <3> HIDE DEF row
    <3>5. RowTyped(row)
      BY <3>3, <3>4 DEF RowTyped
    <3> QED BY <2>1, <3>1, <3>4, <3>5 DEF Kept, Typed, Sound, Shape
  <2> QED BY <2>2, <2>3
<1>4. ASSUME NEW r \in Requests, Answer(r) PROVE Kept(action')
  <2>1. PICK b \in Action :
          /\ Fresh(b)
          /\ \/ \E text \in Texts : action' = Propose(b, req[r], text, "assistant", 0)
             \/ \E ok \in BOOLEAN : action' = ProposeOther(b, ok)
    BY <1>4 DEF Answer
  <2>2. RowTyped(action'[b]) /\ \A a \in Action \ {b} : action'[a] = action[a]
    <3>1. CASE \E text \in Texts : action' = Propose(b, req[r], text, "assistant", 0)
      BY <1>4, <3>1, ProposalTyped DEF Answer, At, Sound
    <3>2. ASSUME NEW ok \in BOOLEAN, action' = ProposeOther(b, ok)
          PROVE  RowTyped(action'[b]) /\ \A a \in Action \ {b} : action'[a] = action[a]
      <4> DEFINE row == [NoRow EXCEPT !.status = "proposed", !.ok = ok]
      <4>1. row \in Row /\ row.kind = "create"
        <5>1. 0 \in Version
          BY DialogueAssumptions DEF Version
        <5>2. NoRow \in Row /\ NoRow.kind = "create"
          BY <5>1 DEF NoRow, Row, Status
        <5> QED BY <5>2 DEF Row, Status
      <4> HIDE DEF row
      <4>2. RowTyped(row)
        BY <4>1 DEF RowTyped
      <4>3. action' = [action EXCEPT ![b] = row]
        BY <3>2 DEF ProposeOther, row
      <4> QED BY <4>2, <4>3 DEF Sound, Shape
    <3> QED BY <2>1, <3>1, <3>2
  <2> QED BY <2>1, <2>2 DEF Kept, Fresh, Typed
<1>5. ASSUME NEW r \in Requests, ReviseWrite(r) PROVE Kept(action')
  <2> DEFINE a == req[r].act
  <2>1. CASE ~Claims(a)
    BY <1>1, <1>5, <2>1 DEF ReviseWrite
  <2>2. CASE Claims(a)
    <3>1. PICK b \in Action, text \in Texts :
            /\ Fresh(b)
            /\ action' = [Propose(b, req[r], text, "revision", a) EXCEPT ![a].status = "invalidated"]
      BY <1>5, <2>2 DEF ReviseWrite
    <3> DEFINE rows == Propose(b, req[r], text, "revision", a)
    <3>2. a \in Action /\ req[r].pc = "revise"
      BY <1>5 DEF ReviseWrite, At, Sound
    <3>3. /\ RowTyped(rows[b]) /\ DOMAIN rows = Action
          /\ \A c \in Action \ {b} : rows[c] = action[c]
      <4>1. rows = Propose(b, req[r], text, "revision", a) /\ a \in {0} \cup Action
            /\ req[r].pc \in {"turn", "revise", "undo"} /\ Shape
        BY <3>2 DEF Sound
      <4> HIDE DEF rows, a
      <4>2. RowTyped(rows[b])
        BY <4>1, ProposalTyped
      <4>3. DOMAIN rows = Action
        BY <4>1, ProposalTyped
      <4>4. \A c \in Action \ {b} : rows[c] = action[c]
        BY <4>1, ProposalTyped
      <4> QED BY <4>2, <4>3, <4>4
    <3>4. a # b /\ action[b].status = "none"
      BY <2>2, <3>1 DEF Claims, Fresh
    <3> HIDE DEF rows
    <3>5. action' = [rows EXCEPT ![a].status = "invalidated"]
      BY <3>1 DEF rows
    <3>6. /\ action'[a] = [action[a] EXCEPT !.status = "invalidated"]
          /\ action'[b] = rows[b] /\ \A c \in Action \ {a, b} : action'[c] = action[c]
      BY <3>2, <3>3, <3>4, <3>5
    <3>7. /\ RowTyped([action[a] EXCEPT !.status = "invalidated"])
          /\ [action[a] EXCEPT !.status = "invalidated"].kind = action[a].kind
      BY <3>2, StatusTyped DEF Typed, Status
    <3> QED BY <3>3, <3>4, <3>6, <3>7 DEF Kept, Typed
  <2> QED BY <2>1, <2>2
<1>6. ASSUME NEW r \in Requests, UndoWrite(r) PROVE Kept(action')
  <2> DEFINE a == req[r].act
  <2>1. PICK b \in Action : Fresh(b) /\ action' = Propose(b, req[r], action[a].before, "undo", a)
    BY <1>6 DEF UndoWrite
  <2>2. a \in Action /\ req[r].pc = "undo" /\ action[a].before \in Texts
    BY <1>6 DEF UndoWrite, At, Sound, Typed, RequestTyped, RowTyped
  <2>3. RowTyped(action'[b]) /\ \A c \in Action \ {b} : action'[c] = action[c]
    <3> DEFINE text == action[a].before
    <3>1. action' = Propose(b, req[r], text, "undo", a) /\ a \in {0} \cup Action /\ text \in Texts
          /\ req[r].pc \in {"turn", "revise", "undo"} /\ Shape
      BY <2>1, <2>2 DEF Sound
    <3> HIDE DEF text, a
    <3> QED BY <3>1, ProposalTyped
  <2> QED BY <2>1, <2>3 DEF Kept, Fresh, Typed
<1>7. \/ UNCHANGED action \/ TakesEffect \/ \E a, s : s \in Status /\ SetStatus(a, s)
      \/ \E r \in Requests : Answer(r) \/ ReviseWrite(r) \/ UndoWrite(r)
  <2>1. ASSUME NEW r \in Requests, ClaimSqlite(r) \/ ClaimPostgres(r) \/ Apply(r)
        PROVE  UNCHANGED action \/ TakesEffect \/ \E a, s : s \in Status /\ SetStatus(a, s)
    <3>1. req[r].act \in Action
      BY <2>1 DEF ClaimSqlite, ClaimPostgres, Apply, At, Sound
    <3>2. At(r, "apply") => Claims(req[r].act)
      BY DEF Sound, Holds, At, Claims
    <3> QED BY <2>1, <3>1, <3>2 DEF ClaimSqlite, ClaimPostgres, Apply, TakesEffect, content, Status
  <2>2. ASSUME NEW r \in Requests, Invalidate(r) \/ Finish(r) \/ RejectWrite(r)
        PROVE  UNCHANGED action \/ \E a, s : s \in Status /\ SetStatus(a, s)
    BY <2>2 DEF Invalidate, Finish, RejectWrite, Status
  <2> QED BY <2>1, <2>2 DEF DialogueNext, dvars, Ask, Reload, Refresh, Abort, Approve, Reject, Revise, Undo,
                            Outside
<1> QED BY <1>1, <1>2, <1>3, <1>4, <1>5, <1>6, <1>7

LEMMA RequestReplaced ==
  ASSUME Sound, Typed, Kept(action'), NEW r \in Requests, NEW new \in Request,
         req' = [req EXCEPT ![r] = new],
         new.pc \in {"turn", "revise", "undo"} => new.text \in Texts,
         new.pc = "undo" => action'[new.act].kind = "revise"
  PROVE  \A q \in Requests : RequestTyped(req[q])'
<1> SUFFICES ASSUME NEW q \in Requests PROVE RequestTyped(req[q])'
  OBVIOUS
<1>1. CASE q = r
  <2>1. req'[q] = new
    BY <1>1 DEF Sound, Shape
  <2> QED BY <2>1 DEF RequestTyped
<1>2. CASE q # r
  <2>1. req'[q] = req[q] /\ RequestTyped(req[q])
    BY <1>2 DEF Sound, Shape, Typed
  <2>2. req[q].pc = "undo" => req[q].act \in Action /\ action[req[q].act].status # "none"
    BY DEF Sound
  <2> QED BY <2>1, <2>2 DEF RequestTyped, Kept
<1> QED BY <1>1, <1>2

LEMMA RequestsTyped ==
  ASSUME Sound, Counted, Typed, Kept(action'), [DialogueNext]_dvars
  PROVE  \A q \in Requests : RequestTyped(req[q])'
<1>0. 0 \in Version /\ section.ver \in Version /\ evidence \in Version /\ section.text \in Texts
  BY VersionFits, DialogueAssumptions DEF Sound, Version, Typed
<1>1. CASE UNCHANGED req
  <2>1. \A q \in Requests :
          RequestTyped(req[q]) /\ (req[q].pc = "undo" => req[q].act \in Action
                                                         /\ action[req[q].act].status # "none")
    BY DEF Typed, Sound
  <2> QED BY <1>1, <2>1 DEF RequestTyped, Kept
<1>2. ASSUME NEW r \in Requests, Done(r) PROVE \A q \in Requests : RequestTyped(req[q])'
  <2>1. Idle \in Request /\ Idle.pc = "idle"
    BY <1>0 DEF Idle, Request
  <2> QED BY <1>2, <2>1, RequestReplaced DEF Done
<1>3. ASSUME NEW r \in Requests, NEW pc \in {"finish", "matched", "failed", "stale"}, Goto(r, pc)
      PROVE  \A q \in Requests : RequestTyped(req[q])'
  <2> DEFINE new == [req[r] EXCEPT !.pc = pc]
  <2>1. new \in Request /\ new.pc = pc
    BY DEF Typed, RequestTyped, Request
  <2>2. req' = [req EXCEPT ![r] = new]
    BY <1>3 DEF Goto
  <2> HIDE DEF new
  <2> QED BY <2>1, <2>2, RequestReplaced
<1>4. ASSUME NEW r \in Requests, NEW a \in Action, NEW pc \in {"approve", "mismatch", "reject"}, Load(r, pc, a)
      PROVE  \A q \in Requests : RequestTyped(req[q])'
  <2> DEFINE new == [req[r] EXCEPT !.pc = pc, !.act = a]
  <2>1. req[r] \in Request
    BY DEF Typed, RequestTyped
  <2>2. new \in Request /\ new.pc = pc
    BY <2>1 DEF Request
  <2>3. req' = [req EXCEPT ![r] = new]
    BY <1>4 DEF Load
  <2> HIDE DEF new
  <2> QED BY <2>2, <2>3, RequestReplaced
<1>5. ASSUME NEW r \in Requests, NEW a \in {0} \cup Action, NEW pc \in {"turn", "revise", "undo"},
             LoadContext(r, pc, a), UNCHANGED action, pc = "undo" => action[a].kind = "revise"
      PROVE  \A q \in Requests : RequestTyped(req[q])'
  <2> DEFINE new == [pc |-> pc, act |-> a, sec |-> section.ver, ev |-> evidence, text |-> section.text]
  <2>1. new \in Request /\ new.pc = pc /\ new.text \in Texts /\ new.act = a
    BY <1>0 DEF Request
  <2>2. req' = [req EXCEPT ![r] = new]
    BY <1>5 DEF LoadContext
  <2> HIDE DEF new
  <2> QED BY <1>5, <2>1, <2>2, RequestReplaced
<1>6. ASSUME NEW r \in Requests, Reload(r) PROVE \A q \in Requests : RequestTyped(req[q])'
  <2> DEFINE new == [req[r] EXCEPT !.pc = "apply", !.sec = section.ver]
  <2>1. req[r] \in Request
    BY DEF Typed, RequestTyped
  <2>2. new \in Request /\ new.pc = "apply"
    BY <1>0, <2>1 DEF Request
  <2>3. req' = [req EXCEPT ![r] = new]
    BY <1>6 DEF Reload
  <2> HIDE DEF new
  <2> QED BY <2>2, <2>3, RequestReplaced
<1>7. ASSUME NEW r \in Requests, NEW a \in Action,
             Approve(r, a) \/ Reject(r, a) \/ Revise(r, a) \/ Undo(r, a)
      PROVE  \A q \in Requests : RequestTyped(req[q])'
  BY <1>4, <1>5, <1>7 DEF Approve, Reject, Revise, Undo
<1>8. ASSUME NEW r \in Requests, Ask(r) PROVE \A q \in Requests : RequestTyped(req[q])'
  BY <1>5, <1>8 DEF Ask
<1>9. ASSUME NEW r \in Requests,
             \/ Answer(r) \/ Invalidate(r) \/ ClaimSqlite(r) \/ Finish(r) \/ ClaimPostgres(r)
             \/ Apply(r) \/ Refresh(r) \/ RejectWrite(r) \/ ReviseWrite(r) \/ UndoWrite(r) \/ Abort(r)
      PROVE  Done(r) \/ \E pc \in {"finish", "matched", "failed", "stale"} : Goto(r, pc)
  BY <1>9 DEF Answer, Invalidate, ClaimSqlite, Finish, ClaimPostgres, Apply, Refresh, RejectWrite,
              ReviseWrite, UndoWrite, Abort
<1> QED BY <1>1, <1>2, <1>3, <1>6, <1>7, <1>8, <1>9 DEF DialogueNext, dvars, Outside

LEMMA TypedNext ==
  ASSUME Sound, Counted, Typed, Sound', Counted', [DialogueNext]_dvars
  PROVE  Typed'
<1>1. Kept(action')
  BY RowsTyped DEF Sound
<1>2. \A a \in Action : RowTyped(action[a])'
  BY <1>1 DEF Kept, RowTyped
<1>3. \A q \in Requests : RequestTyped(req[q])'
  BY <1>1, RequestsTyped
<1>4. engine' = engine
  BY DEF DialogueNext, dvars, content, Ask, Answer, Invalidate, ClaimSqlite, Effect, Finish,
     ClaimPostgres, Reload, Apply, Refresh, RejectWrite, ReviseWrite, UndoWrite, Abort, Approve,
     Reject, Revise, Undo, Outside
<1>5. section'.text \in Texts /\ edit' \in [Action -> EditRow]
  <2>1. CASE UNCHANGED <<section, edit>>
    BY <2>1 DEF Typed
  <2>2. CASE Outside
    BY <2>2 DEF Outside, Typed
  <2>3. ASSUME NEW r \in Requests, NEW s, req[r].act \in Action, Effect(r, s),
               action[req[r].act].kind # "create"
        PROVE  section'.text \in Texts /\ edit' \in [Action -> EditRow]
    <3> DEFINE a == req[r].act
               made == [from |-> section.ver, to |-> section.ver + 1, before |-> section.text,
                        text |-> action[a].text]
    <3>1. /\ section' = [ver |-> section.ver + 1, text |-> action[a].text]
          /\ edit' = [edit EXCEPT ![a] = made]
      BY <2>3 DEF Effect
    <3>2. section'.ver = section.ver + 1 /\ section'.text = action[a].text
      BY <3>1
    <3>3. section.ver \in Version /\ section'.ver \in Version
      <4>1. (Shape /\ Counted => section.ver \in Version /\ evidence \in Version)'
        BY VersionFits, LandedCounted, DialogueAssumptions DEF Shape, Counted, Version
      <4> QED BY <4>1, VersionFits DEF Sound
    <3>4. action[a].text \in Texts
      BY <2>3 DEF Typed, RowTyped, Row
    <3>5. made \in EditRow
      BY <3>2, <3>3, <3>4 DEF EditRow, Typed
    <3> HIDE DEF made
    <3> QED BY <3>1, <3>2, <3>4, <3>5 DEF Typed
  <2>4. CASE TakesEffect
    BY <2>1, <2>3, <2>4 DEF TakesEffect, Effect
  <2> QED BY <2>1, <2>2, <2>4, EffectsOnly
<1> QED BY <1>2, <1>3, <1>4, <1>5 DEF Typed

(* Types, and the bounds on versions.                                      *)
LEMMA DialogueTypesHold == DialogueSpec => []TypeOKDialogue
<1>1. DialogueInit => Counted /\ Typed
  <2> SUFFICES ASSUME DialogueInit PROVE Counted /\ Typed
    OBVIOUS
  <2>1. 0 \in Version
    BY DialogueAssumptions DEF Version
  <2>2. NoRow \in Row /\ NoRow.kind = "create" /\ Idle \in Request /\ Idle.pc = "idle"
        /\ NoEdit \in EditRow
    BY <2>1 DEF NoRow, Row, Status, Idle, Request, NoEdit, EditRow
  <2>3. Counted
    BY LandedCounted, DialogueAssumptions DEF DialogueInit, Counted
  <2>4. engine \in Engines /\ section.text \in Texts
    BY DEF DialogueInit
  <2>5. /\ \A a \in Action : RowTyped(action[a])
        /\ \A r \in Requests : RequestTyped(req[r])
        /\ edit \in [Action -> EditRow]
    BY <2>2 DEF DialogueInit, RowTyped, RequestTyped
  <2> QED BY <2>3, <2>4, <2>5 DEF Typed
<1>2. Sound /\ Sound' /\ Counted /\ Typed /\ [DialogueNext]_dvars => Counted' /\ Typed'
  BY CountedNext, TypedNext DEF Sound
<1> QED BY <1>1, <1>2, SoundHolds, TypedTypes, PTL DEF DialogueSpec
=============================================================================
